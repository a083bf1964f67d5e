------------------------------ MODULE SiteFreeze ------------------------------
(***************************************************************************)
(* Reversible freezing of one site: taking a checkpoint, editing behind it,*)
(* publishing, discarding the edits, and finishing at startup what a crash *)
(* interrupted (createFreezeCheckpoint, publishDomain, restoreFreeze-      *)
(* Checkpoint and recoverFreezeCheckpoints of sitebrush.go over the        *)
(* statements of pkg/sitefreeze/store.go).                                 *)
(*                                                                         *)
(* The site is spread over three stores that commit separately: its content*)
(* database, the control database of the host, and files.  Every access to *)
(* one of them is a step of its own, may fail, may lose its answer when the*)
(* browser of the caller goes away, and the process may die between any    *)
(* two.  Calls work under the leases of SiteAdmission.                     *)
(*                                                                         *)
(* Contents are abstracted to version numbers, 0 for nothing: two versions *)
(* are equal when their hashes are.                                        *)
(***************************************************************************)
EXTENDS Naturals, Sequences, FiniteSets, FiniteSetsExt, SequencesExt

CONSTANTS
    Calls,      \* goroutines that serve requests and AI imports
    Recovery,   \* the startup goroutine
    Pages,
    Setups      \* what is considered, see Setup

Exclusive == {"freeze", "publish", "restore"}
Edits     == {"page", "import", "upload", "delete", "redirect", "password", "link", "revoke"}
Kinds     == Exclusive \cup Edits

(* A setup: how often each kind is called, how many accesses fail or lose   *)
(* their answer, how often the process dies, which pages are drafts at first*)
(* and whether the site is frozen already, whether a restoration outlives   *)
(* the browser (the socket of unfreezeSocket, not the form of unfreeze-     *)
(* Domain), and whether owners wait with exclusive calls until recovery has *)
(* ended.                                                                   *)
Setup ==
    [calls : UNION {[K -> Nat] : K \in SUBSET Kinds}, faults : Nat, crashes : Nat,
     drafts : SUBSET Pages, frozen : BOOLEAN, socket : BOOLEAN, patient : BOOLEAN]

ASSUME FreezeAssumption ==
    /\ IsFiniteSet(Pages) /\ "file" \notin Pages
    /\ Recovery \notin Calls

VARIABLES
    setup, left,            \* calls that may still be made, by kind
    faults, crashes,
    version,                \* the newest version of anything
    site,                   \* the content database
    control,                \* the control database
    disk,                   \* files of the site and of the public server
    job,                    \* what each call is doing
    holder, ticket, epoch,  \* the editing gate
    rival                   \* ghost: see Contended

stores == <<site, control, disk>>
gate   == <<holder, ticket, epoch>>
vars   == <<setup, left, faults, crashes, version, stores, job, gate, rival>>

Workers == Calls \cup {Recovery}
Gate == INSTANCE SiteAdmission WITH
            Domains <- {"site"}, Requests <- Workers, DomainOf <- [w \in Workers |-> "site"]

NoPages == [p \in Pages |-> 0]
NoPoint == [page |-> NoPages, live |-> NoPages, latest |-> NoPages, props |-> 0,
            file |-> 0, rules |-> 0, token |-> 0]

Idle == [kind |-> "none", step |-> "idle", id |-> 0, seen |-> <<>>, taken |-> NoPoint,
         todo |-> <<>>, flag |-> 0, value |-> 0, old |-> 0, begun |-> FALSE,
         guard |-> FALSE, epoch |-> 0, canceled |-> FALSE, broken |-> FALSE, done |-> FALSE]

-----------------------------------------------------------------------------
(* The stores *)

Unsettled == site.stage \in {"preparing", "restoring", "publishing"}
Point     == site.points[site.point]
Base(w)   == site.points[job[w].id]     \* the checkpoint a call has loaded

(* captureFreezeCheckpoint: what the three stores hold, hidden files left   *)
(* out.  Of a token the identity is compared, never what is left of it.     *)
Captured ==
    [page |-> site.page, live |-> site.live, latest |-> site.latest, props |-> site.props,
     file |-> IF "file" \in site.hidden THEN 0 ELSE disk.file,
     rules |-> control.rules, token |-> control.token.id]

SetSite(s)    == site' = s /\ UNCHANGED <<control, disk>>
SetControl(c) == control' = c /\ UNCHANGED <<site, disk>>
SetDisk(d)    == disk' = d /\ UNCHANGED <<site, control>>
Same          == UNCHANGED stores

(* Activate and Finish of store.go.                                         *)
Activated(id, stage) == [site EXCEPT !.stage = stage, !.point = id]
Finished == [site EXCEPT !.stage = "none", !.point = 0]

(* writePublicPolicy, in the publication goroutine: what guests may see,    *)
(* pinned to the checkpoint of a frozen site; it lifts the barrier.         *)
PolicyOfNow == [frozen |-> control.flag = 1, hidden |-> site.hidden,
                pinned |-> IF control.flag = 1 THEN site.live ELSE NoPages,
                file   |-> IF control.flag = 1 THEN disk.file ELSE 0]
PolicyNow == [frozen |-> control.flag = 1, hidden |-> site.hidden,
              pinned |-> IF control.flag = 1 /\ site.stage # "none" THEN Point.live ELSE NoPages,
              file   |-> IF control.flag = 1 /\ site.stage # "none" THEN Point.file ELSE 0]
WritePolicy == SetDisk([disk EXCEPT !.policy = PolicyNow, !.blocked = FALSE])

(* What a guest gets for a page.                                            *)
Guest(p) ==
    IF disk.blocked \/ p \in disk.policy.hidden THEN 0
    ELSE IF disk.policy.frozen THEN disk.policy.pinned[p]
    ELSE disk.static[p]

-----------------------------------------------------------------------------
(* Initially one page is published; a site that is frozen at first went     *)
(* through a freeze.                                                        *)

Init ==
    LET first == CHOOSE p \in Pages : TRUE
        some  == [p \in Pages |-> IF p = first THEN 1 ELSE IF p \in setup.drafts THEN 2 ELSE 0]
        start == [NoPoint EXCEPT !.page = some, !.live[first] = 1, !.latest = some, !.file = 3]
    IN
    /\ setup \in Setups
    /\ left = setup.calls
    /\ faults = 0 /\ crashes = 0 /\ version = 3
    /\ site = [page |-> some, live |-> start.live, latest |-> some, props |-> 0, hidden |-> {},
               stage |-> IF setup.frozen THEN "frozen" ELSE "none",
               point |-> IF setup.frozen THEN 1 ELSE 0, from |-> 0,
               points |-> IF setup.frozen THEN [id \in {1} |-> start] ELSE <<>>]
    /\ control = [flag |-> IF setup.frozen THEN 1 ELSE 0, rules |-> 0,
                  token |-> [id |-> 0, left |-> 0],
                  protection |-> IF setup.frozen THEN {1} ELSE {}]
    /\ disk = [static |-> start.live, file |-> 3, prefix |-> 0, blocked |-> FALSE,
               versioned |-> setup.frozen, objects |-> IF setup.frozen THEN {1, 3} ELSE {},
               policy |-> [frozen |-> setup.frozen, hidden |-> {},
                           pinned |-> IF setup.frozen THEN start.live ELSE NoPages,
                           file |-> IF setup.frozen THEN 3 ELSE 0]]
    /\ job = [w \in Workers |-> Idle]
    /\ Gate!Init
    /\ rival = FALSE

-----------------------------------------------------------------------------
(* One access of call w.  Recovery and a restoration asked for over the     *)
(* socket use contexts of their own; other calls end with the browser, and  *)
(* may then fail although their statement was committed.                    *)

At(w, step) == job[w].step = step
Become(w, next) == job' = [job EXCEPT ![w] = next]
To(w, step) == [job[w] EXCEPT !.step = step]

(* The return of a handler, and the deferred calls it runs into.            *)
Quit(r) == [r EXCEPT !.step = IF r.kind \in Edits THEN "leave" ELSE "return"]

Detached(w) == w = Recovery \/ (job[w].kind = "restore" /\ setup.socket)
Fault == faults < setup.faults /\ faults' = faults + 1

(* Startup finishes a publication without a lease (finishFreezePublication  *)
(* as recoverFreezeCheckpoints calls it).  If an owner who did not wait for *)
(* it has the site at the same time, the publication may be finished twice, *)
(* the second time on a site that was frozen again; rival remembers that.   *)
Contended == job[Recovery].kind = "publish" /\ \E w \in Calls : holder[w] = "exclusive"
Watched == rival' = (rival \/ Contended')
Frame   == UNCHANGED <<setup, left, crashes, version, gate>> /\ Watched

Access(w, effect, next, failed) ==
    /\ \/ ~job[w].canceled /\ effect /\ Become(w, next) /\ UNCHANGED faults
       \/ job[w].canceled /\ Same /\ Become(w, failed) /\ UNCHANGED faults
       \/ Fault /\ Same /\ Become(w, failed)
       \/ Fault /\ ~Detached(w) /\ effect /\ Become(w, failed)
    /\ Frame

(* A file operation has no answer to lose.                                  *)
Touch(w, effect, next, failed) ==
    /\ \/ effect /\ Become(w, next) /\ UNCHANGED faults
       \/ Fault /\ Same /\ Become(w, failed)
    /\ Frame

Load(w, next) == Access(w, Same, next, Quit(job[w]))
Store(w, s, next) == Access(w, SetSite(s), next, Quit(job[w]))

-----------------------------------------------------------------------------
(* Calls and leases *)

Begun(w)  == {v \in Workers \ {w} : job[v].begun}
Guards(w) == {v \in Workers \ {w} : job[v].guard}

(* A restoration starts from a preview: the checkpoint and the contents its *)
(* owner has seen; a publication from the checkpoint its page named.        *)
Call(kind, p) ==
    [Idle EXCEPT !.kind = kind, !.step = IF kind = "restore" THEN "precheck" ELSE "admit",
                 !.id = site.point, !.begun = kind \in Exclusive,
                 !.seen = IF kind = "restore" /\ site.stage # "restoring" THEN <<Captured>> ELSE <<>>,
                 !.value = IF kind \in Edits THEN version + 1 ELSE 0,
                 !.todo = IF kind \in {"page", "import"} THEN <<p>> ELSE <<>>,
                 !.epoch = IF kind = "import" THEN epoch["site"] ELSE 0]

Start(w, kind, p) ==
    /\ job[w] = Idle /\ left[kind] > 0
    /\ kind \notin {"page", "import"} => p = CHOOSE q \in Pages : TRUE
    /\ kind = "restore" => site.stage \notin {"none", "publishing"}
    /\ kind \in Exclusive /\ setup.patient => job[Recovery] = Idle
    /\ left' = [left EXCEPT ![kind] = @ - 1]
    /\ version' = IF kind \in Edits THEN version + 1 ELSE version
    /\ Become(w, Call(kind, p))
    /\ UNCHANGED <<setup, faults, crashes, stores, gate>> /\ Watched

Busy == \E v \in Workers : holder[v] = "exclusive" \/ At(v, "turn")

(* An exclusive call queues for its turn; a restoration then cancels the    *)
(* imports of the site (CancelDomain), whether or not it was refused.       *)
Queue(w) ==
    /\ At(w, "admit") /\ job[w].kind \in Exclusive
    /\ job' = [v \in Workers |->
                 IF v = w THEN IF Busy THEN Quit(job[w]) ELSE To(w, "turn")
                 ELSE IF job[w].kind = "restore" /\ job[v].kind = "import"
                 THEN [job[v] EXCEPT !.canceled = TRUE]
                 ELSE job[v]]
    /\ UNCHANGED <<faults, stores>> /\ Frame

Granted(w) ==
    /\ At(w, "turn")
    /\ Gate!Grant(w, "exclusive", 0)
    /\ Become(w, To(w, CASE job[w].kind = "freeze"  -> "journal"
                         [] job[w].kind = "publish" -> "editable"
                         [] job[w].kind = "restore" -> "check"))
    /\ UNCHANGED <<setup, left, faults, crashes, version, stores>> /\ Watched

Abandon(w) ==
    /\ At(w, "turn") /\ ~Detached(w)
    /\ Fault /\ Become(w, Quit(job[w]))
    /\ UNCHANGED stores /\ Frame

(* Only an import insists on the generation it was asked for under.         *)
EveryTime(r) == 0
Expected(r)  == r.epoch
Stale(w) == Expected(job[w]) \notin {0, epoch["site"]}

Join(w) ==
    /\ At(w, "admit") /\ job[w].kind \in Edits
    /\ IF Busy \/ Stale(w) \/ job[w].canceled
       THEN Become(w, Quit(job[w])) /\ UNCHANGED gate
       ELSE /\ Gate!Grant(w, "shared", Expected(job[w]))
            /\ Become(w, [To(w, "editable") EXCEPT !.begun = job[w].kind = "import"])
    /\ UNCHANGED <<setup, left, faults, crashes, version, stores>> /\ Watched

(* The lease goes back; only a completed restoration opens a generation.    *)
Ended(w) == IF w = Recovery THEN [Idle EXCEPT !.step = "refresh"] ELSE Idle

Return(w) ==
    /\ At(w, "return")
    /\ IF holder[w] = "none" THEN UNCHANGED gate
       ELSE IF job[w].kind = "restore" /\ job[w].done THEN Gate!Advance(w)
       ELSE Gate!Return(w)
    /\ Become(w, IF job[w].kind \in Edits THEN Ended(w) ELSE To(w, "leave"))
    /\ UNCHANGED <<setup, left, faults, crashes, version, stores>> /\ Watched

(* The end of a publication: the last one rewrites the public policy; a     *)
(* policy that cannot be written stays, with its barrier.                   *)
PublishPolicy == \/ WritePolicy /\ UNCHANGED faults
                 \/ Fault /\ Same

Leave(w) ==
    /\ At(w, "leave")
    /\ IF job[w].begun /\ Guards(w) = {} /\ (Begun(w) = {} \/ job[w].guard)
       THEN PublishPolicy ELSE Same /\ UNCHANGED faults
    /\ Become(w, IF job[w].kind \in Edits
                 THEN [To(w, "return") EXCEPT !.begun = FALSE, !.guard = FALSE] ELSE Ended(w))
    /\ Frame

-----------------------------------------------------------------------------
(* Editing behind the checkpoint *)

FirstStep(kind) ==
    CASE kind \in {"page", "import"}   -> "read_flag"
      [] kind \in {"upload", "delete"} -> "retain_old"
      [] kind \in {"link", "revoke"}   -> "token"
      [] kind = "redirect"             -> "redirect"
      [] kind = "password"             -> "rules"

(* freezeWorkspaceEditable, and for a publication the checkpoint it named.  *)
Editable(w) ==
    /\ At(w, "editable")
    /\ LET r == job[w] IN
       Load(w, IF Unsettled THEN Quit(r)
               ELSE IF r.kind = "publish"
               THEN IF r.id = site.point THEN To(w, "candidates") ELSE Quit(r)
               ELSE To(w, IF r.kind = "import" THEN FirstStep(r.kind) ELSE "begin"))

(* The middleware of a mutation; settings and files close the barrier.      *)
Begin(w) ==
    /\ At(w, "begin")
    /\ LET next == [To(w, FirstStep(job[w].kind)) EXCEPT !.begun = TRUE] IN
       IF job[w].kind \in {"page", "redirect"}
       THEN Become(w, next) /\ UNCHANGED <<faults, stores>> /\ Frame
       ELSE Touch(w, SetDisk([disk EXCEPT !.blocked = TRUE]),
                  [next EXCEPT !.guard = TRUE], Quit(job[w]))

(* persistPageSave: the flag, then one transaction that ends with the file  *)
(* guests are given, which is put back when the transaction fails.          *)
ReadFlag(w) ==
    /\ At(w, "read_flag")
    /\ Load(w, [To(w, IF control.flag = 1 THEN "commit" ELSE "static")
                EXCEPT !.flag = control.flag])

Target(w) == Head(job[w].todo)

WriteStatic(w) ==
    /\ At(w, "static")
    /\ Touch(w, SetDisk([disk EXCEPT !.static[Target(w)] = job[w].value]),
             [To(w, "commit") EXCEPT !.old = disk.static[Target(w)]], Quit(job[w]))

RolledBack(w) == IF job[w].flag = 1 THEN disk
                 ELSE [disk EXCEPT !.static[Target(w)] = job[w].old]

Commit(w, s, next) ==
    /\ \/ ~job[w].canceled /\ SetSite(s) /\ Become(w, next) /\ UNCHANGED faults
       \/ /\ IF job[w].canceled THEN UNCHANGED faults ELSE Fault
          /\ SetDisk(RolledBack(w)) /\ Become(w, Quit(job[w]))
       \/ Fault /\ ~Detached(w) /\ SetSite(s) /\ Become(w, Quit(job[w]))
    /\ Frame

CommitSave(w) ==
    /\ At(w, "commit") /\ job[w].kind \in Edits
    /\ LET p == Target(w)
           v == job[w].value
       IN Commit(w, [site EXCEPT !.page[p] = v, !.latest[p] = v, !.hidden = @ \ {p},
                                 !.live = IF job[w].flag = 1 THEN @ ELSE [@ EXCEPT ![p] = v]],
                 Quit(job[w]))

(* writeFileInsideStorage, removeInsideStorage and upsertFileMetadata.      *)
RetainOld(w) ==
    /\ At(w, "retain_old")
    /\ Touch(w, SetDisk([disk EXCEPT !.objects =
                            IF disk.versioned /\ disk.file # 0 THEN @ \cup {disk.file} ELSE @]),
             To(w, "replace"), Quit(job[w]))

Replace(w) ==
    /\ At(w, "replace")
    /\ IF job[w].kind = "delete"
       THEN Touch(w, SetDisk([disk EXCEPT !.file = 0]), Quit(job[w]), Quit(job[w]))
       ELSE Touch(w, SetDisk([disk EXCEPT !.file = job[w].value]), To(w, "unhide"), Quit(job[w]))

Unhide(w) ==
    /\ At(w, "unhide")
    /\ Store(w, [site EXCEPT !.hidden = @ \ {"file"}], Quit(job[w]))

Redirect(w) ==
    /\ At(w, "redirect")
    /\ Store(w, [site EXCEPT !.props = job[w].value], Quit(job[w]))

SetRules(w) ==
    /\ At(w, "rules")
    /\ Access(w, SetControl([control EXCEPT !.rules = job[w].value]),
              To(w, "read_rules"), Quit(job[w]))

ReadRules(w) ==
    /\ At(w, "read_rules")
    /\ Load(w, [To(w, "prefix") EXCEPT !.old = control.rules])

WritePrefix(w) ==
    /\ At(w, "prefix")
    /\ Touch(w, SetDisk([disk EXCEPT !.prefix = job[w].old]), Quit(job[w]), Quit(job[w]))

SetToken(w) ==
    /\ At(w, "token")
    /\ LET token == IF job[w].kind = "revoke" THEN [id |-> 0, left |-> 0]
                    ELSE [id |-> job[w].value, left |-> 1]
       IN Access(w, SetControl([control EXCEPT !.token = token]), Quit(job[w]), Quit(job[w]))

(* A visitor downloads with a one-use link, under no lease.                 *)
Consume ==
    /\ control.token.left > 0
    /\ SetControl([control EXCEPT !.token.left = @ - 1])
    /\ UNCHANGED <<faults, job>> /\ Frame

-----------------------------------------------------------------------------
(* Freezing: createFreezeCheckpoint *)

FileContents(r) == SetToSeq({r.file} \ {0})
Contents(r) == SetToSeq(({r.file} \cup {r.live[p] : p \in Pages}) \ {0})

LoadJournal(w) ==
    /\ At(w, "journal")
    /\ Load(w, IF site.stage \in {"publishing", "restoring"} THEN Quit(job[w])
               ELSE IF site.stage # "none"
               THEN [To(w, "protect") EXCEPT !.flag = 1, !.id = site.point]
               ELSE IF control.flag = 1 THEN Quit(job[w])
               ELSE To(w, "capture"))

(* From now on replaced files are retained, too (ensureSiteVersionDirectory)*)
Capture(w) ==
    /\ At(w, "capture")
    /\ Access(w, SetDisk([disk EXCEPT !.versioned = TRUE]),
              [To(w, "retain") EXCEPT !.taken = Captured, !.todo = Contents(Captured)],
              Quit(job[w]))

Retain(w) ==
    /\ At(w, "retain")
    /\ IF job[w].todo = <<>>
       THEN Become(w, To(w, "shield")) /\ UNCHANGED <<faults, stores>> /\ Frame
       ELSE Touch(w, SetDisk([disk EXCEPT !.objects = @ \cup {Target(w)}]),
                  [job[w] EXCEPT !.todo = Tail(@)], Quit(job[w]))

(* saveFreezeCheckpoint: the protection first, in the control database.     *)
Shield(w) ==
    /\ At(w, "shield")
    /\ LET id == Cardinality(control.protection) + 1 IN
       Access(w, SetControl([control EXCEPT !.protection = @ \cup {id}]),
              [To(w, "save") EXCEPT !.value = id], Quit(job[w]))

With(points, id, point) ==
    [x \in DOMAIN points \cup {id} |-> IF x = id THEN point ELSE points[x]]
Saved(w) == [site EXCEPT !.points = With(@, job[w].value, job[w].taken)]

Save(w) ==
    /\ At(w, "save")
    /\ IF job[w].kind = "freeze"
       THEN Store(w, [Saved(w) EXCEPT !.stage = "preparing", !.point = job[w].value],
                  [To(w, "protect") EXCEPT !.flag = 1, !.id = job[w].value])
       ELSE Store(w, Saved(w), To(w, "restoring"))

(* setDomainFrozenState: behind a barrier, which the new policy lifts.      *)
Protect(w) ==
    /\ At(w, "protect")
    /\ Touch(w, SetDisk([disk EXCEPT !.blocked = TRUE]),
             [To(w, "flag") EXCEPT !.guard = TRUE], Quit(job[w]))

SetFlag(w) ==
    /\ At(w, "flag")
    /\ Access(w, SetControl([control EXCEPT !.flag = job[w].flag]),
              To(w, "open"), [To(w, "open") EXCEPT !.broken = TRUE])

Open(w) ==
    /\ At(w, "open")
    /\ LET stop  == Quit([job[w] EXCEPT !.guard = FALSE])
           after == IF job[w].id = 0 THEN stop
                    ELSE [To(w, IF job[w].kind = "freeze" THEN "activate" ELSE "finish")
                          EXCEPT !.guard = FALSE]
       IN \/ /\ IF Guards(w) = {} THEN WritePolicy ELSE Same
             /\ Become(w, IF job[w].broken THEN stop ELSE after) /\ UNCHANGED faults
          \/ Guards(w) = {} /\ Fault /\ Same /\ Become(w, stop)
    /\ Frame

Activate(w) ==
    /\ At(w, "activate")
    /\ Store(w, Activated(job[w].id, "frozen"), Quit(job[w]))

(* The end of a publication or of a restoration.                            *)
Finish(w) ==
    /\ At(w, "finish")
    /\ Store(w, Finished, [Quit(job[w]) EXCEPT !.done = TRUE])

-----------------------------------------------------------------------------
(* Publishing: publishDomain, publishPageCandidate, finishFreezePublication *)

NextOrFinish(r) ==
    IF r.todo = <<>> THEN [r EXCEPT !.step = "finish"]
    ELSE [r EXCEPT !.step = "static", !.value = site.page[Head(r.todo)]]
NextCandidate(r) ==
    IF r.todo = <<>> THEN [r EXCEPT !.step = "publishing"]
    ELSE [r EXCEPT !.step = "static", !.value = site.page[Head(r.todo)]]

Candidates(w) ==
    /\ At(w, "candidates")
    /\ Load(w, NextCandidate([job[w] EXCEPT !.todo =
               SetToSeq({p \in Pages : site.page[p] \notin {0, site.live[p]}})]))

CommitPublication(w) ==
    /\ At(w, "commit") /\ job[w].kind = "publish"
    /\ Commit(w, [site EXCEPT !.live[Target(w)] = job[w].value],
              NextCandidate([job[w] EXCEPT !.todo = Tail(@)]))

(* A site without a checkpoint has no journal to finish.                    *)
Publishing(w) ==
    /\ At(w, "publishing")
    /\ Load(w, IF site.stage = "none" THEN [To(w, "protect") EXCEPT !.id = 0]
               ELSE [To(w, "mark") EXCEPT !.id = site.point])

MarkPublishing(w) ==
    /\ At(w, "mark")
    /\ Store(w, Activated(job[w].id, "publishing"), To(w, "protect"))

-----------------------------------------------------------------------------
(* Discarding the edits: restoreFreezeCheckpoint *)

Precheck(w) ==
    /\ At(w, "precheck")
    /\ Load(w, IF site.stage \in {"none", "publishing"} \/ site.point # job[w].id
               THEN Quit(job[w]) ELSE To(w, "admit"))

(* Everything the restoration puts back into files.                         *)
FilesAndPages(point) ==
    (IF point.file = 0 THEN <<>> ELSE <<"file">>)
        \o SetToSeq({p \in Pages : point.live[p] # 0})
Restoring(r) == [r EXCEPT !.step = "files", !.todo = FilesAndPages(site.points[r.id])]

Check(w) ==
    /\ At(w, "check")
    /\ Load(w, IF site.stage \in {"none", "publishing"} \/ site.point # job[w].id
               THEN Quit(job[w])
               ELSE IF site.stage = "restoring"
               THEN Restoring([job[w] EXCEPT !.taken = site.points[site.from]])
               ELSE To(w, "compare"))

SomePreview(r) == r.seen # <<>>
AsPreviewed(r) == r.seen = <<Captured>>

Compare(w) ==
    /\ At(w, "compare")
    /\ Load(w, IF AsPreviewed(job[w])
               THEN [To(w, "retain") EXCEPT !.taken = Captured,
                        !.todo = FileContents(Captured)]
               ELSE Quit(job[w]))

BeginRestoring(w) ==
    /\ At(w, "restoring")
    /\ Store(w, [Activated(job[w].id, "restoring") EXCEPT !.from = job[w].value],
             Restoring(job[w]))

RestoreFiles(w) ==
    /\ At(w, "files")
    /\ IF job[w].todo = <<>>
       THEN Become(w, To(w, "props")) /\ UNCHANGED <<faults, stores>> /\ Frame
       ELSE LET t == Target(w)
                v == IF t = "file" THEN Base(w).file ELSE Base(w).live[t]
            IN IF v \in disk.objects
               THEN Touch(w, SetDisk(IF t = "file" THEN [disk EXCEPT !.file = v]
                                     ELSE [disk EXCEPT !.static[t] = v]),
                          [job[w] EXCEPT !.todo = Tail(@)], Quit(job[w]))
               ELSE Become(w, Quit(job[w])) /\ UNCHANGED <<faults, stores>> /\ Frame

RestoreProperties(w) ==
    /\ At(w, "props")
    /\ Store(w, [site EXCEPT !.props = Base(w).props], To(w, "views"))

(* RestoreMaterializedViews: what was made since the checkpoint is hidden,  *)
(* what guests had is not.                                                  *)
NewlyPublished(point, taken) ==
    {p \in Pages : \/ point.page[p] = 0 /\ (taken.page[p] # 0 \/ taken.live[p] # 0)
                   \/ point.live[p] = 0 /\ taken.live[p] # 0}
NewPages(point, taken) ==
    {p \in Pages : \/ point.page[p] = 0 /\ (taken.page[p] # 0 \/ taken.live[p] # 0)
                   \/ point.live[p] = 0 /\ (taken.live[p] # 0 \/ taken.latest[p] # point.latest[p])}
Kept(point) == {p \in Pages : point.live[p] # 0} \cup (IF point.file = 0 THEN {} ELSE {"file"})
NewFile(point, taken) == IF taken.file # 0 /\ point.file = 0 THEN {"file"} ELSE {}

RestoreViews(w) ==
    /\ At(w, "views")
    /\ LET taken == job[w].taken IN
       Store(w, [site EXCEPT !.page = Base(w).page, !.live = Base(w).live,
                    !.hidden = ((@ \cup NewPages(Base(w), taken)) \ Kept(Base(w)))
                                   \cup NewFile(Base(w), taken)],
             To(w, "restore_rules"))

(* A one-use link keeps what is left of it; another one is not revived.     *)
PointToken(point) == [id |-> point.token, left |-> 1]
LiveToken(point) == IF control.token.id = point.token THEN control.token ELSE [id |-> 0, left |-> 0]

RestoreRules(w) ==
    /\ At(w, "restore_rules")
    /\ Access(w, SetControl([control EXCEPT !.rules = Base(w).rules, !.token = LiveToken(Base(w))]),
              To(w, "restore_prefix"), Quit(job[w]))

RestorePrefix(w) ==
    /\ At(w, "restore_prefix")
    /\ Touch(w, SetDisk([disk EXCEPT !.prefix = Base(w).rules]),
             [To(w, "protect") EXCEPT !.flag = 0], Quit(job[w]))

-----------------------------------------------------------------------------
(* Startup *)

ResumedIfDeep ==
    CASE site.stage = "restoring"  -> [Idle EXCEPT !.kind = "restore", !.step = "precheck",
                                                   !.id = site.point, !.begun = TRUE]
      [] site.stage = "publishing" -> [Idle EXCEPT !.kind = "publish", !.step = "publishing"]
      [] OTHER                     -> [Idle EXCEPT !.step = "refresh"]

Resumed ==
    CASE site.stage = "restoring"  -> [Idle EXCEPT !.kind = "restore", !.step = "precheck",
                                                   !.id = site.point, !.begun = TRUE]
      [] site.stage = "publishing" -> [Idle EXCEPT !.kind = "publish", !.step = "publishing"]
      [] site.stage = "preparing"  -> [Idle EXCEPT !.kind = "freeze", !.step = "admit"]
      [] OTHER                     -> [Idle EXCEPT !.step = "refresh"]

(* recoverFreezeCheckpoints makes one attempt; requests are served already. *)
Scan ==
    /\ At(Recovery, "scan")
    /\ Access(Recovery, Same, Resumed, [Idle EXCEPT !.step = "refresh"])

Refresh ==
    /\ At(Recovery, "refresh")
    /\ IF Begun(Recovery) = {} /\ Guards(Recovery) = {}
       THEN PublishPolicy ELSE Same /\ UNCHANGED faults
    /\ Become(Recovery, Idle)
    /\ Frame

(* The process dies, and starts again.                                      *)
Crash ==
    /\ crashes < setup.crashes /\ crashes' = crashes + 1
    /\ job' = [w \in Workers |-> IF w = Recovery THEN [Idle EXCEPT !.step = "scan"] ELSE Idle]
    /\ holder' = [w \in Workers |-> "none"]
    /\ ticket' = [w \in Workers |-> 0]
    /\ epoch' = [d \in {"site"} |-> 1]
    /\ UNCHANGED <<setup, left, faults, version, stores>> /\ Watched

-----------------------------------------------------------------------------

Serving(w) ==
    \/ Queue(w) \/ Granted(w) \/ Abandon(w) \/ Join(w) \/ Return(w) \/ Leave(w)
    \/ Editable(w) \/ Begin(w) \/ ReadFlag(w) \/ WriteStatic(w) \/ CommitSave(w)
    \/ RetainOld(w) \/ Replace(w) \/ Unhide(w) \/ Redirect(w)
    \/ SetRules(w) \/ ReadRules(w) \/ WritePrefix(w) \/ SetToken(w)

Freezing(w) ==
    \/ LoadJournal(w) \/ Capture(w) \/ Retain(w) \/ Shield(w) \/ Save(w)
    \/ Protect(w) \/ SetFlag(w) \/ Open(w) \/ Activate(w) \/ Finish(w)
    \/ Candidates(w) \/ CommitPublication(w) \/ Publishing(w) \/ MarkPublishing(w)

Discarding(w) ==
    \/ Precheck(w) \/ Check(w) \/ Compare(w) \/ BeginRestoring(w) \/ RestoreFiles(w)
    \/ RestoreProperties(w) \/ RestoreViews(w) \/ RestoreRules(w) \/ RestorePrefix(w)

JobStep(w) == Serving(w) \/ Freezing(w) \/ Discarding(w)
Startup    == Scan \/ Refresh

Next ==
    \/ \E w \in Calls, kind \in DOMAIN left, p \in Pages : Start(w, kind, p)
    \/ \E w \in Workers : JobStep(w)
    \/ Startup
    \/ Consume
    \/ Crash

Spec == Init /\ [][Next]_vars

(* Handlers, the workers of imports and the startup goroutine all run on.   *)
FairSpec == Spec /\ WF_vars(Startup) /\ \A w \in Workers : WF_vars(JobStep(w))

-----------------------------------------------------------------------------
(* Properties *)

PointOK(point) == point \in [page : [Pages -> Nat], live : [Pages -> Nat], latest : [Pages -> Nat],
                             props : Nat, file : Nat, rules : Nat, token : Nat]

(* The stores and calls hold what the code can put into them (all modules   *)
(* of sitebrush.go named above).                                            *)
TypeOK ==
    /\ site.stage \in {"none", "preparing", "frozen", "restoring", "publishing"}
    /\ site.stage # "none" => site.point \in DOMAIN site.points
    /\ site.stage = "restoring" => site.from \in DOMAIN site.points
    /\ \A id \in DOMAIN site.points : PointOK(site.points[id])
    /\ PointOK(Captured) /\ site.hidden \subseteq Pages \cup {"file"}
    /\ control.flag \in 0..1 /\ control.token.left \in 0..1
    /\ disk.static \in [Pages -> 0..version] /\ disk.objects \subseteq 1..version
    /\ \A w \in Workers : /\ holder[w] # "none" => job[w].step # "idle"
                          /\ job[w].guard => job[w].begun \/ w = Recovery

(* The four properties about guests, edits and the flag are excused by rival*)
(* (see Contended): when startup finishes a publication beside an owner who *)
(* did not wait for it, the code keeps none of them.                        *)

(* A restoration that ends has put everything back as the checkpoint has it,*)
(* in all three stores, however often it was interrupted: pages, publication*)
(* and the files guests are given, properties, content passwords with the   *)
(* file they are enforced from; and what was made or published since is     *)
(* hidden.  Guests are unpinned only when every file of their publication is*)
(* back (restoreFreezeCheckpoint, README.md "Reversible site freezing").    *)
PutBack ==
    /\ site.page = Point.page /\ site.live = Point.live /\ site.props = Point.props
    /\ control.rules = Point.rules /\ disk.prefix = Point.rules /\ control.flag = 0
    /\ IF Point.file = 0 THEN disk.file = 0 \/ "file" \in site.hidden
       ELSE disk.file = Point.file /\ "file" \notin site.hidden
    /\ \A p \in Pages : IF Point.live[p] # 0
                         THEN disk.static[p] = Point.live[p] /\ p \notin site.hidden
                         ELSE site.latest[p] # Point.latest[p] => p \in site.hidden
FilesBack == \A p \in Pages : Point.live[p] # 0 => disk.static[p] = Point.live[p]
Pinned    == control.flag = 1 /\ site.stage \in {"frozen", "restoring"}
RestoredIsCheckpoint ==
    [][\/ rival'
       \/ /\ (site.stage = "restoring" /\ site'.stage = "none") => PutBack
          /\ (Pinned /\ control'.flag = 0) => FilesBack]_vars

(* While a site is frozen guests get the publication of its checkpoint or a *)
(* closed barrier: never an edit, nor what a failed publication already     *)
(* wrote (setDomainFrozenState, writePublicPolicy, startPublicPublication). *)
GuestsKeepPublished ==
    Pinned /\ ~rival => \A p \in Pages : Guest(p) \in {0, Point.live[p]}

(* A restoration never publishes a draft that existed before freezing       *)
(* (README.md:549, "or publishing drafts that already existed before        *)
(* freezing").  The code removes no file of the published tree: what a      *)
(* publication wrote before the process died in its transaction is served   *)
(* when guests are no longer pinned (restoreFreezeCheckpoint).              *)
DraftsStayUnpublished ==
    site.stage = "restoring" => \A p \in Pages : Point.live[p] = 0 => Guest(p) = 0

(* The stores are well formed, and a checkpoint never refers to content or  *)
(* protection that is not there: the journal, the control database and the  *)
(* object files commit separately (createFreezeCheckpoint, saveFreeze-      *)
(* Checkpoint, retainAssetVersion).                                         *)
ReferencedObjectsExist ==
    /\ TypeOK
    /\ DOMAIN site.points \subseteq control.protection
    /\ \A id \in DOMAIN site.points : site.points[id].file \in disk.objects \cup {0}
    /\ site.stage # "none" => \A p \in Pages : Point.live[p] \in disk.objects \cup {0}

(* The flag that pins guests is never set without a journal entry that tells*)
(* how to go back, across the two databases and every crash                 *)
(* (createFreezeCheckpoint, finishFreezePublication).                       *)
FrozenHasCheckpoint == control.flag = 1 /\ ~rival => site.stage # "none"

(* Edits are discarded only when the site is just what the owner previewed: *)
(* work that arrives between the preview, the wait for editors and the      *)
(* journal entry stops the restoration (sitefreeze.Compare).                *)
NothingUnseenDiscarded ==
    [][\A w \in Calls :
          (site.stage # "restoring" /\ site'.stage = "restoring" /\ job'[w] # job[w])
              => job[w].seen = <<Captured>>]_vars

(* A one-use link that was consumed, revoked or replaced is never usable    *)
(* again, whatever is restored beside its visitors                          *)
(* (restoreCheckpointProperties).                                           *)
TokensNotRevived ==
    [][\/ control'.token.id = control.token.id /\ control'.token.left <= control.token.left
       \/ control'.token = [id |-> 0, left |-> 0]
       \/ \E w \in Calls : job[w].kind = "link" /\ control'.token.id = job[w].value]_vars

(* An edit reaches the site only between the steps of the journal, publishes*)
(* only while guests are not pinned, and an import that is older than a     *)
(* completed restoration writes nothing (freezeWorkspaceEditable, Enter with*)
(* the generation of a task).                                               *)
Edited == <<site, control, disk.file, disk.static, disk.prefix>>
EditsKeepOut ==
    [][\A w \in Calls : (job[w].kind \in Edits /\ job'[w] # job[w] /\ Edited' # Edited) =>
          \/ rival'
          \/ /\ ~Unsettled
             /\ (site'.live # site.live) => control.flag = 0
             /\ (job[w].kind = "import") => job[w].epoch = epoch["site"]]_vars

(* What a crash left between two stages of the journal is finished, if every*)
(* access succeeds and no exclusive call competes with recovery for the     *)
(* gate (recoverFreezeCheckpoints).                                         *)
JournalSettles ==
    (setup.faults = 0 /\ setup.patient /\ Unsettled) ~> ~Unsettled
=============================================================================
