--------------------------- MODULE SiteFreezeProofs ---------------------------
(* The journal, the flag that pins guests and the leases of SiteFreeze, for *)
(* every set of pages and callers, and any number of calls, failures and    *)
(* crashes.                                                                 *)
EXTENDS SiteFreeze, FiniteSetTheorems, SequenceTheorems, TLAPS

JobFields     == {"kind", "step", "id", "seen", "taken", "todo", "flag", "value", "old", "begun",
                  "guard", "epoch", "canceled", "broken", "done"}
SiteFields    == {"page", "live", "latest", "props", "hidden", "stage", "point", "from", "points"}
ControlFields == {"flag", "rules", "token", "protection"}

(* Where a call has no business with the stores, or with the policy only.   *)
Outside      == {"idle", "scan", "refresh", "precheck", "admit", "turn", "return", "leave"}
FreezeSteps  == {"journal", "capture", "retain", "shield", "save", "protect", "flag", "open",
                 "activate"}
PublishSteps == {"editable", "candidates", "static", "commit", "publishing", "mark", "protect",
                 "flag", "open", "finish"}
RestoreSteps == {"check", "compare", "retain", "shield", "save", "restoring", "files", "props",
                 "views", "restore_rules", "restore_prefix", "protect", "flag", "open", "finish"}
Changing     == {"begin", "read_flag", "static", "commit", "retain_old", "replace", "unhide",
                 "redirect", "rules", "read_rules", "prefix", "token"}
EditSteps    == Changing \cup {"editable"}
Finishing    == {"publishing", "mark", "protect", "flag", "open", "finish", "return", "leave"}

(* What each kind of call may be doing.                                     *)
Placed(r) ==
    /\ DOMAIN r = JobFields /\ r.flag \in {0, 1}
    /\ \/ r.step \in Outside
       \/ r.kind = "freeze" /\ r.step \in FreezeSteps
       \/ r.kind = "publish" /\ r.step \in PublishSteps
       \/ r.kind = "restore" /\ r.step \in RestoreSteps
       \/ r.kind \in Edits /\ r.step \in EditSteps
    /\ r.step = "turn" => r.kind \in Exclusive
    /\ r.kind = "import" => r.epoch \in Nat \ {0}
    /\ r.kind = "publish" => r.flag = 0
    /\ r.step = "token" => r.kind \in {"link", "revoke"}

(* The lease under which it does so; startup publishes without one.         *)
Leased(w, r) ==
    /\ r.kind \in Exclusive /\ r.step \notin Outside
          => holder[w] = "exclusive" \/ (w = Recovery /\ r.kind = "publish")
    /\ r.kind \in Edits /\ r.step \notin Outside
          => holder[w] = "shared" /\ (r.kind = "import" => r.epoch = epoch["site"])
    /\ w = Recovery /\ r.kind = "publish" => r.step \in Finishing
    /\ w = Recovery => r.kind \notin Edits

(* The stage of the journal and the flag it may rely on.                    *)
Unsettling == {"preparing", "restoring", "publishing"}
InStage(w, r, stage, flag) ==
    /\ w = Recovery /\ r.kind = "publish" /\ r.step \notin Outside => stage = "publishing"
    /\ r.kind = "freeze" /\ r.step \in {"protect", "flag", "open", "activate"} => stage # "none"
    /\ r.kind = "restore" /\ r.step \in {"protect", "flag"} => r.flag = 0
    /\ r.kind \in {"publish", "restore"} /\ (r.step = "finish" \/ (r.step = "open" /\ ~r.broken))
          => flag = 0
    /\ r.kind \in Edits /\ r.step \in Changing =>
          stage \notin Unsettling /\ (r.step \in {"static", "commit"} => r.flag = flag)

Shape ==
    /\ DOMAIN job = Workers /\ DOMAIN holder = Workers /\ DOMAIN ticket = Workers
    /\ DOMAIN epoch = {"site"} /\ epoch["site"] \in Nat \ {0}
    /\ DOMAIN site = SiteFields /\ DOMAIN control = ControlFields /\ control.flag \in {0, 1}
    /\ rival \in BOOLEAN

Alone  == \A w \in Workers : holder[w] = "exclusive" => \A v \in Workers \ {w} : holder[v] = "none"
Pinning(stage, flag) == flag = 1 => stage # "none"

IInv ==
    /\ Shape /\ Alone /\ (Contended => rival)
    /\ \A w \in Workers : Placed(job[w]) /\ Leased(w, job[w])
    /\ ~rival => /\ Pinning(site.stage, control.flag)
                 /\ \A w \in Workers : InStage(w, job[w], site.stage, control.flag)

-----------------------------------------------------------------------------
(* The steps of one worker *)

Moved(w, r) == job' = [job EXCEPT ![w] = r] /\ UNCHANGED gate /\ Watched
StoresOK    == DOMAIN site = SiteFields /\ DOMAIN control = ControlFields /\ control.flag \in {0, 1}
Like(w, r)  ==
    /\ DOMAIN r = JobFields /\ r.kind = job[w].kind /\ r.epoch = job[w].epoch
    /\ w = Recovery /\ r.kind = "publish" => r.step \in Finishing
Fits(w, r)  == InStage(w, r, site'.stage, control'.flag)
Settled     == site'.stage = site.stage /\ control'.flag = control.flag

(* The ghost remembers, and the race it names is over with it.              *)
LEMMA Remembered ==
    ASSUME IInv, Watched
    PROVE  /\ rival' \in BOOLEAN /\ (Contended' => rival')
           /\ ~rival' => ~rival /\ ~Contended
BY DEF IInv, Shape, Watched

(* Outside the stores nothing is asked of the journal.                      *)
LEMMA OutsideFits ==
    ASSUME NEW w, NEW r, r.step \in Outside, NEW stage, NEW flag
    PROVE  InStage(w, r, stage, flag)
BY DEF Outside, InStage, Changing

(* A worker moves on while the gate stays as it is.                         *)
LEMMA Steady ==
    ASSUME IInv, NEW w \in Workers, NEW r, Moved(w, r), Placed(r), Leased(w, r), StoresOK',
           ~rival' => /\ Pinning(site'.stage, control'.flag) /\ Fits(w, r)
                      /\ \A v \in Workers \ {w} : Fits(v, job[v])
    PROVE  IInv'
<1>1. Shape' BY Remembered DEF IInv, Shape, StoresOK, Moved, gate
<1>2. Alone' BY DEF IInv, Alone, Moved, gate
<1>3. \A v \in Workers : job'[v] = IF v = w THEN r ELSE job[v] BY DEF IInv, Shape, Moved
<1>4. \A v \in Workers : Placed(job'[v]) BY <1>3 DEF IInv
<1>5. \A v \in Workers : Leased(v, job'[v]) BY <1>3 DEF IInv
<1>6. ~rival' => \A v \in Workers : InStage(v, job'[v], site'.stage, control'.flag)
  BY <1>3 DEF Fits
<1>7. (\A v \in Workers : Leased(v, job[v]))' BY <1>5 DEF Leased, Moved, gate
<1> QED BY <1>1, <1>2, <1>4, <1>6, <1>7, Remembered DEF IInv, Moved

(* What a worker with a lease does keeps the lease.                         *)
LEMMA LeaseKept ==
    ASSUME IInv, NEW w \in Workers, job[w].step \notin Outside, NEW r, Like(w, r)
    PROVE  Leased(w, r)
BY DEF IInv, Leased, Like

(* Whoever may change the journal is alone with it.                         *)
LEMMA Undisturbed ==
    ASSUME IInv, ~rival, ~Contended, NEW w \in Workers,
           job[w].kind \in Exclusive, job[w].step \notin Outside,
           NEW v \in Workers \ {w}, NEW stage, NEW flag
    PROVE  InStage(v, job[v], stage, flag)
<1>1. CASE job[v].step \in Outside BY <1>1, OutsideFits
<1>2. CASE job[v].step \notin Outside /\ job[v].kind \in Exclusive
  <2>1. v # Recovery => v \in Calls /\ holder[v] = "exclusive"
    BY <1>2 DEF IInv, Leased, Workers
  <2>2. w # Recovery => w \in Calls /\ holder[w] = "exclusive" BY DEF IInv, Leased, Workers
  <2>3. v = Recovery => holder[v] = "exclusive" BY <1>2, <2>2 DEF IInv, Leased, Contended
  <2>4. w = Recovery => holder[w] = "exclusive" BY <1>2, <2>1 DEF IInv, Leased, Contended
  <2> QED BY <2>1, <2>2, <2>3, <2>4 DEF IInv, Alone
<1>3. CASE job[v].step \notin Outside /\ job[v].kind \in Edits
  <2>1. holder[v] = "shared" BY <1>3 DEF IInv, Leased
  <2>2. holder[w] # "exclusive" BY <2>1 DEF IInv, Alone
  <2>3. w = Recovery /\ job[w].kind = "publish" BY <2>2 DEF IInv, Leased
  <2>4. site.stage = "publishing" BY <2>3 DEF IInv, InStage
  <2>5. job[v].step \notin Changing BY <1>3, <2>4 DEF IInv, InStage, Unsettling
  <2> QED BY <1>3, <2>5 DEF InStage, Exclusive, Edits
<1>4. job[v].step \in Outside \/ job[v].kind \in Exclusive \cup Edits
  BY DEF IInv, Placed, Exclusive
<1> QED BY <1>1, <1>2, <1>3, <1>4

(* A step of an exclusive call.                                             *)
LEMMA Owns ==
    ASSUME IInv, NEW w \in Workers, job[w].kind \in Exclusive, job[w].step \notin Outside,
           NEW r, Moved(w, r), Like(w, r), Placed(r), StoresOK',
           ~rival' => Pinning(site'.stage, control'.flag) /\ Fits(w, r)
    PROVE  IInv'
<1>1. ~rival' => \A v \in Workers \ {w} : Fits(v, job[v])
  BY Remembered, Undisturbed DEF Fits, Moved
<1> QED BY <1>1, Steady, LeaseKept

(* A step that leaves the journal and the flag alone.                       *)
LEMMA Works ==
    ASSUME IInv, NEW w \in Workers, NEW r, Moved(w, r), Placed(r), Leased(w, r),
           StoresOK', Settled, ~rival' => InStage(w, r, site.stage, control.flag)
    PROVE  IInv'
<1>1. ~rival' => Pinning(site'.stage, control'.flag) /\ Fits(w, r)
                 /\ \A v \in Workers \ {w} : Fits(v, job[v])
  BY Remembered DEF Moved, Settled, Fits, IInv
<1> QED BY <1>1, Steady

(* A handler returns from anywhere.                                         *)
LEMMA Quitting ==
    ASSUME IInv, NEW w \in Workers
    PROVE  /\ Like(w, Quit(job[w])) /\ Placed(Quit(job[w])) /\ Leased(w, Quit(job[w]))
           /\ Quit(job[w]).step \in Outside
<1>1. DOMAIN job[w] = JobFields /\ Placed(job[w]) /\ Leased(w, job[w]) BY DEF IInv, Placed
<1>2. Quit(job[w]).step \in {"leave", "return"} /\ DOMAIN Quit(job[w]) = JobFields
  BY <1>1 DEF Quit, JobFields
<1>3. \A f \in {"kind", "epoch", "flag"} : Quit(job[w])[f] = job[w][f]
  BY <1>1 DEF Quit, JobFields
<1>4. /\ Quit(job[w]).kind = job[w].kind /\ Quit(job[w]).epoch = job[w].epoch
      /\ Quit(job[w]).flag = job[w].flag
  BY <1>3
<1>5. Like(w, Quit(job[w])) BY <1>2, <1>4 DEF Like, Finishing
<1>6. Placed(Quit(job[w])) BY <1>1, <1>2, <1>4 DEF Placed, Outside
<1>7. Leased(w, Quit(job[w])) BY <1>1, <1>2, <1>4 DEF Leased, Outside, Finishing
<1> QED BY <1>2, <1>5, <1>6, <1>7 DEF Outside

(* A worker inside the stores goes on to r or gives up.                     *)
LEMMA Proceeds ==
    ASSUME IInv, NEW w \in Workers, job[w].step \notin Outside, StoresOK', Settled,
           NEW r, Moved(w, Quit(job[w])) \/ Moved(w, r),
           Like(w, r), Placed(r), ~rival => InStage(w, r, site.stage, control.flag)
    PROVE  IInv'
<1>1. ~rival' => ~rival BY Remembered DEF Moved
<1>2. CASE Moved(w, r) BY <1>1, <1>2, Works, LeaseKept
<1>3. CASE Moved(w, Quit(job[w])) BY <1>3, Works, Quitting, OutsideFits
<1> QED BY <1>2, <1>3

(* An exclusive call gives up, whatever its last access did.                *)
LEMMA OwnerStops ==
    ASSUME IInv, NEW w \in Workers, job[w].kind \in Exclusive, job[w].step \notin Outside,
           Moved(w, Quit(job[w])), StoresOK', ~rival => Pinning(site'.stage, control'.flag)
    PROVE  IInv'
<1>1. ~rival' => ~rival BY Remembered DEF Moved
<1>2. Fits(w, Quit(job[w])) BY Quitting, OutsideFits DEF Fits
<1> QED BY <1>1, <1>2, Owns, Quitting

(* The step a worker is at tells the kind of its call.                      *)
LEMMA Doing ==
    ASSUME IInv, NEW w \in Workers
    PROVE  LET k == job[w].kind
               s == job[w].step
           IN /\ s \in {"journal", "capture", "activate"} => k = "freeze"
              /\ s \in {"retain", "shield", "save"} => k \in {"freeze", "restore"}
              /\ s \in {"protect", "flag", "open"} => k \in Exclusive
              /\ s = "finish" => k \in {"publish", "restore"}
              /\ s \in {"candidates", "publishing", "mark"} => k = "publish"
              /\ s \in {"check", "compare", "restoring", "files", "props", "views",
                         "restore_rules", "restore_prefix"} => k = "restore"
              /\ s \in {"editable", "static", "commit"} => k \in Edits \cup {"publish"}
              /\ s \in Changing \ {"static", "commit"} => k \in Edits
<1>1. Placed(job[w]) BY DEF IInv
<1> QED BY <1>1 DEF Placed, Outside, FreezeSteps, PublishSteps, RestoreSteps, EditSteps,
                    Changing, Exclusive

(* What is known of a worker, and of the record it goes on with.            *)
LEMMA Known ==
    ASSUME IInv, NEW w \in Workers
    PROVE  /\ DOMAIN job[w] = JobFields /\ job[w].flag \in {0, 1}
           /\ job[w].kind = "publish" => job[w].flag = 0
           /\ job[w].kind = "import" => job[w].epoch \in Nat \ {0}
           /\ StoresOK
           /\ w = Recovery /\ job[w].kind = "publish" => job[w].step \in Finishing
           /\ w = Recovery => job[w].kind \notin Edits
BY DEF IInv, Placed, Shape, StoresOK, Leased

(* A record that only goes to another step keeps the rest.                  *)
LEMMA Going ==
    ASSUME IInv, NEW w \in Workers, NEW s
    PROVE  /\ DOMAIN To(w, s) = JobFields /\ To(w, s).step = s
           /\ To(w, s).kind = job[w].kind /\ To(w, s).epoch = job[w].epoch
           /\ To(w, s).flag = job[w].flag /\ To(w, s).id = job[w].id
           /\ To(w, s).broken = job[w].broken
BY Known DEF To, JobFields

(* The calls that take or finish a checkpoint.                              *)
LEMMA FreezingKeeps ==
    ASSUME IInv, NEW w \in Workers, Freezing(w)
    PROVE  IInv'
<1> DEFINE j == job[w]
           stay == UNCHANGED <<site, control>>
           either(r) == Moved(w, Quit(job[w])) \/ Moved(w, r)
<1>1. stay => StoresOK' /\ Settled BY Known DEF StoresOK, Settled
<1>2. CASE LoadJournal(w)
  <2> DEFINE r == IF site.stage # "none"
                  THEN [To(w, "protect") EXCEPT !.flag = 1, !.id = site.point]
                  ELSE To(w, "capture")
  <2>1. j.kind = "freeze" /\ j.step = "journal" BY <1>2, Doing DEF LoadJournal, At
  <2>2. stay /\ either(r)
    BY <1>2 DEF LoadJournal, Load, Access, Same, stores, Become, Frame, Moved, Quit
  <2>3. Like(w, r) /\ r.step \in {"protect", "capture"} /\ r.flag \in {0, 1}
        /\ (r.step = "protect" => site.stage # "none")
    BY <2>1, Going, Known DEF Like, JobFields
  <2>4. Placed(r) BY <2>1, <2>3 DEF Placed, Like, FreezeSteps
  <2>5. InStage(w, r, site.stage, control.flag) BY <2>1, <2>3 DEF InStage, Like, Edits
  <2> HIDE DEF r
  <2> QED BY <1>1, <2>1, <2>2, <2>3, <2>4, <2>5, Proceeds DEF Outside
<1>3. CASE Capture(w)
  <2> DEFINE r == [To(w, "retain") EXCEPT !.taken = Captured, !.todo = Contents(Captured)]
  <2>1. j.kind = "freeze" /\ j.step = "capture" BY <1>3, Doing DEF Capture, At
  <2>2. stay /\ either(r)
    BY <1>3 DEF Capture, Access, Same, SetDisk, stores, Become, Frame, Moved
  <2>3. Like(w, r) /\ r.step = "retain" /\ r.flag \in {0, 1}
    BY <2>1, Going, Known DEF Like, JobFields
  <2>4. Placed(r) BY <2>1, <2>3 DEF Placed, Like, FreezeSteps
  <2>5. InStage(w, r, site.stage, control.flag) BY <2>1, <2>3 DEF InStage, Like, Edits
  <2> HIDE DEF r
  <2> QED BY <1>1, <2>1, <2>2, <2>3, <2>4, <2>5, Proceeds DEF Outside
<1>4. CASE Retain(w)
  <2> DEFINE r == IF j.todo = <<>> THEN To(w, "shield") ELSE [j EXCEPT !.todo = Tail(@)]
  <2>1. j.kind \in {"freeze", "restore"} /\ j.step = "retain" BY <1>4, Doing DEF Retain, At
  <2>2. stay /\ either(r)
    BY <1>4 DEF Retain, Touch, Same, SetDisk, stores, Become, Frame, Moved
  <2>3. Like(w, r) /\ r.step \in {"retain", "shield"} /\ r.flag \in {0, 1}
    BY <2>1, Going, Known DEF Like, JobFields
  <2>4. Placed(r) BY <2>1, <2>3 DEF Placed, Like, FreezeSteps, RestoreSteps
  <2>5. InStage(w, r, site.stage, control.flag) BY <2>1, <2>3 DEF InStage, Like, Edits
  <2> HIDE DEF r
  <2> QED BY <1>1, <2>1, <2>2, <2>3, <2>4, <2>5, Proceeds DEF Outside
<1>5. CASE Shield(w)
  <2> DEFINE id == Cardinality(control.protection) + 1
             r == [To(w, "save") EXCEPT !.value = id]
             c == [control EXCEPT !.protection = @ \cup {id}]
  <2>1. j.kind \in {"freeze", "restore"} /\ j.step = "shield" BY <1>5, Doing DEF Shield, At
  <2>2. site' = site /\ control' \in {control, c} /\ either(r)
    BY <1>5 DEF Shield, Access, Same, SetControl, stores, Become, Frame, Moved
  <2>3. c.flag = control.flag /\ DOMAIN c = ControlFields BY Known DEF StoresOK, ControlFields
  <2>4. Like(w, r) /\ r.step = "save" /\ r.flag \in {0, 1}
    BY <2>1, Going, Known DEF Like, JobFields
  <2>5. Placed(r) BY <2>1, <2>4 DEF Placed, Like, FreezeSteps, RestoreSteps
  <2>6. InStage(w, r, site.stage, control.flag) BY <2>1, <2>4 DEF InStage, Like, Edits
  <2> HIDE DEF r, c
  <2>7. StoresOK' /\ Settled BY <2>2, <2>3, Known DEF StoresOK, Settled
  <2> QED BY <2>1, <2>2, <2>4, <2>5, <2>6, <2>7, Proceeds DEF Outside
<1>6. CASE Save(w)
  <2> DEFINE s == IF j.kind = "freeze"
                  THEN [Saved(w) EXCEPT !.stage = "preparing", !.point = j.value]
                  ELSE Saved(w)
             r == IF j.kind = "freeze"
                  THEN [To(w, "protect") EXCEPT !.flag = 1, !.id = j.value]
                  ELSE To(w, "restoring")
  <2>1. j.kind \in {"freeze", "restore"} /\ j.step = "save" BY <1>6, Doing DEF Save, At
  <2>2. control' = control /\ site' \in {site, s}
    BY <1>6 DEF Save, Store, Access, Same, SetSite, stores
  <2>3. (site' = s /\ Moved(w, r)) \/ Moved(w, Quit(j))
    BY <1>6 DEF Save, Store, Access, Same, SetSite, Become, Frame, Moved, Quit
  <2>4. /\ DOMAIN s = SiteFields
        /\ s.stage = IF j.kind = "freeze" THEN "preparing" ELSE site.stage
    BY Known DEF StoresOK, Saved, SiteFields
  <2>5. /\ Like(w, r) /\ r.flag \in {0, 1}
        /\ r.step = IF j.kind = "freeze" THEN "protect" ELSE "restoring"
    BY <2>1, Going, Known DEF Like, JobFields
  <2>6. Placed(r) BY <2>1, <2>5 DEF Placed, Like, FreezeSteps, RestoreSteps
  <2> HIDE DEF r, s
  <2>7. StoresOK' BY <2>2, <2>4, Known DEF StoresOK
  <2>8. ~rival => Pinning(site'.stage, control'.flag) BY <2>2, <2>4 DEF IInv, Pinning
  <2>9. CASE Moved(w, Quit(j)) BY <2>1, <2>7, <2>8, <2>9, OwnerStops DEF Exclusive, Outside
  <2>10. CASE site' = s /\ Moved(w, r)
    <3>1. Fits(w, r) BY <2>1, <2>4, <2>5, <2>10 DEF Fits, InStage, Like, Edits
    <3>2. ~rival' => ~rival BY <2>10, Remembered DEF Moved
    <3> QED BY <2>1, <2>5, <2>6, <2>7, <2>8, <2>10, <3>1, <3>2, Owns DEF Exclusive, Outside
  <2> QED BY <2>3, <2>9, <2>10
<1>7. CASE Protect(w)
  <2> DEFINE r == [To(w, "flag") EXCEPT !.guard = TRUE]
  <2>1. j.kind \in Exclusive /\ j.step = "protect" BY <1>7, Doing DEF Protect, At
  <2>2. stay /\ either(r)
    BY <1>7 DEF Protect, Touch, Same, SetDisk, stores, Become, Frame, Moved
  <2>3. Like(w, r) /\ r.step = "flag" /\ r.flag = j.flag /\ r.flag \in {0, 1}
        /\ (r.kind = "publish" => r.flag = 0)
    BY <2>1, Going, Known DEF Like, JobFields, Finishing
  <2>4. Placed(r)
    BY <2>1, <2>3 DEF Placed, Like, Exclusive, FreezeSteps, PublishSteps, RestoreSteps
  <2>5. ~rival => InStage(w, j, site.stage, control.flag) BY DEF IInv
  <2>6. ~rival => InStage(w, r, site.stage, control.flag)
    BY <2>1, <2>3, <2>5 DEF InStage, Like, Exclusive, Edits, Outside
  <2> HIDE DEF r
  <2> QED BY <1>1, <2>1, <2>2, <2>3, <2>4, <2>6, Proceeds DEF Outside
<1>8. CASE SetFlag(w)
  <2> DEFINE c  == [control EXCEPT !.flag = j.flag]
             r  == To(w, "open")
             rb == [To(w, "open") EXCEPT !.broken = TRUE]
  <2>1. j.kind \in Exclusive /\ j.step = "flag" BY <1>8, Doing DEF SetFlag, At
  <2>2. site' = site /\ control' \in {control, c}
    BY <1>8 DEF SetFlag, Access, Same, SetControl, stores
  <2>3. (control' = c /\ Moved(w, r)) \/ Moved(w, rb)
    BY <1>8 DEF SetFlag, Access, Same, SetControl, Become, Frame, Moved
  <2>4. DOMAIN c = ControlFields /\ c.flag = j.flag BY Known DEF StoresOK, ControlFields
  <2>5. /\ Like(w, r) /\ r.step = "open" /\ r.flag = j.flag
        /\ Like(w, rb) /\ rb.step = "open" /\ rb.flag = j.flag /\ rb.broken
    BY <2>1, Going, Known DEF Like, JobFields, Finishing
  <2>6. Placed(r) /\ Placed(rb)
    BY <2>1, <2>5, Known
    DEF Placed, Like, Exclusive, FreezeSteps, PublishSteps, RestoreSteps
  <2>7. ~rival => InStage(w, j, site.stage, control.flag) /\ Pinning(site.stage, control.flag)
    BY DEF IInv
  <2> HIDE DEF r, rb, c
  <2>8. StoresOK' BY <2>2, <2>4, Known DEF StoresOK
  <2>9. ~rival => Pinning(site'.stage, control'.flag)
    BY <2>1, <2>2, <2>4, <2>7, Known DEF Pinning, InStage, Exclusive, Outside
  <2>10. CASE Moved(w, rb)
    <3>1. ~rival' => ~rival BY <2>10, Remembered DEF Moved
    <3>2. ~rival => Fits(w, rb)
      BY <2>1, <2>2, <2>5, <2>7 DEF Fits, InStage, Like, Exclusive, Edits, Outside
    <3> QED BY <2>1, <2>5, <2>6, <2>8, <2>9, <2>10, <3>1, <3>2, Owns DEF Outside
  <2>11. CASE control' = c /\ Moved(w, r)
    <3>1. ~rival' => ~rival BY <2>11, Remembered DEF Moved
    <3>2. j.kind \in {"publish", "restore"} /\ ~rival => control'.flag = 0
      BY <2>1, <2>4, <2>7, <2>11, Known DEF InStage
    <3>3. ~rival => Fits(w, r)
      BY <2>1, <2>2, <2>5, <2>7, <3>2 DEF Fits, InStage, Like, Exclusive, Edits, Outside
    <3> QED BY <2>1, <2>5, <2>6, <2>8, <2>9, <2>11, <3>1, <3>3, Owns DEF Outside
  <2> QED BY <2>3, <2>10, <2>11
<1>9. CASE Open(w)
  <2> DEFINE stop == Quit([j EXCEPT !.guard = FALSE])
             r == [To(w, IF j.kind = "freeze" THEN "activate" ELSE "finish")
                   EXCEPT !.guard = FALSE]
  <2>1. j.kind \in Exclusive /\ j.step = "open" BY <1>9, Doing DEF Open, At
  <2>2. stay BY <1>9 DEF Open, WritePolicy, SetDisk, Same, stores
  <2>3. Moved(w, stop) \/ (Moved(w, r) /\ ~j.broken)
    BY <1>9 DEF Open, Become, Frame, Moved
  <2>4. Like(w, stop) /\ stop.step \in Outside /\ stop.step # "turn" /\ stop.flag = j.flag
    BY <2>1, Known DEF Like, JobFields, Quit, Outside, Finishing, Exclusive, Edits
  <2>5. Like(w, r) /\ r.flag = j.flag
        /\ r.step = IF j.kind = "freeze" THEN "activate" ELSE "finish"
    BY <2>1, Going, Known DEF Like, JobFields, Finishing
  <2>6. Placed(stop) BY <2>4, Known DEF Placed, Like, Outside
  <2>7. Placed(r)
    BY <2>1, <2>5, Known
    DEF Placed, Like, Exclusive, FreezeSteps, PublishSteps, RestoreSteps
  <2>8. ~rival => InStage(w, j, site.stage, control.flag) BY DEF IInv
  <2>9. ~rival /\ ~j.broken => InStage(w, r, site.stage, control.flag)
    BY <2>1, <2>5, <2>8 DEF InStage, Like, Exclusive, Edits, Outside
  <2> HIDE DEF r, stop
  <2>10. CASE Moved(w, stop)
    BY <1>1, <2>1, <2>2, <2>4, <2>6, <2>10, Proceeds, OutsideFits DEF Outside
  <2>11. CASE Moved(w, r) /\ ~j.broken
    BY <1>1, <2>1, <2>2, <2>5, <2>7, <2>9, <2>11, Proceeds DEF Outside
  <2> QED BY <2>3, <2>10, <2>11
<1>10. CASE Activate(w)
  <2> DEFINE s == Activated(j.id, "frozen")
  <2>1. j.kind = "freeze" /\ j.step = "activate" BY <1>10, Doing DEF Activate, At
  <2>2. control' = control /\ site' \in {site, s} /\ Moved(w, Quit(j))
    BY <1>10 DEF Activate, Store, Access, Same, SetSite, stores, Become, Frame, Moved
  <2>3. DOMAIN s = SiteFields /\ s.stage = "frozen"
    BY Known DEF StoresOK, Activated, SiteFields
  <2> HIDE DEF s
  <2>4. StoresOK' BY <2>2, <2>3, Known DEF StoresOK
  <2>5. ~rival => Pinning(site'.stage, control'.flag) BY <2>2, <2>3 DEF IInv, Pinning
  <2> QED BY <2>1, <2>2, <2>4, <2>5, OwnerStops DEF Exclusive, Outside
<1>11. CASE Finish(w)
  <2> DEFINE r == [Quit(j) EXCEPT !.done = TRUE]
  <2>1. j.kind \in {"publish", "restore"} /\ j.step = "finish"
    BY <1>11, Doing DEF Finish, At
  <2>2. control' = control /\ site' \in {site, Finished}
    BY <1>11 DEF Finish, Store, Access, Same, SetSite, stores
  <2>3. Moved(w, Quit(j)) \/ Moved(w, r)
    BY <1>11 DEF Finish, Store, Access, Become, Frame, Moved
  <2>4. DOMAIN Finished = SiteFields /\ Finished.stage = "none"
    BY Known DEF StoresOK, Finished, SiteFields
  <2>5. Like(w, r) /\ r.step = Quit(j).step /\ r.flag = j.flag
    BY <2>1, Quitting, Known DEF Like, JobFields, Quit
  <2>6. r.step \in Outside /\ r.step # "turn"
    BY <2>1, <2>5, Known DEF Quit, JobFields, Outside, Edits
  <2>7. Placed(r) BY <2>5, <2>6, Known DEF Placed, Like, Outside
  <2> HIDE DEF r
  <2>8. StoresOK' BY <2>2, <2>4, Known DEF StoresOK
  <2>9. ~rival => control.flag = 0 BY <2>1 DEF IInv, InStage
  <2>10. ~rival => Pinning(site'.stage, control'.flag) BY <2>2, <2>9 DEF Pinning
  <2>11. Fits(w, r) BY <2>6, OutsideFits DEF Fits
  <2>12. Moved(w, r) => (~rival' => ~rival) BY Remembered DEF Moved
  <2>13. CASE Moved(w, r)
    BY <2>1, <2>5, <2>7, <2>8, <2>10, <2>11, <2>12, <2>13, Owns DEF Exclusive, Outside
  <2>14. CASE Moved(w, Quit(j)) BY <2>1, <2>8, <2>10, <2>14, OwnerStops DEF Exclusive, Outside
  <2> QED BY <2>3, <2>13, <2>14
<1>12. ASSUME NEW t,
              j.kind = "publish", j.step \in {"candidates", "commit"},
              StoresOK', Settled, either(NextCandidate([j EXCEPT !.todo = t]))
       PROVE  IInv'
  <2> DEFINE q == [j EXCEPT !.todo = t]
             r == NextCandidate(q)
  <2>1. DOMAIN q = JobFields /\ q.kind = j.kind /\ q.epoch = j.epoch /\ q.flag = j.flag
    BY Known DEF JobFields
  <2> HIDE DEF q
  <2>2. /\ DOMAIN r = JobFields /\ r.kind = "publish" /\ r.epoch = j.epoch /\ r.flag = 0
        /\ r.step \in {"publishing", "static"}
    BY <1>12, <2>1, Known DEF NextCandidate, JobFields
  <2>3. w # Recovery BY <1>12, Known DEF Finishing
  <2>4. Like(w, r) /\ Placed(r) BY <1>12, <2>2, <2>3 DEF Like, Placed, PublishSteps
  <2>5. InStage(w, r, site.stage, control.flag) BY <2>2, <2>3 DEF InStage, Edits
  <2>6. either(r) BY <1>12 DEF q
  <2> HIDE DEF r
  <2> QED BY <1>12, <2>4, <2>5, <2>6, Proceeds DEF Outside
<1>13. CASE Candidates(w)
  <2> DEFINE t == SetToSeq({p \in Pages : site.page[p] \notin {0, site.live[p]}})
  <2>1. j.kind = "publish" /\ j.step = "candidates" BY <1>13, Doing DEF Candidates, At
  <2>2. stay /\ either(NextCandidate([j EXCEPT !.todo = t]))
    BY <1>13 DEF Candidates, Load, Access, Same, stores, Become, Frame, Moved
  <2> QED BY <1>1, <1>12, <2>1, <2>2
<1>14. CASE CommitPublication(w)
  <2> DEFINE s == [site EXCEPT !.live[Target(w)] = j.value]
             t == Tail(j.todo)
  <2>1. j.kind = "publish" /\ j.step = "commit" BY <1>14 DEF CommitPublication, At
  <2>2. control' = control /\ site' \in {site, s}
    BY <1>14 DEF CommitPublication, Commit, SetSite, SetDisk
  <2>3. either(NextCandidate([j EXCEPT !.todo = t]))
    BY <1>14 DEF CommitPublication, Commit, Become, Frame, Moved
  <2>4. DOMAIN s = SiteFields /\ s.stage = site.stage BY Known DEF StoresOK, SiteFields
  <2> HIDE DEF s
  <2>5. StoresOK' /\ Settled BY <2>2, <2>4, Known DEF StoresOK, Settled
  <2> QED BY <1>12, <2>1, <2>3, <2>5
<1>15. CASE Publishing(w)
  <2> DEFINE r == IF site.stage = "none" THEN [To(w, "protect") EXCEPT !.id = 0]
                  ELSE [To(w, "mark") EXCEPT !.id = site.point]
  <2>1. j.kind = "publish" /\ j.step = "publishing" BY <1>15, Doing DEF Publishing, At
  <2>2. stay /\ either(r)
    BY <1>15 DEF Publishing, Load, Access, Same, stores, Become, Frame, Moved
  <2>3. Like(w, r) /\ r.step \in {"protect", "mark"} /\ r.flag = 0
    BY <2>1, Going, Known DEF Like, JobFields, Finishing
  <2>4. Placed(r) BY <2>1, <2>3 DEF Placed, Like, PublishSteps
  <2>5. ~rival => InStage(w, j, site.stage, control.flag) BY DEF IInv
  <2>6. ~rival => InStage(w, r, site.stage, control.flag)
    BY <2>1, <2>3, <2>5 DEF InStage, Like, Edits, Outside
  <2> HIDE DEF r
  <2> QED BY <1>1, <2>1, <2>2, <2>3, <2>4, <2>6, Proceeds DEF Outside
<1>16. CASE MarkPublishing(w)
  <2> DEFINE s == Activated(j.id, "publishing")
             r == To(w, "protect")
  <2>1. j.kind = "publish" /\ j.step = "mark" BY <1>16, Doing DEF MarkPublishing, At
  <2>2. control' = control /\ site' \in {site, s}
    BY <1>16 DEF MarkPublishing, Store, Access, Same, SetSite, stores
  <2>3. (site' = s /\ Moved(w, r)) \/ Moved(w, Quit(j))
    BY <1>16 DEF MarkPublishing, Store, Access, SetSite, Become, Frame, Moved
  <2>4. DOMAIN s = SiteFields /\ s.stage = "publishing"
    BY Known DEF StoresOK, Activated, SiteFields
  <2>5. Like(w, r) /\ r.step = "protect" /\ r.flag = 0
    BY <2>1, Going, Known DEF Like, Finishing
  <2>6. Placed(r) BY <2>1, <2>5 DEF Placed, Like, PublishSteps
  <2> HIDE DEF r, s
  <2>7. StoresOK' BY <2>2, <2>4, Known DEF StoresOK
  <2>8. ~rival => Pinning(site'.stage, control'.flag) BY <2>2, <2>4 DEF IInv, Pinning
  <2>9. CASE Moved(w, Quit(j)) BY <2>1, <2>7, <2>8, <2>9, OwnerStops DEF Exclusive, Outside
  <2>10. CASE site' = s /\ Moved(w, r)
    <3>1. Fits(w, r) BY <2>1, <2>4, <2>5, <2>10 DEF Fits, InStage, Like, Edits
    <3>2. ~rival' => ~rival BY <2>10, Remembered DEF Moved
    <3> QED BY <2>1, <2>5, <2>6, <2>7, <2>8, <2>10, <3>1, <3>2, Owns DEF Exclusive, Outside
  <2> QED BY <2>3, <2>9, <2>10
<1> QED
  BY <1>2, <1>3, <1>4, <1>5, <1>6, <1>7, <1>8, <1>9, <1>10, <1>11, <1>13, <1>14, <1>15, <1>16
  DEF Freezing

(* Discarding the edits.                                                    *)
LEMMA DiscardingKeeps ==
    ASSUME IInv, NEW w \in Workers, Discarding(w)
    PROVE  IInv'
<1> DEFINE j == job[w]
           stay == UNCHANGED <<site, control>>
           either(r) == Moved(w, Quit(job[w])) \/ Moved(w, r)
<1>1. stay => StoresOK' /\ Settled BY Known DEF StoresOK, Settled
<1>2. ASSUME NEW r, j.kind = "restore", j.step \notin Outside, StoresOK', Settled, either(r),
             DOMAIN r = JobFields, r.kind = "restore", r.epoch = j.epoch, r.flag \in {0, 1},
             r.step \in RestoreSteps \ {"flag", "open", "finish"},
             r.step = "protect" => r.flag = 0
      PROVE  IInv'
  <2>1. Like(w, r) /\ Placed(r) BY <1>2 DEF Like, Placed, RestoreSteps
  <2>2. InStage(w, r, site.stage, control.flag) BY <1>2 DEF InStage, RestoreSteps, Edits
  <2> QED BY <1>2, <2>1, <2>2, Proceeds
<1>3. CASE Precheck(w)
  <2> DEFINE r == To(w, "admit")
  <2>1. stay /\ either(r) /\ j.step = "precheck"
    BY <1>3 DEF Precheck, Load, Access, Same, stores, Become, Frame, Moved, At
  <2>2. Like(w, r) /\ r.step = "admit" /\ r.flag = j.flag
    BY <2>1, Going, Known DEF Like, Finishing
  <2>3. Placed(r) /\ Leased(w, r)
    BY <2>1, <2>2, Known DEF Placed, Leased, Like, Outside, Finishing, Edits
  <2> HIDE DEF r
  <2>4. CASE Moved(w, r) BY <1>1, <2>1, <2>2, <2>3, <2>4, Works, OutsideFits DEF Outside
  <2>5. CASE Moved(w, Quit(j)) BY <1>1, <2>1, <2>5, Works, Quitting, OutsideFits
  <2> QED BY <2>1, <2>4, <2>5
<1>4. ASSUME NEW q, DOMAIN q = JobFields
      PROVE  /\ DOMAIN Restoring(q) = JobFields /\ Restoring(q).step = "files"
             /\ Restoring(q).kind = q.kind /\ Restoring(q).epoch = q.epoch
             /\ Restoring(q).flag = q.flag
  BY <1>4 DEF Restoring, JobFields
<1>5. CASE Check(w)
  <2> DEFINE q == [j EXCEPT !.taken = site.points[site.from]]
             r == IF site.stage = "restoring" THEN Restoring(q) ELSE To(w, "compare")
  <2>1. j.kind = "restore" /\ j.step = "check" BY <1>5, Doing DEF Check, At
  <2>2. stay /\ either(r)
    BY <1>5 DEF Check, Load, Access, Same, stores, Become, Frame, Moved
  <2>3. DOMAIN q = JobFields /\ q.kind = j.kind /\ q.epoch = j.epoch /\ q.flag = j.flag
    BY Known DEF JobFields
  <2> HIDE DEF q
  <2>4. /\ DOMAIN r = JobFields /\ r.kind = j.kind /\ r.epoch = j.epoch /\ r.flag = j.flag
        /\ r.step \in {"files", "compare"}
    BY <1>4, <2>3, Going
  <2> HIDE DEF r
  <2> QED BY <1>1, <1>2, <2>1, <2>2, <2>4, Known DEF Outside, RestoreSteps
<1>6. CASE Compare(w)
  <2> DEFINE r == [To(w, "retain") EXCEPT !.taken = Captured,
                      !.todo = FileContents(Captured)]
  <2>1. j.kind = "restore" /\ j.step = "compare" BY <1>6, Doing DEF Compare, At
  <2>2. stay /\ either(r)
    BY <1>6 DEF Compare, Load, Access, Same, stores, Become, Frame, Moved
  <2>3. /\ DOMAIN r = JobFields /\ r.kind = j.kind /\ r.epoch = j.epoch /\ r.flag = j.flag
        /\ r.step = "retain"
    BY Going DEF JobFields
  <2> HIDE DEF r
  <2> QED BY <1>1, <1>2, <2>1, <2>2, <2>3, Known DEF Outside, RestoreSteps
<1>7. CASE BeginRestoring(w)
  <2> DEFINE s == [Activated(j.id, "restoring") EXCEPT !.from = j.value]
             r == Restoring(j)
  <2>1. j.kind = "restore" /\ j.step = "restoring" BY <1>7, Doing DEF BeginRestoring, At
  <2>2. control' = control /\ site' \in {site, s} /\ either(r)
    BY <1>7 DEF BeginRestoring, Store, Access, Same, SetSite, stores, Become, Frame, Moved
  <2>3. DOMAIN s = SiteFields /\ s.stage = "restoring"
    BY Known DEF StoresOK, Activated, SiteFields
  <2>4. /\ DOMAIN r = JobFields /\ r.kind = j.kind /\ r.epoch = j.epoch /\ r.flag = j.flag
        /\ r.step = "files"
    BY <1>4, Known
  <2> HIDE DEF r, s
  <2>5. StoresOK' BY <2>2, <2>3, Known DEF StoresOK
  <2>6. ~rival => Pinning(site'.stage, control'.flag) BY <2>2, <2>3 DEF IInv, Pinning
  <2>7. CASE Moved(w, Quit(j)) BY <2>1, <2>5, <2>6, <2>7, OwnerStops DEF Exclusive, Outside
  <2>8. CASE Moved(w, r)
    <3>1. Like(w, r) /\ Placed(r) BY <2>1, <2>4, Known DEF Like, Placed, RestoreSteps
    <3>2. Fits(w, r) BY <2>1, <2>4 DEF Fits, InStage, Edits
    <3>3. ~rival' => ~rival BY <2>8, Remembered DEF Moved
    <3> QED BY <2>1, <2>5, <2>6, <2>8, <3>1, <3>2, <3>3, Owns DEF Exclusive, Outside
  <2> QED BY <2>2, <2>7, <2>8
<1>8. CASE RestoreFiles(w)
  <2> DEFINE r == IF j.todo = <<>> THEN To(w, "props") ELSE [j EXCEPT !.todo = Tail(@)]
  <2>1. j.kind = "restore" /\ j.step = "files" BY <1>8, Doing DEF RestoreFiles, At
  <2>2. stay /\ either(r)
    BY <1>8 DEF RestoreFiles, Touch, Same, SetDisk, stores, Become, Frame, Moved
  <2>3. /\ DOMAIN r = JobFields /\ r.kind = j.kind /\ r.epoch = j.epoch /\ r.flag = j.flag
        /\ r.step \in {"props", "files"}
    BY <2>1, Going, Known DEF JobFields
  <2> HIDE DEF r
  <2> QED BY <1>1, <1>2, <2>1, <2>2, <2>3, Known DEF Outside, RestoreSteps
<1>9. CASE RestoreProperties(w)
  <2> DEFINE s == [site EXCEPT !.props = Base(w).props]
             r == To(w, "views")
  <2>1. j.kind = "restore" /\ j.step = "props" BY <1>9, Doing DEF RestoreProperties, At
  <2>2. control' = control /\ site' \in {site, s} /\ either(r)
    BY <1>9 DEF RestoreProperties, Store, Access, Same, SetSite, stores, Become, Frame, Moved
  <2>3. DOMAIN s = SiteFields /\ s.stage = site.stage BY Known DEF StoresOK, SiteFields
  <2> HIDE DEF s
  <2>4. StoresOK' /\ Settled BY <2>2, <2>3, Known DEF StoresOK, Settled
  <2> QED BY <1>2, <2>1, <2>2, <2>4, Going, Known DEF Outside, RestoreSteps
<1>10. CASE RestoreViews(w)
  <2> DEFINE s == [site EXCEPT !.page = Base(w).page, !.live = Base(w).live,
                      !.hidden = ((@ \cup NewPages(Base(w), j.taken)) \ Kept(Base(w)))
                                     \cup NewFile(Base(w), j.taken)]
             r == To(w, "restore_rules")
  <2>1. j.kind = "restore" /\ j.step = "views" BY <1>10, Doing DEF RestoreViews, At
  <2>2. control' = control /\ site' \in {site, s} /\ either(r)
    BY <1>10 DEF RestoreViews, Store, Access, Same, SetSite, stores, Become, Frame, Moved
  <2>3. DOMAIN s = SiteFields /\ s.stage = site.stage BY Known DEF StoresOK, SiteFields
  <2> HIDE DEF s
  <2>4. StoresOK' /\ Settled BY <2>2, <2>3, Known DEF StoresOK, Settled
  <2> QED BY <1>2, <2>1, <2>2, <2>4, Going, Known DEF Outside, RestoreSteps
<1>11. CASE RestoreRules(w)
  <2> DEFINE c == [control EXCEPT !.rules = Base(w).rules, !.token = LiveToken(Base(w))]
             r == To(w, "restore_prefix")
  <2>1. j.kind = "restore" /\ j.step = "restore_rules" BY <1>11, Doing DEF RestoreRules, At
  <2>2. site' = site /\ control' \in {control, c} /\ either(r)
    BY <1>11 DEF RestoreRules, Access, Same, SetControl, stores, Become, Frame, Moved
  <2>3. DOMAIN c = ControlFields /\ c.flag = control.flag BY Known DEF StoresOK, ControlFields
  <2> HIDE DEF c
  <2>4. StoresOK' /\ Settled BY <2>2, <2>3, Known DEF StoresOK, Settled
  <2> QED BY <1>2, <2>1, <2>2, <2>4, Going, Known DEF Outside, RestoreSteps
<1>12. CASE RestorePrefix(w)
  <2> DEFINE r == [To(w, "protect") EXCEPT !.flag = 0]
  <2>1. j.kind = "restore" /\ j.step = "restore_prefix" BY <1>12, Doing DEF RestorePrefix, At
  <2>2. stay /\ either(r)
    BY <1>12 DEF RestorePrefix, Touch, Same, SetDisk, stores, Become, Frame, Moved
  <2>3. /\ DOMAIN r = JobFields /\ r.kind = j.kind /\ r.epoch = j.epoch /\ r.flag = 0
        /\ r.step = "protect"
    BY Going DEF JobFields
  <2> HIDE DEF r
  <2> QED BY <1>1, <1>2, <2>1, <2>2, <2>3, Known DEF Outside, RestoreSteps
<1> QED BY <1>3, <1>5, <1>6, <1>7, <1>8, <1>9, <1>10, <1>11, <1>12 DEF Discarding

(* The steps of an edit, which it makes under its lease.                    *)
Editing(w) ==
    \/ Begin(w) \/ ReadFlag(w) \/ WriteStatic(w) \/ CommitSave(w)
    \/ RetainOld(w) \/ Replace(w) \/ Unhide(w) \/ Redirect(w)
    \/ SetRules(w) \/ ReadRules(w) \/ WritePrefix(w) \/ SetToken(w)

(* An edit begins somewhere.                                                *)
LEMMA FirstSteps ==
    ASSUME NEW kind \in Edits
    PROVE  /\ FirstStep(kind) \in Changing \ {"static", "commit"}
           /\ FirstStep(kind) = "token" => kind \in {"link", "revoke"}
BY DEF FirstStep, Edits, Changing

(* What a save, a file or a setting does leaves the journal and the flag.   *)
LEMMA EditingSettles ==
    ASSUME IInv, NEW w \in Workers, Editing(w) \/ Editable(w)
    PROVE  StoresOK' /\ Settled
<1> DEFINE j == job[w]
<1>1. UNCHANGED <<site, control>> => StoresOK' /\ Settled BY Known DEF StoresOK, Settled
<1>2. ASSUME NEW s, DOMAIN s = SiteFields, s.stage = site.stage,
             site' \in {site, s}, control' = control
      PROVE  StoresOK' /\ Settled
  BY <1>2, Known DEF StoresOK, Settled
<1>3. ASSUME NEW c, DOMAIN c = ControlFields, c.flag = control.flag,
             control' \in {control, c}, site' = site
      PROVE  StoresOK' /\ Settled
  BY <1>3, Known DEF StoresOK, Settled
<1>4. CASE Editable(w) BY <1>1, <1>4 DEF Editable, Load, Access, Same, stores
<1>5. CASE Begin(w) BY <1>1, <1>5 DEF Begin, Touch, Same, SetDisk, stores
<1>6. CASE ReadFlag(w) BY <1>1, <1>6 DEF ReadFlag, Load, Access, Same, stores
<1>7. CASE WriteStatic(w) BY <1>1, <1>7 DEF WriteStatic, Touch, Same, SetDisk, stores
<1>8. CASE CommitSave(w)
  <2> DEFINE p == Target(w)
             v == j.value
             s == [site EXCEPT !.page[p] = v, !.latest[p] = v, !.hidden = @ \ {p},
                               !.live = IF j.flag = 1 THEN @ ELSE [@ EXCEPT ![p] = v]]
  <2>1. site' \in {site, s} /\ control' = control
    BY <1>8 DEF CommitSave, Commit, SetSite, SetDisk
  <2>2. DOMAIN s = SiteFields /\ s.stage = site.stage BY Known DEF StoresOK, SiteFields
  <2> HIDE DEF s
  <2> QED BY <1>2, <2>1, <2>2
<1>9. CASE RetainOld(w) BY <1>1, <1>9 DEF RetainOld, Touch, Same, SetDisk, stores
<1>10. CASE Replace(w) BY <1>1, <1>10 DEF Replace, Touch, Same, SetDisk, stores
<1>11. CASE Unhide(w)
  <2> DEFINE s == [site EXCEPT !.hidden = @ \ {"file"}]
  <2>1. site' \in {site, s} /\ control' = control
    BY <1>11 DEF Unhide, Store, Access, Same, SetSite, stores
  <2>2. DOMAIN s = SiteFields /\ s.stage = site.stage BY Known DEF StoresOK, SiteFields
  <2> HIDE DEF s
  <2> QED BY <1>2, <2>1, <2>2
<1>12. CASE Redirect(w)
  <2> DEFINE s == [site EXCEPT !.props = j.value]
  <2>1. site' \in {site, s} /\ control' = control
    BY <1>12 DEF Redirect, Store, Access, Same, SetSite, stores
  <2>2. DOMAIN s = SiteFields /\ s.stage = site.stage BY Known DEF StoresOK, SiteFields
  <2> HIDE DEF s
  <2> QED BY <1>2, <2>1, <2>2
<1>13. CASE SetRules(w)
  <2> DEFINE c == [control EXCEPT !.rules = j.value]
  <2>1. control' \in {control, c} /\ site' = site
    BY <1>13 DEF SetRules, Access, Same, SetControl, stores
  <2>2. DOMAIN c = ControlFields /\ c.flag = control.flag BY Known DEF StoresOK, ControlFields
  <2> HIDE DEF c
  <2> QED BY <1>3, <2>1, <2>2
<1>14. CASE ReadRules(w) BY <1>1, <1>14 DEF ReadRules, Load, Access, Same, stores
<1>15. CASE WritePrefix(w) BY <1>1, <1>15 DEF WritePrefix, Touch, Same, SetDisk, stores
<1>16. CASE SetToken(w)
  <2> DEFINE token == IF j.kind = "revoke" THEN [id |-> 0, left |-> 0]
                      ELSE [id |-> j.value, left |-> 1]
             c == [control EXCEPT !.token = token]
  <2>1. control' \in {control, c} /\ site' = site
    BY <1>16 DEF SetToken, Access, Same, SetControl, stores
  <2>2. DOMAIN c = ControlFields /\ c.flag = control.flag BY Known DEF StoresOK, ControlFields
  <2> HIDE DEF c
  <2> QED BY <1>3, <2>1, <2>2
<1> QED
  BY <1>4, <1>5, <1>6, <1>7, <1>8, <1>9, <1>10, <1>11, <1>12, <1>13, <1>14, <1>15, <1>16
  DEF Editing

(* An edit goes on inside, with the flag it has read, or it is over.        *)
LEMMA EditingKeeps ==
    ASSUME IInv, NEW w \in Workers, Editing(w) \/ Editable(w)
    PROVE  IInv'
<1> DEFINE j == job[w]
           either(r) == Moved(w, Quit(job[w])) \/ Moved(w, r)
<1>1. StoresOK' /\ Settled BY EditingSettles
<1>2. ASSUME NEW r, j.kind \in Edits, j.step \in EditSteps, either(r),
             DOMAIN r = JobFields, r.kind = j.kind, r.epoch = j.epoch, r.flag \in {0, 1},
             r.step \in Changing, r.step = "token" => j.kind \in {"link", "revoke"},
             j.step \in Changing \/ ~Unsettled,
             r.step \in {"static", "commit"} =>
                 r.flag = control.flag \/ (j.step = "static" /\ r.flag = j.flag)
      PROVE  IInv'
  <2>1. j.step \notin Outside /\ r.kind \notin Exclusive
    BY <1>2 DEF EditSteps, Changing, Outside, Edits, Exclusive
  <2>2. Like(w, r) BY <1>2, <2>1 DEF Like, Exclusive
  <2>3. Placed(r) BY <1>2, <2>1, Known DEF Placed, EditSteps, Changing, Exclusive
  <2>4. ~rival => InStage(w, j, site.stage, control.flag) BY DEF IInv
  <2>5. ~rival => site.stage \notin Unsettling
    BY <1>2, <2>4 DEF InStage, Unsettling, Unsettled
  <2>6. ~rival => InStage(w, r, site.stage, control.flag)
    BY <1>2, <2>1, <2>4, <2>5 DEF InStage, Exclusive, Changing
  <2> QED BY <1>1, <1>2, <2>1, <2>2, <2>3, <2>6, Proceeds
<1>3. CASE Moved(w, Quit(j)) BY <1>1, <1>3, Works, Quitting, OutsideFits
<1>4. CASE Editable(w) /\ j.kind = "publish"
  <2> DEFINE r == To(w, "candidates")
  <2>1. either(r) /\ j.step = "editable"
    BY <1>4 DEF Editable, Load, Access, Become, Frame, Moved, At
  <2>2. w # Recovery BY <1>4, <2>1, Known DEF Finishing
  <2>3. Like(w, r) /\ r.step = "candidates" /\ r.flag = 0
    BY <1>4, <2>2, Going, Known DEF Like
  <2>4. Placed(r) /\ InStage(w, r, site.stage, control.flag)
    BY <1>4, <2>2, <2>3 DEF Placed, Like, PublishSteps, InStage, Edits
  <2> HIDE DEF r
  <2> QED BY <1>1, <2>1, <2>3, <2>4, Proceeds DEF Outside
<1>5. CASE Editable(w) /\ j.kind # "publish"
  <2> DEFINE r == To(w, IF j.kind = "import" THEN FirstStep(j.kind) ELSE "begin")
  <2>1. (~Unsettled /\ Moved(w, r)) \/ Moved(w, Quit(j))
    BY <1>5 DEF Editable, Load, Access, Become, Frame, Moved
  <2>2. j.kind \in Edits /\ j.step = "editable" BY <1>5, Doing DEF Editable, At
  <2>3. /\ r.step \in Changing \ {"static", "commit"}
        /\ r.step = "token" => j.kind \in {"link", "revoke"}
    BY <2>2, FirstSteps, Going DEF Changing
  <2>4. DOMAIN r = JobFields /\ r.kind = j.kind /\ r.epoch = j.epoch /\ r.flag \in {0, 1}
    BY Going, Known
  <2> HIDE DEF r
  <2> QED BY <1>2, <1>3, <2>1, <2>2, <2>3, <2>4 DEF EditSteps
<1>6. CASE Begin(w)
  <2> DEFINE q == [To(w, FirstStep(j.kind)) EXCEPT !.begun = TRUE]
             r == IF j.kind \in {"page", "redirect"} THEN q ELSE [q EXCEPT !.guard = TRUE]
  <2>1. either(r) BY <1>6 DEF Begin, Touch, Become, Frame, Moved
  <2>2. j.kind \in Edits /\ j.step = "begin" BY <1>6, Doing DEF Begin, At, Changing
  <2>3. /\ DOMAIN q = JobFields /\ q.kind = j.kind /\ q.epoch = j.epoch /\ q.flag \in {0, 1}
        /\ q.step \in Changing \ {"static", "commit"}
        /\ q.step = "token" => j.kind \in {"link", "revoke"}
    BY <2>2, FirstSteps, Going, Known DEF JobFields
  <2> HIDE DEF q
  <2>4. /\ DOMAIN r = JobFields /\ r.kind = j.kind /\ r.epoch = j.epoch /\ r.flag \in {0, 1}
        /\ r.step \in Changing \ {"static", "commit"}
        /\ r.step = "token" => j.kind \in {"link", "revoke"}
    BY <2>3 DEF JobFields
  <2> HIDE DEF r
  <2> QED BY <1>2, <2>1, <2>2, <2>4 DEF EditSteps, Changing
<1>7. CASE ReadFlag(w)
  <2> DEFINE r == [To(w, IF control.flag = 1 THEN "commit" ELSE "static")
                   EXCEPT !.flag = control.flag]
  <2>1. either(r) BY <1>7 DEF ReadFlag, Load, Access, Become, Frame, Moved
  <2>2. j.kind \in Edits /\ j.step = "read_flag" BY <1>7, Doing DEF ReadFlag, At, Changing
  <2>3. /\ DOMAIN r = JobFields /\ r.kind = j.kind /\ r.epoch = j.epoch
        /\ r.flag = control.flag /\ r.step \in {"commit", "static"} /\ r.flag \in {0, 1}
    BY Going, Known DEF JobFields, StoresOK
  <2> HIDE DEF r
  <2> QED BY <1>2, <2>1, <2>2, <2>3 DEF EditSteps, Changing
<1>8. CASE WriteStatic(w)
  <2> DEFINE r == [To(w, "commit") EXCEPT !.old = disk.static[Target(w)]]
  <2>1. either(r) BY <1>8 DEF WriteStatic, Touch, Become, Frame, Moved
  <2>2. j.kind \in Edits \cup {"publish"} /\ j.step = "static"
    BY <1>8, Doing DEF WriteStatic, At
  <2>3. /\ DOMAIN r = JobFields /\ r.kind = j.kind /\ r.epoch = j.epoch /\ r.flag = j.flag
        /\ r.step = "commit"
    BY Going DEF JobFields
  <2> HIDE DEF r
  <2>4. CASE j.kind \in Edits
    BY <1>2, <2>1, <2>2, <2>3, <2>4, Known DEF EditSteps, Changing
  <2>5. CASE j.kind = "publish"
    <3>1. w # Recovery BY <2>2, <2>5, Known DEF Finishing
    <3>2. Like(w, r) /\ Placed(r) /\ InStage(w, r, site.stage, control.flag)
      BY <2>3, <2>5, <3>1, Known DEF Like, Placed, PublishSteps, InStage, Edits
    <3> QED BY <1>1, <2>1, <2>2, <3>2, Proceeds DEF Outside
  <2> QED BY <2>2, <2>4, <2>5
<1>9. CASE CommitSave(w)
  BY <1>3, <1>9 DEF CommitSave, Commit, Become, Frame, Moved
<1>10. ASSUME NEW s \in Changing \ {"static", "commit", "token"}, either(To(w, s)),
              j.step \in Changing \ {"static", "commit"}
       PROVE  IInv'
  <2>1. j.kind \in Edits BY <1>10, Doing
  <2>2. j.step \in EditSteps BY <1>10 DEF EditSteps
  <2> QED BY <1>2, <1>10, <2>1, <2>2, Going, Known DEF Changing
<1>11. CASE RetainOld(w)
  <2>1. either(To(w, "replace")) /\ j.step = "retain_old"
    BY <1>11 DEF RetainOld, Touch, Become, Frame, Moved, At
  <2> QED BY <1>10, <2>1 DEF Changing
<1>12. CASE Replace(w)
  <2>1. either(To(w, "unhide")) /\ j.step = "replace"
    BY <1>12 DEF Replace, Touch, Become, Frame, Moved, At
  <2> QED BY <1>10, <2>1 DEF Changing
<1>13. CASE Unhide(w) BY <1>3, <1>13 DEF Unhide, Store, Access, Become, Frame, Moved
<1>14. CASE Redirect(w) BY <1>3, <1>14 DEF Redirect, Store, Access, Become, Frame, Moved
<1>15. CASE SetRules(w)
  <2>1. either(To(w, "read_rules")) /\ j.step = "rules"
    BY <1>15 DEF SetRules, Access, Become, Frame, Moved, At
  <2> QED BY <1>10, <2>1 DEF Changing
<1>16. CASE ReadRules(w)
  <2> DEFINE r == [To(w, "prefix") EXCEPT !.old = control.rules]
  <2>1. either(r) BY <1>16 DEF ReadRules, Load, Access, Become, Frame, Moved
  <2>2. j.kind \in Edits /\ j.step = "read_rules" BY <1>16, Doing DEF ReadRules, At, Changing
  <2>3. /\ DOMAIN r = JobFields /\ r.kind = j.kind /\ r.epoch = j.epoch
        /\ r.flag \in {0, 1} /\ r.step = "prefix"
    BY Going, Known DEF JobFields
  <2> HIDE DEF r
  <2> QED BY <1>2, <2>1, <2>2, <2>3 DEF EditSteps, Changing
<1>17. CASE WritePrefix(w) BY <1>3, <1>17 DEF WritePrefix, Touch, Become, Frame, Moved
<1>18. CASE SetToken(w) BY <1>3, <1>18 DEF SetToken, Access, Become, Frame, Moved
<1> QED
  BY <1>4, <1>5, <1>6, <1>7, <1>8, <1>9, <1>11, <1>12, <1>13, <1>14, <1>15, <1>16, <1>17,
     <1>18 DEF Editing

-----------------------------------------------------------------------------
(* Leases *)

(* A worker gets or gives back a lease, between the stores.                 *)
LEMMA Regated ==
    ASSUME IInv, NEW w \in Workers, NEW r, NEW h, Watched, UNCHANGED <<site, control>>,
           job' = [job EXCEPT ![w] = r], holder' = [holder EXCEPT ![w] = h],
           DOMAIN ticket' = Workers, DOMAIN epoch' = {"site"}, epoch'["site"] \in Nat \ {0},
           epoch' = epoch \/ holder[w] = "exclusive",
           h = "exclusive" => \A v \in Workers \ {w} : holder[v] = "none",
           h # "none" => \A v \in Workers \ {w} : holder[v] # "exclusive",
           Placed(r),
           r.kind \in Exclusive /\ r.step \notin Outside => h = "exclusive",
           r.kind \in Edits /\ r.step \notin Outside =>
               h = "shared" /\ (r.kind = "import" => r.epoch = epoch'["site"]),
           w = Recovery /\ r.kind = "publish" => r.step \in Finishing,
           w = Recovery => r.kind \notin Edits,
           ~rival => InStage(w, r, site.stage, control.flag)
    PROVE  IInv'
<1>1. \A v \in Workers : job'[v] = IF v = w THEN r ELSE job[v] BY DEF IInv, Shape
<1>2. \A v \in Workers : holder'[v] = IF v = w THEN h ELSE holder[v] BY DEF IInv, Shape
<1>3. Shape' BY Remembered DEF IInv, Shape
<1>4. Alone' BY <1>2 DEF IInv, Alone
<1>5. \A v \in Workers : Placed(job'[v]) BY <1>1 DEF IInv
<1>6. ASSUME NEW v \in Workers \ {w} PROVE Leased(v, job[v])'
  <2>1. Leased(v, job[v]) /\ job'[v] = job[v] /\ holder'[v] = holder[v] BY <1>1, <1>2 DEF IInv
  <2>2. holder[w] = "exclusive" => holder[v] = "none" BY DEF IInv, Alone
  <2> QED BY <2>1, <2>2 DEF Leased
<1>7. Leased(w, job[w])' BY <1>1, <1>2 DEF Leased
<1>8. ~rival' => \A v \in Workers : InStage(v, job'[v], site'.stage, control'.flag)
  BY <1>1, Remembered DEF IInv
<1>9. ~rival' => Pinning(site'.stage, control'.flag) BY Remembered DEF IInv
<1> QED BY <1>3, <1>4, <1>5, <1>6, <1>7, <1>8, <1>9, Remembered DEF IInv

(* What the gate grants and takes back.                                     *)
LEMMA Granting ==
    ASSUME IInv, NEW w \in Workers, NEW kind \in {"shared", "exclusive"}, NEW e,
           Gate!Grant(w, kind, e)
    PROVE  /\ holder' = [holder EXCEPT ![w] = kind] /\ DOMAIN ticket' = Workers
           /\ epoch' = epoch /\ e \in {0, epoch["site"]}
           /\ kind = "exclusive" => \A v \in Workers \ {w} : holder[v] = "none"
           /\ \A v \in Workers \ {w} : holder[v] # "exclusive"
<1> DEFINE at == [v \in Workers |-> "site"]
<1>1. \A v \in Workers : at[v] = "site" OBVIOUS
<1>2. Gate!Others(w) = Workers \ {w} BY <1>1 DEF Gate!Others
<1> QED BY <1>1, <1>2 DEF Gate!Grant, IInv, Shape

(* A lease that goes back opens at most one generation.                     *)
LEMMA Returning ==
    ASSUME IInv, NEW w \in Workers, Gate!Return(w) \/ Gate!Advance(w)
    PROVE  /\ holder' = [holder EXCEPT ![w] = "none"] /\ DOMAIN ticket' = Workers
           /\ DOMAIN epoch' = {"site"} /\ epoch'["site"] \in Nat \ {0}
           /\ epoch' = epoch \/ holder[w] = "exclusive"
<1>1. [v \in Workers |-> "site"][w] = "site" OBVIOUS
<1>2. epoch["site"] \in Nat /\ DOMAIN epoch = {"site"} /\ epoch["site"] + 1 \in Nat \ {0}
  BY DEF IInv, Shape
<1> QED BY <1>1, <1>2 DEF Gate!Return, Gate!Advance, IInv, Shape

(* A worker that stays outside the stores.                                  *)
LEMMA Waits ==
    ASSUME IInv, NEW w \in Workers, NEW r, Moved(w, r), UNCHANGED <<site, control>>,
           Placed(r), r.step \in Outside, w = Recovery => r.kind \notin Edits,
           w = Recovery /\ r.kind = "publish" => r.step \in Finishing
    PROVE  IInv'
<1>1. Leased(w, r) BY DEF Leased
<1>2. StoresOK' /\ Settled BY Known DEF StoresOK, Settled
<1> QED BY <1>1, <1>2, Works, OutsideFits

(* What ends a call.                                                        *)
LEMMA Ending ==
    ASSUME IInv, NEW w \in Workers
    PROVE  /\ Placed(Ended(w)) /\ Ended(w).step \in Outside /\ Ended(w).kind = "none"
           /\ Placed(Idle) /\ Idle.step \in Outside /\ Idle.kind = "none"
BY DEF Ended, Idle, Placed, JobFields, Outside

(* Leases come and go without a step of the journal.                        *)
LEMMA LeasesKeep ==
    ASSUME IInv, NEW w \in Workers,
           Queue(w) \/ Granted(w) \/ Abandon(w) \/ Join(w) \/ Return(w) \/ Leave(w)
    PROVE  IInv'
<1> DEFINE j == job[w]
<1>1. ASSUME Moved(w, Quit(j)), UNCHANGED <<site, control>> PROVE IInv'
  BY <1>1, Waits, Quitting, Known DEF Like
<1>2. CASE Queue(w)
  <2> DEFINE r == IF Busy THEN Quit(j) ELSE To(w, "turn")
             c(v) == [job[v] EXCEPT !.canceled = TRUE]
  <2>1. /\ \A v \in Workers : job'[v] \in (IF v = w THEN {r} ELSE {job[v], c(v)})
        /\ DOMAIN job' = Workers /\ j.kind \in Exclusive /\ j.step = "admit"
        /\ UNCHANGED <<site, control, gate>> /\ Watched
    BY <1>2 DEF Queue, At, stores, Frame
  <2>2. w = Recovery => j.kind # "publish" BY <2>1, Known DEF Finishing
  <2>3. Placed(To(w, "turn")) BY <2>1, Going, Known DEF Placed, Outside
  <2>4. Placed(r) /\ Like(w, r) /\ r.step \in Outside
    BY <2>1, <2>2, <2>3, Quitting, Going DEF Like, Outside
  <2>5. \A v \in Workers : DOMAIN c(v) = JobFields
          /\ \A f \in {"kind", "step", "flag", "epoch", "broken"} : c(v)[f] = job[v][f]
    BY Known DEF JobFields
  <2>6. \A v \in Workers : /\ c(v).kind = job[v].kind /\ c(v).step = job[v].step
                           /\ c(v).flag = job[v].flag /\ c(v).epoch = job[v].epoch
                           /\ c(v).broken = job[v].broken
    BY <2>5
  <2> HIDE DEF c, r
  <2>7. ASSUME NEW v \in Workers
        PROVE  /\ Placed(job'[v]) /\ Leased(v, job'[v])
               /\ ~rival => InStage(v, job'[v], site.stage, control.flag)
    <3>1. Placed(job[v]) /\ Leased(v, job[v])
          /\ (~rival => InStage(v, job[v], site.stage, control.flag)) BY DEF IInv
    <3>2. CASE job'[v] = job[v] BY <3>1, <3>2
    <3>3. CASE job'[v] = c(v)
      <4>1. Placed(c(v)) BY <2>5, <2>6, <3>1 DEF Placed
      <4>2. Leased(v, c(v)) BY <2>6, <3>1 DEF Leased
      <4>3. ~rival => InStage(v, c(v), site.stage, control.flag) BY <2>6, <3>1 DEF InStage
      <4> QED BY <3>3, <4>1, <4>2, <4>3
    <3>4. CASE v = w /\ job'[v] = r
      <4>1. Leased(w, r) BY <2>1, <2>2, <2>4, Known DEF Leased, Like
      <4> QED BY <2>4, <3>4, <4>1, OutsideFits
    <3> QED BY <2>1, <3>2, <3>3, <3>4
  <2>8. Shape' BY <2>1, Remembered DEF IInv, Shape, gate
  <2>9. Alone' BY <2>1 DEF IInv, Alone, gate
  <2>10. \A v \in Workers : Leased(v, job[v])' BY <2>1, <2>7 DEF Leased, gate
  <2>11. ~rival' => /\ Pinning(site'.stage, control'.flag)
                    /\ \A v \in Workers : InStage(v, job'[v], site'.stage, control'.flag)
    BY <2>1, <2>7, Remembered DEF IInv
  <2> QED BY <2>1, <2>7, <2>8, <2>9, <2>10, <2>11, Remembered DEF IInv
<1>3. CASE Granted(w)
  <2> DEFINE r == To(w, CASE j.kind = "freeze"  -> "journal"
                          [] j.kind = "publish" -> "editable"
                          [] j.kind = "restore" -> "check")
  <2>1. /\ job' = [job EXCEPT ![w] = r] /\ j.step = "turn" /\ UNCHANGED <<site, control>>
        /\ Watched /\ Gate!Grant(w, "exclusive", 0)
    BY <1>3 DEF Granted, Become, At, stores
  <2>2. j.kind \in Exclusive BY <2>1 DEF IInv, Placed
  <2>3. w = Recovery => j.kind # "publish" BY <2>1, Known DEF Finishing
  <2>4. /\ DOMAIN r = JobFields /\ r.kind = j.kind /\ r.flag = j.flag /\ r.epoch = j.epoch
        /\ r.kind = "freeze"  => r.step = "journal"
        /\ r.kind = "publish" => r.step = "editable"
        /\ r.kind = "restore" => r.step = "check"
    BY Going
  <2> HIDE DEF r
  <2>5. Placed(r)
    BY <2>2, <2>4, Known
    DEF Placed, Exclusive, FreezeSteps, PublishSteps, RestoreSteps
  <2>6. InStage(w, r, site.stage, control.flag) BY <2>2, <2>3, <2>4 DEF InStage, Exclusive, Edits
  <2>7. r.kind \notin Edits BY <2>2, <2>4 DEF Exclusive, Edits
  <2>8. DOMAIN epoch = {"site"} /\ epoch["site"] \in Nat \ {0} BY DEF IInv, Shape
  <2> QED BY <2>1, <2>3, <2>4, <2>5, <2>6, <2>7, <2>8, Granting, Regated
<1>4. CASE Abandon(w) BY <1>1, <1>4 DEF Abandon, Become, stores, Frame, Moved
<1>5. CASE Join(w)
  <2>1. /\ j.step = "admit" /\ j.kind \in Edits /\ UNCHANGED <<site, control>> /\ Watched
    BY <1>5 DEF Join, At, stores
  <2>2. CASE Moved(w, Quit(j)) BY <1>1, <2>1, <2>2
  <2>3. CASE ~Moved(w, Quit(j))
    <3> DEFINE r == [To(w, "editable") EXCEPT !.begun = j.kind = "import"]
    <3>1. job' = [job EXCEPT ![w] = r] /\ Gate!Grant(w, "shared", Expected(j))
      BY <1>5, <2>3 DEF Join, Become, Moved
    <3>2. /\ DOMAIN r = JobFields /\ r.kind = j.kind /\ r.flag = j.flag /\ r.epoch = j.epoch
          /\ r.step = "editable"
      BY Going DEF JobFields
    <3> HIDE DEF r
    <3>3. Placed(r) BY <2>1, <3>2, Known DEF Placed, EditSteps, Edits
    <3>4. InStage(w, r, site.stage, control.flag)
      BY <2>1, <3>2 DEF InStage, Edits, Outside, Changing
    <3>5. DOMAIN epoch = {"site"} /\ epoch["site"] \in Nat \ {0} BY DEF IInv, Shape
    <3>6. j.kind = "import" => r.epoch = epoch["site"]
      BY <3>1, <3>2, Granting, Known DEF Expected
    <3>7. r.kind \notin Exclusive BY <2>1, <3>2 DEF Exclusive, Edits
    <3>8. w # Recovery BY <2>1, Known
    <3> QED
      BY <2>1, <3>1, <3>2, <3>3, <3>4, <3>5, <3>6, <3>7, <3>8, Granting, Regated DEF Exclusive
  <2> QED BY <2>2, <2>3
<1>6. CASE Return(w)
  <2> DEFINE r == IF j.kind \in Edits THEN Ended(w) ELSE To(w, "leave")
  <2>1. /\ job' = [job EXCEPT ![w] = r] /\ j.step = "return" /\ UNCHANGED <<site, control>>
        /\ Watched /\ (UNCHANGED gate \/ Gate!Return(w) \/ Gate!Advance(w))
    BY <1>6 DEF Return, Become, At, stores
  <2>2. Placed(To(w, "leave")) BY Going, Known DEF Placed, Outside
  <2>3. /\ Placed(r) /\ r.step \in Outside /\ r.kind \notin Edits
        /\ r.kind = "publish" => r.step \in Finishing
    BY <2>2, Ending, Going DEF Outside, Finishing, Edits
  <2> HIDE DEF r
  <2>4. CASE UNCHANGED gate BY <2>1, <2>3, <2>4, Waits DEF Moved
  <2>5. CASE Gate!Return(w) \/ Gate!Advance(w)
    BY <2>1, <2>3, <2>5, Returning, Regated, OutsideFits
  <2> QED BY <2>1, <2>4, <2>5
<1>7. CASE Leave(w)
  <2> DEFINE q == [To(w, "return") EXCEPT !.begun = FALSE, !.guard = FALSE]
             r == IF j.kind \in Edits THEN q ELSE Ended(w)
  <2>1. Moved(w, r) /\ UNCHANGED <<site, control>>
    BY <1>7 DEF Leave, PublishPolicy, WritePolicy, SetDisk, Same, stores, Become, Frame, Moved
  <2>2. /\ DOMAIN q = JobFields /\ q.kind = j.kind /\ q.flag = j.flag /\ q.epoch = j.epoch
        /\ q.step = "return"
    BY Going DEF JobFields
  <2> HIDE DEF q
  <2>3. Placed(q) BY <2>2, Known DEF Placed, Outside
  <2>4. /\ Placed(r) /\ r.step \in Outside /\ (r.kind = "publish" => r.step \in Finishing)
        /\ w = Recovery => r.kind \notin Edits
    BY <2>2, <2>3, Ending, Known DEF Outside, Finishing, Edits
  <2> QED BY <2>1, <2>4, Waits
<1> QED BY <1>2, <1>3, <1>4, <1>5, <1>6, <1>7

-----------------------------------------------------------------------------
(* The rest of the system *)

(* A call begins outside the stores, an import under a generation.          *)
LEMMA StartKeeps ==
    ASSUME IInv, NEW w \in Calls, NEW kind, NEW p, Start(w, kind, p)
    PROVE  IInv'
<1> DEFINE r == Call(kind, p)
<1>1. w \in Workers /\ w # Recovery BY FreezeAssumption DEF Workers
<1>2. Moved(w, r) /\ UNCHANGED <<site, control>> BY DEF Start, Become, stores, Moved
<1>3. /\ DOMAIN r = JobFields /\ r.kind = kind /\ r.flag = 0 /\ r.step \in {"precheck", "admit"}
      /\ kind = "import" => r.epoch = epoch["site"]
  BY DEF Call, Idle, JobFields
<1> HIDE DEF r
<1>4. Placed(r) BY <1>3 DEF Placed, Outside, IInv, Shape
<1> QED BY <1>1, <1>2, <1>3, <1>4, Waits DEF Outside

(* Startup resumes what the journal says.                                   *)
LEMMA StartupKeeps ==
    ASSUME IInv, Startup
    PROVE  IInv'
<1> DEFINE idle == [Idle EXCEPT !.step = "refresh"]
<1>1. Recovery \in Workers BY DEF Workers
<1>2. StoresOK' /\ Settled
  BY Known, <1>1
  DEF StoresOK, Settled, Startup, Scan, Refresh, Access, Same, PublishPolicy, WritePolicy,
      SetDisk, stores
<1>3. DOMAIN Idle = JobFields BY DEF Idle, JobFields
<1>4. /\ DOMAIN idle = JobFields /\ idle.kind = "none" /\ idle.step = "refresh"
      /\ idle.flag = 0
  BY DEF Idle, JobFields
<1>5. Placed(idle) BY <1>4 DEF Placed, Outside
<1>6. CASE Scan
  <2> DEFINE r == Resumed
  <2>1. Moved(Recovery, r) \/ Moved(Recovery, idle)
    BY <1>6 DEF Scan, Access, Become, Frame, Moved
  <2>2. CASE Moved(Recovery, idle)
    <3>1. Leased(Recovery, idle) BY <1>4 DEF Leased, Outside, Edits
    <3>2. idle.step \in Outside BY <1>4 DEF Outside
    <3>3. InStage(Recovery, idle, site.stage, control.flag)
      <4> HIDE DEF idle
      <4> QED BY <3>2, OutsideFits
    <3> HIDE DEF idle
    <3> QED BY <1>1, <1>2, <1>5, <2>2, <3>1, <3>3, Works
  <2>3. CASE Moved(Recovery, r)
    <3>1. /\ DOMAIN r = JobFields /\ r.flag = 0
          /\ \/ r.step \in {"precheck", "admit", "refresh"}
                /\ r.kind \in {"restore", "freeze", "none"}
             \/ r.step = "publishing" /\ r.kind = "publish" /\ site.stage = "publishing"
      BY DEF Resumed, Idle, JobFields
    <3> HIDE DEF r
    <3>2. Placed(r) BY <3>1 DEF Placed, Outside, PublishSteps
    <3>3. Leased(Recovery, r) BY <3>1 DEF Leased, Outside, Finishing, Edits
    <3>4. InStage(Recovery, r, site.stage, control.flag)
      BY <3>1 DEF InStage, Outside, Edits
    <3> QED BY <1>1, <1>2, <2>3, <3>2, <3>3, <3>4, Works
  <2> QED BY <2>1, <2>2, <2>3
<1>7. CASE Refresh
  <2>1. Moved(Recovery, Idle) BY <1>7 DEF Refresh, Become, Frame, Moved
  <2>2. Placed(Idle) /\ Idle.step \in Outside /\ Idle.kind = "none" BY <1>1, Ending
  <2>3. Leased(Recovery, Idle) BY <2>2 DEF Leased, Edits
  <2> QED BY <1>1, <1>2, <2>1, <2>2, <2>3, Works, OutsideFits
<1> QED BY <1>6, <1>7 DEF Startup

(* A visitor changes what is left of a link only.                           *)
LEMMA ConsumeKeeps ==
    ASSUME IInv, Consume
    PROVE  IInv'
<1> DEFINE c == [control EXCEPT !.token.left = @ - 1]
<1>1. /\ control' = c /\ UNCHANGED <<site, job, gate>> /\ Watched
  BY DEF Consume, SetControl, Frame
<1>2. StoresOK BY DEF IInv, Shape, StoresOK
<1>3. DOMAIN c = ControlFields /\ c.flag = control.flag BY <1>2 DEF StoresOK, ControlFields
<1> HIDE DEF c
<1>4. Shape' BY <1>1, <1>2, <1>3, Remembered DEF IInv, Shape, StoresOK, gate
<1>5. Alone' BY <1>1 DEF IInv, Alone, gate
<1>6. ASSUME NEW w \in Workers PROVE Placed(job[w])' /\ Leased(w, job[w])'
  BY <1>1 DEF IInv, Leased, gate
<1>7. ~rival' => /\ Pinning(site'.stage, control'.flag)
                 /\ \A w \in Workers : InStage(w, job'[w], site'.stage, control'.flag)
  BY <1>1, <1>3, Remembered DEF IInv
<1> QED BY <1>1, <1>4, <1>5, <1>6, <1>7, Remembered DEF IInv

(* A crash leaves the stores and nothing else.                              *)
LEMMA CrashKeeps ==
    ASSUME IInv, Crash
    PROVE  IInv'
<1>1. /\ UNCHANGED <<site, control>> /\ Watched
      /\ job' = [w \in Workers |-> IF w = Recovery THEN [Idle EXCEPT !.step = "scan"] ELSE Idle]
      /\ holder' = [w \in Workers |-> "none"] /\ ticket' = [w \in Workers |-> 0]
      /\ epoch' = [d \in {"site"} |-> 1]
  BY DEF Crash, stores
<1>2. \A w \in Workers : /\ DOMAIN job'[w] = JobFields /\ job'[w].kind = "none"
                         /\ job'[w].step \in {"idle", "scan"} /\ job'[w].flag = 0
  BY <1>1 DEF Idle, JobFields
<1>3. \A w \in Workers : Placed(job'[w]) BY <1>2 DEF Placed, Outside
<1>4. \A w \in Workers : Leased(w, job[w])' BY <1>2 DEF Leased, Exclusive, Edits
<1>5. \A w \in Workers : InStage(w, job'[w], site'.stage, control'.flag)
  BY <1>2, OutsideFits DEF Outside
<1>6. Shape' BY <1>1, Remembered DEF IInv, Shape
<1>7. Alone' BY <1>1 DEF Alone
<1>8. ~rival' => Pinning(site'.stage, control'.flag) BY <1>1, Remembered DEF IInv
<1> QED BY <1>1, <1>3, <1>4, <1>5, <1>6, <1>7, <1>8, Remembered DEF IInv

(* At first nothing is under way, and a frozen site has its checkpoint.     *)
LEMMA InitHolds == Init => IInv
<1> SUFFICES ASSUME Init PROVE IInv
  OBVIOUS
<1>1. \A w \in Workers : job[w] = Idle /\ holder[w] = "none" BY DEF Init, Gate!Init
<1>2. \A w \in Workers : Placed(job[w]) /\ Leased(w, job[w])
    /\ InStage(w, job[w], site.stage, control.flag)
  <2>1. Placed(Idle) /\ Idle.step \in Outside /\ Idle.kind = "none"
    BY DEF Idle, Placed, JobFields, Outside
  <2> QED BY <1>1, <2>1, OutsideFits DEF Leased, Edits
<1>3. DOMAIN site = SiteFields BY DEF Init, SiteFields
<1>4. DOMAIN control = ControlFields /\ control.flag \in {0, 1}
      /\ Pinning(site.stage, control.flag)
  BY DEF Init, ControlFields, Pinning
<1>5. DOMAIN job = Workers /\ DOMAIN holder = Workers /\ DOMAIN ticket = Workers
      /\ DOMAIN epoch = {"site"} /\ epoch["site"] = 1 /\ rival = FALSE
  BY DEF Init, Gate!Init
<1>6. Shape
  <2>1. epoch["site"] \in Nat \ {0} BY <1>5
  <2>2. rival \in BOOLEAN BY <1>5
  <2> QED BY <1>3, <1>4, <1>5, <2>1, <2>2 DEF Shape
<1>7. Alone BY <1>1 DEF Alone
<1>8. ~Contended
  <2>1. Recovery \in Workers /\ Idle.kind = "none" BY DEF Workers, Idle
  <2> QED BY <1>1, <2>1 DEF Contended
<1> QED BY <1>2, <1>4, <1>6, <1>7, <1>8 DEF IInv

(* Every step keeps the invariant.                                          *)
LEMMA NextKeeps == IInv /\ [Next]_vars => IInv'
<1> SUFFICES ASSUME IInv, [Next]_vars PROVE IInv'
  OBVIOUS
<1>1. CASE UNCHANGED vars
  <2>1. UNCHANGED <<site, control, job, holder, ticket, epoch, rival>>
    BY <1>1 DEF vars, stores, gate
  <2> QED BY <2>1 DEF IInv, Shape, Alone, Contended, Leased
<1>2. CASE Next
  <2>1. ASSUME NEW w \in Workers, JobStep(w) PROVE IInv'
    BY <2>1, LeasesKeep, EditingKeeps, FreezingKeeps, DiscardingKeeps
    DEF JobStep, Serving, Editing
  <2> QED BY <1>2, <2>1, StartKeeps, StartupKeeps, ConsumeKeeps, CrashKeeps DEF Next
<1> QED BY <1>1, <1>2

(* The inductive invariant holds (createFreezeCheckpoint, publishDomain,    *)
(* restoreFreezeCheckpoint, recoverFreezeCheckpoints): who may work where   *)
(* with which lease, and what stage of the journal and flag it relies on.   *)
THEOREM InductiveInvariant == Spec => []IInv
BY InitHolds, NextKeeps, PTL DEF Spec

(* The flag that pins guests is never set without a journal entry that tells*)
(* how to go back, unless startup finished a publication beside an owner.   *)
THEOREM FrozenHasCheckpointAlways == Spec => []FrozenHasCheckpoint
<1>1. IInv => FrozenHasCheckpoint BY DEF IInv, Pinning, FrozenHasCheckpoint
<1> QED BY <1>1, InductiveInvariant, PTL

-----------------------------------------------------------------------------
(* Edits *)

DiskFields == {"static", "file", "prefix", "blocked", "versioned", "objects", "policy"}
DiskShape  == DOMAIN disk = DiskFields

(* The files keep their places.                                             *)
LEMMA DiskStays == DiskShape /\ [Next]_vars => DiskShape'
<1> SUFFICES ASSUME DiskShape, Next PROVE DiskShape'
  BY DEF DiskShape, vars, stores
<1>1. ASSUME DOMAIN disk' = DOMAIN disk PROVE DiskShape'
  BY <1>1 DEF DiskShape
<1>2. ASSUME NEW w \in Workers, Serving(w) PROVE DOMAIN disk' = DOMAIN disk
  BY <1>2
  DEF Serving, Queue, Granted, Abandon, Join, Return, Leave, Editable, Begin, ReadFlag,
      WriteStatic, CommitSave, RetainOld, Replace, Unhide, Redirect, SetRules, ReadRules,
      WritePrefix, SetToken, Load, Store, Access, Touch, Commit, RolledBack, PublishPolicy,
      WritePolicy, SetSite, SetControl, SetDisk, Same, stores
<1>3. ASSUME NEW w \in Workers, Freezing(w) PROVE DOMAIN disk' = DOMAIN disk
  BY <1>3
  DEF Freezing, LoadJournal, Capture, Retain, Shield, Save, Protect, SetFlag, Open, Activate,
      Finish, Candidates, CommitPublication, Publishing, MarkPublishing, Load, Store, Access,
      Touch, Commit, RolledBack, WritePolicy, SetSite, SetControl, SetDisk, Same, stores
<1>4. ASSUME NEW w \in Workers, Discarding(w) PROVE DOMAIN disk' = DOMAIN disk
  BY <1>4
  DEF Discarding, Precheck, Check, Compare, BeginRestoring, RestoreFiles, RestoreProperties,
      RestoreViews, RestoreRules, RestorePrefix, Load, Store, Access, Touch, SetSite,
      SetControl, SetDisk, Same, stores
<1>5. ASSUME Startup \/ Consume \/ Crash PROVE DOMAIN disk' = DOMAIN disk
  BY <1>5
  DEF Startup, Scan, Refresh, Consume, Crash, Access, PublishPolicy, WritePolicy, SetControl,
      SetDisk, Same, stores
<1>6. ASSUME NEW w \in Calls, NEW kind, NEW p, Start(w, kind, p)
      PROVE  DOMAIN disk' = DOMAIN disk
  BY <1>6 DEF Start, stores
<1> QED BY <1>1, <1>2, <1>3, <1>4, <1>5, <1>6 DEF Next, JobStep

(* Where an edit waits it changes nothing of the site.                      *)
LEMMA WaitingChangesNothing ==
    ASSUME IInv, DiskShape, NEW w \in Workers, JobStep(w), job[w].kind \in Edits,
           job[w].step \notin Changing
    PROVE  Edited' = Edited
<1>1. job[w].step \in Outside \cup {"editable"}
  BY DEF IInv, Placed, Edits, EditSteps
<1>2. job[w].kind \notin Exclusive BY DEF Edits, Exclusive
<1>3. Queue(w) \/ Granted(w) \/ Abandon(w) \/ Join(w) => UNCHANGED stores
  BY DEF Queue, Granted, Abandon, Join
<1>4. Return(w) \/ Leave(w) => Edited' = Edited
  BY DEF Return, Leave, PublishPolicy, WritePolicy, SetDisk, Same, stores, Edited, DiskShape,
         DiskFields
<1>5. Precheck(w) \/ Editable(w) => UNCHANGED stores
  BY DEF Precheck, Editable, Load, Access, Same
<1>6. ~Editing(w)
  BY <1>1
  DEF Editing, Begin, ReadFlag, WriteStatic, CommitSave, RetainOld, Replace, Unhide, Redirect,
      SetRules, ReadRules, WritePrefix, SetToken, At, Outside
<1>7. ~Freezing(w)
  BY <1>1
  DEF Freezing, LoadJournal, Capture, Retain, Shield, Save, Protect, SetFlag, Open, Activate,
      Finish, Candidates, CommitPublication, Publishing, MarkPublishing, At, Outside
<1>8. Discarding(w) => Precheck(w)
  BY <1>1
  DEF Discarding, Check, Compare, BeginRestoring, RestoreFiles, RestoreProperties, RestoreViews,
      RestoreRules, RestorePrefix, At, Outside
<1>9. UNCHANGED stores => Edited' = Edited BY DEF stores, Edited
<1> QED BY <1>3, <1>4, <1>5, <1>6, <1>7, <1>8, <1>9 DEF JobStep, Serving, Editing

(* An edit publishes only after it has read that guests are not pinned.     *)
LEMMA OnlySavesPublish ==
    ASSUME IInv, NEW w \in Workers, JobStep(w), job[w].kind \in Edits,
           job[w].step \in Changing, site'.live # site.live
    PROVE  job[w].step = "commit" /\ job[w].flag = 0
<1>1. job[w].kind \notin Exclusive BY DEF Edits, Exclusive
<1>2. DOMAIN site = SiteFields /\ job[w].flag \in {0, 1} BY Known DEF StoresOK
<1>3. ~Queue(w) /\ ~Granted(w) /\ ~Abandon(w) /\ ~Join(w) /\ ~Return(w) /\ ~Leave(w)
      /\ ~Editable(w)
  BY DEF Queue, Granted, Abandon, Join, Return, Leave, Editable, At, Changing
<1>4. ~Freezing(w)
  BY <1>1, Doing
  DEF Freezing, LoadJournal, Capture, Retain, Shield, Save, Protect, SetFlag, Open, Activate,
      Finish, Candidates, CommitPublication, Publishing, MarkPublishing, At, Changing, Exclusive
<1>5. ~Discarding(w)
  BY DEF Discarding, Precheck, Check, Compare, BeginRestoring, RestoreFiles, RestoreProperties,
         RestoreViews, RestoreRules, RestorePrefix, At, Changing
<1>6. ~Begin(w) /\ ~ReadFlag(w) /\ ~WriteStatic(w) /\ ~RetainOld(w) /\ ~Replace(w)
      /\ ~SetRules(w) /\ ~ReadRules(w) /\ ~WritePrefix(w) /\ ~SetToken(w)
  BY DEF Begin, ReadFlag, WriteStatic, RetainOld, Replace, SetRules, ReadRules, WritePrefix,
         SetToken, Load, Access, Touch, Same, SetDisk, SetControl, stores
<1>7. ~Unhide(w) /\ ~Redirect(w)
  BY <1>2 DEF Unhide, Redirect, Store, Access, Same, SetSite, stores, SiteFields
<1>8. CommitSave(w) BY <1>3, <1>4, <1>5, <1>6, <1>7 DEF JobStep, Serving
<1>9. job[w].step = "commit" BY <1>8 DEF CommitSave, At
<1>10. job[w].flag # 1 BY <1>2, <1>8 DEF CommitSave, Commit, SetSite, SetDisk, SiteFields
<1> QED BY <1>2, <1>9, <1>10

(* A worker that is not queueing touches nobody else.                       *)
LEMMA OnlyOne ==
    ASSUME IInv, NEW v \in Workers, JobStep(v), ~Queue(v), NEW w \in Workers \ {v}
    PROVE  job'[w] = job[w]
<1>1. \A r : Become(v, r) => job'[w] = job[w] BY DEF Become, IInv, Shape
<1>2. Serving(v) => job'[w] = job[w]
  BY <1>1
  DEF Serving, Granted, Abandon, Join, Return, Leave, Editable, Begin, ReadFlag, WriteStatic,
      CommitSave, RetainOld, Replace, Unhide, Redirect, SetRules, ReadRules, WritePrefix,
      SetToken, Load, Store, Access, Touch, Commit
<1>3. Freezing(v) => job'[w] = job[w]
  BY <1>1
  DEF Freezing, LoadJournal, Capture, Retain, Shield, Save, Protect, SetFlag, Open, Activate,
      Finish, Candidates, CommitPublication, Publishing, MarkPublishing, Load, Store, Access,
      Touch, Commit
<1>4. Discarding(v) => job'[w] = job[w]
  BY <1>1
  DEF Discarding, Precheck, Check, Compare, BeginRestoring, RestoreFiles, RestoreProperties,
      RestoreViews, RestoreRules, RestorePrefix, Load, Store, Access, Touch
<1> QED BY <1>2, <1>3, <1>4 DEF JobStep

(* No step of a worker escapes the ghost.                                   *)
LEMMA StepsWatch == ASSUME NEW w \in Workers, JobStep(w) PROVE Watched
<1>1. Serving(w) => Watched
  BY DEF Serving, Queue, Granted, Abandon, Join, Return, Leave, Editable, Begin, ReadFlag,
         WriteStatic, CommitSave, RetainOld, Replace, Unhide, Redirect, SetRules, ReadRules,
         WritePrefix, SetToken, Load, Store, Access, Touch, Commit, Frame
<1>2. Freezing(w) => Watched
  BY DEF Freezing, LoadJournal, Capture, Retain, Shield, Save, Protect, SetFlag, Open, Activate,
         Finish, Candidates, CommitPublication, Publishing, MarkPublishing, Load, Store, Access,
         Touch, Commit, Frame
<1>3. Discarding(w) => Watched
  BY DEF Discarding, Precheck, Check, Compare, BeginRestoring, RestoreFiles, RestoreProperties,
         RestoreViews, RestoreRules, RestorePrefix, Load, Store, Access, Touch, Frame
<1> QED BY <1>1, <1>2, <1>3 DEF JobStep

(* An edit reaches the site only between the steps of the journal, publishes*)
(* only while guests are not pinned, and an import that is older than a     *)
(* completed restoration writes nothing (freezeWorkspaceEditable, Enter).   *)
THEOREM EditsKeepOutAlways == Spec => EditsKeepOut
<1> DEFINE Out(w) == (job[w].kind \in Edits /\ job'[w] # job[w] /\ Edited' # Edited) =>
                       \/ rival'
                       \/ /\ ~Unsettled
                          /\ (site'.live # site.live) => control.flag = 0
                          /\ (job[w].kind = "import") => job[w].epoch = epoch["site"]
<1>1. ASSUME IInv, DiskShape, [Next]_vars, NEW w \in Calls PROVE Out(w)
  <2> SUFFICES ASSUME job[w].kind \in Edits, job'[w] # job[w], Edited' # Edited, ~rival'
               PROVE  /\ ~Unsettled
                      /\ (site'.live # site.live) => control.flag = 0
                      /\ (job[w].kind = "import") => job[w].epoch = epoch["site"]
    OBVIOUS
  <2>1. w \in Workers /\ w # Recovery /\ DOMAIN job = Workers
    BY <1>1, FreezeAssumption DEF Workers, IInv, Shape
  <2>2. Next BY <1>1 DEF vars
  <2>3. ~Crash BY DEF Crash, stores, Edited
  <2>4. ~Consume BY DEF Consume
  <2>5. ~\E v \in Calls, kind \in DOMAIN left, p \in Pages : Start(v, kind, p)
    BY DEF Start, stores, Edited
  <2>6. ~Startup BY <2>1 DEF Startup, Scan, Refresh, Access, Become
  <2>7. PICK v \in Workers : JobStep(v) BY <2>2, <2>3, <2>4, <2>5, <2>6 DEF Next
  <2>8. ~Queue(v) BY DEF Queue, stores, Edited
  <2>9. v = w BY <1>1, <2>1, <2>7, <2>8, OnlyOne
  <2>10. job[w].step \in Changing BY <1>1, <2>1, <2>7, <2>9, WaitingChangesNothing
  <2>11. ~rival BY <1>1, <2>7, StepsWatch, Remembered
  <2>12. InStage(w, job[w], site.stage, control.flag) /\ Leased(w, job[w])
    BY <1>1, <2>1, <2>11 DEF IInv
  <2>13. ~Unsettled BY <2>10, <2>12 DEF InStage, Unsettling, Unsettled
  <2>14. site'.live # site.live => control.flag = 0
    BY <1>1, <2>1, <2>7, <2>9, <2>10, <2>12, OnlySavesPublish DEF InStage
  <2>15. job[w].step \notin Outside BY <2>10 DEF Changing, Outside
  <2>16. job[w].kind = "import" => job[w].epoch = epoch["site"] BY <2>12, <2>15 DEF Leased
  <2> QED BY <2>13, <2>14, <2>16
<1>2. IInv /\ DiskShape /\ [Next]_vars => [\A w \in Calls : Out(w)]_vars BY <1>1
<1>3. Init => DiskShape BY DEF Init, DiskShape, DiskFields
<1>4. Spec => []DiskShape BY <1>3, DiskStays, PTL DEF Spec
<1> HIDE DEF Out
<1>5. Spec => [][\A w \in Calls : Out(w)]_vars
  BY <1>2, <1>4, InductiveInvariant, PTL DEF Spec
<1> QED BY <1>5 DEF EditsKeepOut, Out

-----------------------------------------------------------------------------
(* What a restoration has compared *)

(* A call that is no restoration does not become one.                       *)
LEMMA OthersStayOthers ==
    ASSUME IInv, NEW w \in Workers, JobStep(w), job[w].kind # "restore"
    PROVE  job'[w].kind # "restore"
<1> DEFINE j == job[w]
           same(r) == DOMAIN r = JobFields /\ r.kind = j.kind
<1>1. DOMAIN job = Workers /\ same(j) BY Known DEF IInv, Shape
<1>2. \A r : Become(w, r) => job'[w] = r BY <1>1 DEF Become
<1>3. same(Quit(j)) BY Quitting DEF Like
<1>4. \A s : same(To(w, s)) BY Going
<1>5. Ended(w).kind = "none" BY Ending
<1>6. Queue(w) => j.kind = job'[w].kind
  BY <1>1, <1>3, <1>4 DEF Queue
<1>7. Granted(w) \/ Abandon(w) => j.kind = job'[w].kind
  BY <1>2, <1>3, <1>4 DEF Granted, Abandon
<1>8. Join(w) => j.kind = job'[w].kind
  BY <1>2, <1>3, <1>4 DEF Join, JobFields
<1>9. Return(w) => job'[w].kind \in {j.kind, "none"}
  BY <1>2, <1>4, <1>5 DEF Return
<1>10. Leave(w) => job'[w].kind \in {j.kind, "none"}
  BY <1>2, <1>4, <1>5 DEF Leave, JobFields
<1>11. Editable(w) => j.kind = job'[w].kind
  BY <1>2, <1>3, <1>4 DEF Editable, Load, Access
<1>12. Begin(w) => j.kind = job'[w].kind
  <2> DEFINE next == [To(w, FirstStep(j.kind)) EXCEPT !.begun = TRUE]
             barred == [next EXCEPT !.guard = TRUE]
  <2>1. same(next) BY <1>4 DEF JobFields
  <2>2. Begin(w) => Become(w, next) \/ Become(w, barred) \/ Become(w, Quit(j))
    BY DEF Begin, Touch
  <2> HIDE DEF next
  <2>3. barred.kind = j.kind BY <2>1 DEF JobFields
  <2> QED BY <1>2, <1>3, <2>1, <2>2, <2>3
<1>13. ReadFlag(w) \/ ReadRules(w) => j.kind = job'[w].kind
  <2>1. ReadFlag(w) => j.kind = job'[w].kind
    BY <1>2, <1>3, <1>4 DEF ReadFlag, Load, Access, JobFields
  <2>2. ReadRules(w) => j.kind = job'[w].kind
    BY <1>2, <1>3, <1>4 DEF ReadRules, Load, Access, JobFields
  <2> QED BY <2>1, <2>2
<1>14. WriteStatic(w) => j.kind = job'[w].kind
  BY <1>2, <1>3, <1>4 DEF WriteStatic, Touch, JobFields
<1>15. CommitSave(w) => j.kind = job'[w].kind
  BY <1>2, <1>3 DEF CommitSave, Commit
<1>16. RetainOld(w) \/ Replace(w) \/ WritePrefix(w) => j.kind = job'[w].kind
  BY <1>2, <1>3, <1>4 DEF RetainOld, Replace, WritePrefix, Touch
<1>17. Unhide(w) \/ Redirect(w) \/ SetRules(w) \/ SetToken(w) => j.kind = job'[w].kind
  BY <1>2, <1>3, <1>4 DEF Unhide, Redirect, SetRules, SetToken, Store, Access
<1>18. LoadJournal(w) => j.kind = job'[w].kind
  BY <1>2, <1>3, <1>4 DEF LoadJournal, Load, Access, JobFields
<1>19. Capture(w) \/ Shield(w) \/ Save(w) => j.kind = job'[w].kind
  <2>1. Capture(w) => j.kind = job'[w].kind
    BY <1>2, <1>3, <1>4 DEF Capture, Store, Access, JobFields
  <2>2. Shield(w) => j.kind = job'[w].kind
    BY <1>2, <1>3, <1>4 DEF Shield, Access, JobFields
  <2> DEFINE q == [To(w, "protect") EXCEPT !.flag = 1, !.id = j.value]
  <2>3. same(q) BY <1>4 DEF JobFields
  <2>4. Save(w) => job'[w] \in {q, To(w, "restoring"), Quit(j)}
    BY <1>2 DEF Save, Store, Access
  <2> HIDE DEF q
  <2> QED BY <1>3, <1>4, <2>1, <2>2, <2>3, <2>4
<1>20. Retain(w) => j.kind = job'[w].kind
  BY <1>1, <1>2, <1>3, <1>4 DEF Retain, Touch, JobFields
<1>21. Protect(w) \/ SetFlag(w) => j.kind = job'[w].kind
  BY <1>2, <1>3, <1>4 DEF Protect, SetFlag, Touch, Access, JobFields
<1>22. Open(w) => j.kind = job'[w].kind
  BY <1>1, <1>2, <1>4 DEF Open, Quit, JobFields
<1>23. Activate(w) \/ Finish(w) => j.kind = job'[w].kind
  BY <1>2, <1>3 DEF Activate, Finish, Store, Access, JobFields
<1>24. \A t : same(NextCandidate([j EXCEPT !.todo = t]))
  BY <1>1 DEF NextCandidate, JobFields
<1>25. Candidates(w) \/ CommitPublication(w) => j.kind = job'[w].kind
  BY <1>2, <1>3, <1>24 DEF Candidates, CommitPublication, Load, Access, Commit
<1>26. Publishing(w) \/ MarkPublishing(w) => j.kind = job'[w].kind
  BY <1>2, <1>3, <1>4 DEF Publishing, MarkPublishing, Load, Store, Access, JobFields
<1>27. Precheck(w) => j.kind = job'[w].kind
  BY <1>2, <1>3, <1>4 DEF Precheck, Load, Access
<1>28. ~(Discarding(w) /\ ~Precheck(w))
  BY Doing
  DEF Discarding, Check, Compare, BeginRestoring, RestoreFiles, RestoreProperties,
      RestoreViews, RestoreRules, RestorePrefix, At
<1> QED
  BY <1>6, <1>7, <1>8, <1>9, <1>10, <1>11, <1>12, <1>13, <1>14, <1>15, <1>16, <1>17, <1>18,
     <1>19, <1>20, <1>21, <1>22, <1>23, <1>25, <1>26, <1>27, <1>28
  DEF JobStep, Serving, Freezing

(* Between its comparison and the journal a restoration means to begin.     *)
Seeing == {"retain", "shield", "save", "restoring"}
Intent(r) == r.kind = "restore" /\ r.step \in Seeing

(* A restoration that means to begin has compared, and keeps its preview.   *)
LEMMA IntentsAreCompared ==
    ASSUME IInv, NEW w \in Workers, JobStep(w), Intent(job'[w])
    PROVE  /\ job'[w].seen = job[w].seen
           /\ Intent(job[w]) \/ (Compare(w) /\ AsPreviewed(job[w]))
<1> DEFINE j == job[w]
           goal == /\ job'[w].seen = job[w].seen
                   /\ Intent(job[w]) \/ (Compare(w) /\ AsPreviewed(job[w]))
<1>1. DOMAIN job = Workers /\ DOMAIN j = JobFields BY Known DEF IInv, Shape
<1>2. \A r : Become(w, r) => job'[w] = r BY <1>1 DEF Become
<1>3. Quit(j).step \notin Seeing BY Quitting DEF Outside, Seeing
<1>4. \A t : To(w, t).step = t /\ DOMAIN To(w, t) = JobFields BY Going
<1>5. \A t : To(w, t).seen = j.seen /\ To(w, t).kind = j.kind BY <1>1 DEF To, JobFields
<1>6. Ended(w).step \notin Seeing BY Ending DEF Outside, Seeing
<1>7. j.kind = "restore" BY OthersStayOthers DEF Intent
<1>8. ~Queue(w) BY <1>1, <1>3, <1>4 DEF Queue, Seeing, Intent
<1>9. ~Granted(w) BY <1>2, <1>4, <1>7 DEF Granted, Seeing, Intent
<1>10. ~Abandon(w) BY <1>2, <1>3 DEF Abandon, Intent
<1>11. ~Join(w) BY <1>7 DEF Join, Edits
<1>12. ~Return(w) BY <1>2, <1>4, <1>6 DEF Return, Seeing, Intent
<1>13. ~Leave(w) BY <1>2, <1>6, <1>7 DEF Leave, Edits, Intent
<1>14. ~Editing(w) /\ ~Editable(w)
  BY <1>7, Doing
  DEF Editing, Editable, Begin, ReadFlag, WriteStatic, CommitSave, RetainOld, Replace, Unhide,
      Redirect, SetRules, ReadRules, WritePrefix, SetToken, At, Changing, Edits
<1>15. ~LoadJournal(w) /\ ~Capture(w) /\ ~Activate(w) /\ ~Candidates(w)
       /\ ~CommitPublication(w) /\ ~Publishing(w) /\ ~MarkPublishing(w)
  BY <1>7, Doing
  DEF LoadJournal, Capture, Activate, Candidates, CommitPublication, Publishing, MarkPublishing,
      At
<1>16. Retain(w) => goal
  BY <1>1, <1>2, <1>3, <1>5, <1>7 DEF Retain, Touch, At, JobFields, Seeing, Intent
<1>17. Shield(w) => goal
  BY <1>2, <1>3, <1>4, <1>5, <1>7 DEF Shield, Access, At, JobFields, Seeing, Intent
<1>18. Save(w) => goal
  BY <1>2, <1>3, <1>5, <1>7 DEF Save, Store, Access, At, Seeing, Intent
<1>19. ~Protect(w) /\ ~SetFlag(w)
  BY <1>2, <1>3, <1>4 DEF Protect, SetFlag, Touch, Access, JobFields, Seeing, Intent
<1>20. ~Open(w)
  <2> DEFINE q == [j EXCEPT !.guard = FALSE]
             after(t) == [To(w, t) EXCEPT !.guard = FALSE]
  <2>1. Quit(q).step \notin Seeing BY <1>1 DEF Quit, JobFields, Seeing
  <2>2. \A t : after(t).step = t BY <1>4 DEF JobFields
  <2>3. Open(w) => job'[w] \in {Quit(q), after("activate"), after("finish")} BY <1>2 DEF Open
  <2> HIDE DEF q, after
  <2> QED BY <2>1, <2>2, <2>3 DEF Seeing, Intent
<1>21. ~Finish(w)
  BY <1>1, <1>2, <1>3, Quitting DEF Finish, Store, Access, Like, JobFields, Intent
<1>22. ~Precheck(w) BY <1>2, <1>3, <1>4 DEF Precheck, Load, Access, Seeing, Intent
<1>23. \A q : DOMAIN q = JobFields => Restoring(q).step = "files" BY DEF Restoring, JobFields
<1>24. ~Check(w)
  <2> DEFINE q == [j EXCEPT !.taken = site.points[site.from]]
  <2>1. DOMAIN q = JobFields BY <1>1
  <2>2. Check(w) => job'[w] \in {Quit(j), Restoring(q), To(w, "compare")}
    BY <1>2 DEF Check, Load, Access
  <2> HIDE DEF q
  <2> QED BY <1>3, <1>4, <1>23, <2>1, <2>2 DEF Seeing, Intent
<1>25. Compare(w) => goal
  <2> DEFINE r == [To(w, "retain") EXCEPT !.taken = Captured,
                      !.todo = FileContents(Captured)]
  <2>1. r.seen = j.seen BY <1>4, <1>5 DEF JobFields
  <2>2. Compare(w) => (AsPreviewed(j) /\ Become(w, r)) \/ Become(w, Quit(j))
    BY DEF Compare, Load, Access
  <2> HIDE DEF r
  <2>3. ~Become(w, Quit(j)) BY <1>2, <1>3 DEF Intent
  <2> QED BY <1>2, <2>1, <2>2, <2>3
<1>26. ~BeginRestoring(w)
  BY <1>1, <1>2, <1>3, <1>23 DEF BeginRestoring, Store, Access, Seeing, Intent
<1>27. ~RestoreFiles(w)
  BY <1>1, <1>2, <1>3, <1>4 DEF RestoreFiles, Touch, At, JobFields, Seeing, Intent
<1>28. ~RestoreProperties(w) /\ ~RestoreViews(w) /\ ~RestoreRules(w) /\ ~RestorePrefix(w)
  BY <1>2, <1>3, <1>4
  DEF RestoreProperties, RestoreViews, RestoreRules, RestorePrefix, Store, Access, Touch,
      JobFields, Seeing, Intent
<1> QED
  BY <1>8, <1>9, <1>10, <1>11, <1>12, <1>13, <1>14, <1>15, <1>16, <1>17, <1>18, <1>19, <1>20,
     <1>21, <1>22, <1>24, <1>25, <1>26, <1>27, <1>28
  DEF JobStep, Serving, Editing, Freezing, Discarding

(* What a checkpoint is made of.                                            *)
Content == <<site.page, site.live, site.latest, site.props, site.hidden, disk.file,
             control.rules, control.token.id>>
TokenShape == DOMAIN control.token = {"id", "left"} /\ control.token.left \in {0, 1}

(* A link is a name and what is left of it.                                 *)
LEMMA TokenStays == IInv /\ TokenShape /\ [Next]_vars => TokenShape'
<1> SUFFICES ASSUME IInv, TokenShape, Next PROVE TokenShape'
  BY DEF TokenShape, vars, stores
<1> DEFINE kept == DOMAIN control'.token = {"id", "left"} /\ control'.token.left \in {0, 1}
<1>1. StoresOK /\ DOMAIN control.token = {"id", "left"} /\ control.token.left \in {0, 1}
  BY DEF IInv, Shape, StoresOK, TokenShape
<1>2. ASSUME NEW w \in Workers, Serving(w) PROVE kept
  BY <1>1, <1>2
  DEF Serving, Queue, Granted, Abandon, Join, Return, Leave, Editable, Begin, ReadFlag,
      WriteStatic, CommitSave, RetainOld, Replace, Unhide, Redirect, SetRules, ReadRules,
      WritePrefix, SetToken, Load, Store, Access, Touch, Commit, PublishPolicy, WritePolicy,
      SetSite, SetControl, SetDisk, Same, stores, StoresOK, ControlFields
<1>3. ASSUME NEW w \in Workers, Freezing(w) PROVE kept
  BY <1>1, <1>3
  DEF Freezing, LoadJournal, Capture, Retain, Shield, Save, Protect, SetFlag, Open, Activate,
      Finish, Candidates, CommitPublication, Publishing, MarkPublishing, Load, Store, Access,
      Touch, Commit, WritePolicy, SetSite, SetControl, SetDisk, Same, stores, StoresOK,
      ControlFields
<1>4. ASSUME NEW w \in Workers, Discarding(w) PROVE kept
  <2>1. CASE RestoreRules(w)
    <3>1. control' = control \/ control'.token = LiveToken(Base(w))
      BY <1>1, <2>1 DEF RestoreRules, Access, SetControl, Same, stores, StoresOK, ControlFields
    <3> QED BY <1>1, <3>1 DEF LiveToken
  <2>2. CASE ~RestoreRules(w)
    BY <1>1, <1>4, <2>2
    DEF Discarding, Precheck, Check, Compare, BeginRestoring, RestoreFiles, RestoreProperties,
        RestoreViews, RestorePrefix, Load, Store, Access, Touch, SetSite, SetDisk, Same, stores
  <2> QED BY <2>1, <2>2
<1>5. ASSUME Startup \/ Consume \/ Crash PROVE kept
  BY <1>1, <1>5
  DEF Startup, Scan, Refresh, Consume, Crash, Access, PublishPolicy, WritePolicy, SetControl,
      SetDisk, Same, stores, StoresOK, ControlFields
<1>6. ASSUME NEW w \in Calls, NEW kind, NEW p, Start(w, kind, p) PROVE kept
  BY <1>1, <1>6 DEF Start, stores
<1> QED BY <1>2, <1>3, <1>4, <1>5, <1>6 DEF Next, JobStep, TokenShape

(* A one-use link that was consumed, revoked or replaced is never usable    *)
(* again, whatever is restored beside its visitors                          *)
(* (restoreCheckpointProperties).                                           *)
THEOREM TokensNotRevivedAlways == Spec => TokensNotRevived
<1> DEFINE spent == \/ control'.token.id = control.token.id
                       /\ control'.token.left <= control.token.left
                    \/ control'.token = [id |-> 0, left |-> 0]
           kept  == control'.token = control.token
           made  == \E w \in Calls : job[w].kind = "link" /\ control'.token.id = job[w].value
           Never == \/ control'.token.id = control.token.id
                       /\ control'.token.left <= control.token.left
                    \/ control'.token = [id |-> 0, left |-> 0]
                    \/ \E w \in Calls : job[w].kind = "link" /\ control'.token.id = job[w].value
<1>1. ASSUME IInv, TokenShape, [Next]_vars PROVE spent \/ made
  <2>1. StoresOK /\ DOMAIN control.token = {"id", "left"} /\ control.token.left \in {0, 1}
    BY <1>1 DEF IInv, Shape, StoresOK, TokenShape
  <2>2. kept => spent BY <2>1
  <2>3. UNCHANGED vars => kept BY DEF vars, stores
  <2>4. ASSUME NEW w \in Workers, SetToken(w) PROVE spent \/ made
    <3>1. job[w].kind \in {"link", "revoke"} /\ (w = Recovery => job[w].kind \notin Edits)
      BY <1>1, <2>4, Known DEF SetToken, At, IInv, Placed
    <3>2. job[w].kind = "link" => w \in Calls BY <3>1 DEF Workers, Edits
    <3>3. CASE control' = control BY <2>2, <3>3
    <3>4. CASE control' = [control EXCEPT !.token = [id |-> 0, left |-> 0]]
      BY <2>1, <3>4 DEF StoresOK, ControlFields
    <3>5. CASE /\ job[w].kind = "link"
               /\ control' = [control EXCEPT !.token = [id |-> job[w].value, left |-> 1]]
      BY <2>1, <3>2, <3>5 DEF StoresOK, ControlFields
    <3> QED BY <2>4, <3>1, <3>3, <3>4, <3>5 DEF SetToken, Access, SetControl, Same, stores
  <2>5. ASSUME NEW w \in Workers, Serving(w), ~SetToken(w) PROVE kept
    BY <2>1, <2>5
    DEF Serving, Queue, Granted, Abandon, Join, Return, Leave, Editable, Begin, ReadFlag,
        WriteStatic, CommitSave, RetainOld, Replace, Unhide, Redirect, SetRules, ReadRules,
        WritePrefix, Load, Store, Access, Touch, Commit, PublishPolicy, WritePolicy,
        SetSite, SetControl, SetDisk, Same, stores, StoresOK, ControlFields
  <2>6. ASSUME NEW w \in Workers, Freezing(w) PROVE kept
    BY <2>1, <2>6
    DEF Freezing, LoadJournal, Capture, Retain, Shield, Save, Protect, SetFlag, Open, Activate,
        Finish, Candidates, CommitPublication, Publishing, MarkPublishing, Load, Store, Access,
        Touch, Commit, WritePolicy, SetSite, SetControl, SetDisk, Same, stores, StoresOK,
        ControlFields
  <2>7. ASSUME NEW w \in Workers, Discarding(w) PROVE spent
    <3>1. RestoreRules(w) => kept \/ control'.token = LiveToken(Base(w))
      BY <2>1 DEF RestoreRules, Access, SetControl, Same, stores, StoresOK, ControlFields
    <3>2. ~RestoreRules(w) => kept
      BY <2>7
      DEF Discarding, Precheck, Check, Compare, BeginRestoring, RestoreFiles, RestoreProperties,
          RestoreViews, RestorePrefix, Load, Store, Access, Touch, SetSite, SetDisk, Same, stores
    <3>3. control'.token = LiveToken(Base(w)) => spent BY <2>1 DEF LiveToken
    <3> QED BY <2>2, <3>1, <3>2, <3>3
  <2>8. ASSUME Startup \/ Crash PROVE kept
    BY <2>8
    DEF Startup, Scan, Refresh, Crash, Access, PublishPolicy, WritePolicy, SetDisk, Same, stores
  <2>9. ASSUME Consume PROVE spent
    BY <2>1, <2>9 DEF Consume, SetControl, StoresOK, ControlFields
  <2>10. ASSUME NEW w \in Calls, NEW kind, NEW p, Start(w, kind, p) PROVE kept
    BY <2>10 DEF Start, stores
  <2> HIDE DEF spent, made, kept
  <2> QED BY <1>1, <2>2, <2>3, <2>4, <2>5, <2>6, <2>7, <2>8, <2>9, <2>10 DEF Next, JobStep
<1>2. IInv /\ TokenShape /\ [Next]_vars => [Never]_vars BY <1>1
<1>3. Init => TokenShape BY DEF Init, TokenShape
<1>4. Spec => []TokenShape BY <1>3, TokenStays, InductiveInvariant, PTL DEF Spec
<1> HIDE DEF Never
<1>5. Spec => [][Never]_vars BY <1>2, <1>4, InductiveInvariant, PTL DEF Spec
<1> QED BY <1>5 DEF TokensNotRevived, Never

(* While a restoration means to begin, the site stays what it compared.     *)
LEMMA ContentsStay ==
    ASSUME IInv, DiskShape, TokenShape, Next, ~Crash, NEW w \in Workers, Intent(job[w])
    PROVE  Content' = Content
<1> DEFINE kept == Content' = Content
<1>1. holder[w] = "exclusive" BY DEF IInv, Leased, Intent, Seeing, Outside, Exclusive
<1>2. StoresOK /\ DOMAIN disk = DiskFields /\ DOMAIN control.token = {"id", "left"}
  BY DEF IInv, Shape, StoresOK, DiskShape, TokenShape
<1>3. UNCHANGED stores => kept BY DEF stores, Content
<1>4. ASSUME NEW v \in Workers, v # w, job[v].step \notin Outside
      PROVE  v = Recovery /\ job[v].kind = "publish"
  <2>1. holder[v] = "none" BY <1>1, <1>4 DEF IInv, Alone
  <2>2. job[v].kind \in Exclusive \cup Edits BY <1>4 DEF IInv, Placed, Exclusive
  <2> QED BY <1>4, <2>1, <2>2 DEF IInv, Leased
<1>5. ASSUME NEW v \in Workers, JobStep(v) PROVE kept
  <2>1. Queue(v) \/ Granted(v) \/ Abandon(v) \/ Join(v) \/ Return(v) => kept
    BY <1>3 DEF Queue, Granted, Abandon, Join, Return
  <2>2. Leave(v) => kept
    BY <1>2 DEF Leave, PublishPolicy, WritePolicy, SetDisk, Same, stores, Content, DiskFields
  <2>3. Editable(v) \/ LoadJournal(v) \/ Candidates(v) \/ Publishing(v) => kept
    BY <1>3 DEF Editable, LoadJournal, Candidates, Publishing, Load, Access, Same
  <2>4. Precheck(v) \/ Check(v) \/ Compare(v) => kept
    BY <1>3 DEF Precheck, Check, Compare, Load, Access, Same
  <2>5. ~Editing(v) /\ ~CommitPublication(v)
    <3>1. SUFFICES ASSUME job[v].step \in Changing PROVE FALSE
      BY DEF Editing, CommitPublication, Begin, ReadFlag, WriteStatic, CommitSave, RetainOld,
             Replace, Unhide, Redirect, SetRules, ReadRules, WritePrefix, SetToken, At, Changing
    <3>2. job[v].step \notin Outside BY <3>1 DEF Changing, Outside
    <3>3. v # w BY <3>1 DEF Intent, Seeing, Changing
    <3>4. v = Recovery /\ job[v].kind = "publish" BY <1>4, <3>2, <3>3
    <3> QED BY <3>1, <3>4, Known DEF Finishing, Changing
  <2>6. ~RestoreFiles(v) /\ ~RestoreProperties(v) /\ ~RestoreViews(v) /\ ~RestoreRules(v)
        /\ ~RestorePrefix(v)
    <3>1. SUFFICES ASSUME job[v].step \in {"files", "props", "views", "restore_rules",
                                           "restore_prefix"}
                   PROVE  FALSE
      BY DEF RestoreFiles, RestoreProperties, RestoreViews, RestoreRules, RestorePrefix, At
    <3>2. job[v].step \notin Outside BY <3>1 DEF Outside
    <3>3. v # w BY <3>1 DEF Intent, Seeing
    <3>4. job[v].kind = "restore" BY <3>1, Doing
    <3> QED BY <1>4, <3>2, <3>3, <3>4
  <2>7. Capture(v) \/ Retain(v) \/ Protect(v) => kept
    BY <1>2
    DEF Capture, Retain, Protect, Access, Touch, SetDisk, Same, stores, Content, DiskFields
  <2>8. Shield(v) \/ SetFlag(v) => kept
    BY <1>2
    DEF Shield, SetFlag, Access, SetControl, Same, stores, Content, StoresOK, ControlFields
  <2>9. Save(v) \/ Activate(v) => kept
    BY <1>2
    DEF Save, Saved, Activate, Activated, Store, Access, SetSite, Same, stores, Content,
        StoresOK, SiteFields
  <2>10. Finish(v) \/ MarkPublishing(v) \/ BeginRestoring(v) => kept
    BY <1>2
    DEF Finish, Finished, MarkPublishing, BeginRestoring, Activated, Store, Access, SetSite,
        Same, stores, Content, StoresOK, SiteFields
  <2>11. Open(v) => kept
    BY <1>2 DEF Open, WritePolicy, SetDisk, Same, stores, Content, DiskFields
  <2> QED
    BY <1>5, <2>1, <2>2, <2>3, <2>4, <2>5, <2>6, <2>7, <2>8, <2>9, <2>10, <2>11
    DEF JobStep, Serving, Editing, Freezing, Discarding
<1>6. Startup => kept
  BY <1>2
  DEF Startup, Scan, Refresh, Access, PublishPolicy, WritePolicy, SetDisk, Same, stores,
      Content, DiskFields
<1>7. Consume => kept
  BY <1>2 DEF Consume, SetControl, Content, StoresOK, ControlFields
<1>8. ASSUME NEW v \in Calls, NEW kind, NEW p, Start(v, kind, p) PROVE kept
  BY <1>3, <1>8 DEF Start
<1> QED BY <1>5, <1>6, <1>7, <1>8 DEF Next

(* What a restoration is about to discard is what its owner has seen.       *)
Compared == \A w \in Workers : Intent(job[w]) => job[w].seen = <<Captured>>

(* A comparison holds until the journal says so.                            *)
LEMMA ComparedKeeps ==
    IInv /\ DiskShape /\ TokenShape /\ Compared /\ [Next]_vars => Compared'
<1> SUFFICES ASSUME IInv, DiskShape, TokenShape, Compared, [Next]_vars,
                    NEW w \in Workers, Intent(job'[w])
             PROVE  job'[w].seen = <<Captured'>>
  BY DEF Compared, Intent
<1>1. Content' = Content => Captured' = Captured BY DEF Content, Captured
<1>2. CASE UNCHANGED vars
  <2>1. UNCHANGED <<stores, job>> BY <1>2 DEF vars
  <2>2. Captured' = Captured BY <1>1, <2>1 DEF stores, Content
  <2> QED BY <2>1, <2>2 DEF Compared
<1>3. CASE Next
  <2>1. DOMAIN job = Workers BY DEF IInv, Shape
  <2>2. ~Crash
    <3>1. Crash => job'[w].kind = "none" BY DEF Crash, Idle
    <3> QED BY <3>1 DEF Intent
  <2>3. ASSUME job'[w].seen = job[w].seen, Intent(job[w]) PROVE job'[w].seen = <<Captured'>>
    BY <1>1, <1>3, <2>2, <2>3, ContentsStay DEF Compared
  <2>4. ASSUME job'[w] = job[w] PROVE job'[w].seen = <<Captured'>>
    BY <2>3, <2>4
  <2>5. CASE Consume BY <2>4, <2>5 DEF Consume
  <2>6. CASE Startup
    <3>1. CASE w = Recovery
      <4>1. Resumed.step \in {"precheck", "publishing", "admit", "refresh"}
        BY DEF Resumed, Idle
      <4>2. Idle.step = "idle" /\ [Idle EXCEPT !.step = "refresh"].step = "refresh" BY DEF Idle
      <4>3. job'[w] \in {Resumed, Idle, [Idle EXCEPT !.step = "refresh"]}
        BY <2>1, <2>6, <3>1 DEF Startup, Scan, Refresh, Access, Become
      <4> QED BY <4>1, <4>2, <4>3 DEF Intent, Seeing
    <3>2. CASE w # Recovery
      BY <2>1, <2>4, <2>6, <3>2 DEF Startup, Scan, Refresh, Access, Become
    <3> QED BY <3>1, <3>2
  <2>7. ASSUME NEW v \in Calls, NEW kind, NEW p, Start(v, kind, p)
        PROVE  job'[w].seen = <<Captured'>>
    <3>1. CASE v = w
      <4>1. job'[w].step \in {"precheck", "admit"}
        BY <2>1, <2>7, <3>1 DEF Start, Become, Call, Idle
      <4> QED BY <4>1 DEF Intent, Seeing
    <3>2. CASE v # w BY <2>1, <2>4, <2>7, <3>2 DEF Start, Become
    <3> QED BY <3>1, <3>2
  <2>8. ASSUME NEW v \in Workers, JobStep(v) PROVE job'[w].seen = <<Captured'>>
    <3>1. CASE v = w /\ Intent(job[w]) BY <2>3, <2>8, <3>1, IntentsAreCompared
    <3>2. CASE v = w /\ ~Intent(job[w])
      <4>1. job'[w].seen = job[w].seen /\ Compare(w) /\ job[w].seen = <<Captured>>
        BY <2>8, <3>2, IntentsAreCompared DEF AsPreviewed
      <4>2. UNCHANGED stores BY <4>1 DEF Compare, Load, Access, Same
      <4>3. Captured' = Captured BY <1>1, <4>2 DEF stores, Content
      <4> QED BY <4>1, <4>3
    <3>3. CASE v # w /\ ~Queue(v) BY <2>1, <2>4, <2>8, <3>3, OnlyOne
    <3>4. CASE v # w /\ Queue(v)
      <4> DEFINE c == [job[w] EXCEPT !.canceled = TRUE]
      <4>1. job'[w] \in {job[w], c} BY <2>1, <3>4 DEF Queue
      <4>2. c.kind = job[w].kind /\ c.step = job[w].step /\ c.seen = job[w].seen
        BY Known DEF JobFields
      <4> HIDE DEF c
      <4> QED BY <2>3, <4>1, <4>2 DEF Intent
    <3> QED BY <3>1, <3>2, <3>3, <3>4
  <2> QED BY <1>3, <2>2, <2>5, <2>6, <2>7, <2>8 DEF Next
<1> QED BY <1>2, <1>3

(* A restoration never goes on with a comparison that no longer holds.      *)
LEMMA ComparedAlways == Spec => []Compared
<1>1. Init => DiskShape /\ TokenShape BY DEF Init, DiskShape, DiskFields, TokenShape
<1>2. Init => Compared BY DEF Init, Idle, Compared, Intent
<1> QED BY <1>1, <1>2, DiskStays, TokenStays, ComparedKeeps, InductiveInvariant, PTL DEF Spec

(* Edits are discarded only when the site is just what the owner previewed: *)
(* work that arrives between the preview, the wait for editors and the      *)
(* journal entry stops the restoration (sitefreeze.Compare).                *)
THEOREM NothingUnseenDiscardedAlways == Spec => NothingUnseenDiscarded
<1> DEFINE Seen(w) == (site.stage # "restoring" /\ site'.stage = "restoring" /\ job'[w] # job[w])
                        => job[w].seen = <<Captured>>
<1>1. ASSUME IInv, Compared, [Next]_vars, NEW w \in Calls PROVE Seen(w)
  <2> SUFFICES ASSUME site.stage # "restoring", site'.stage = "restoring", job'[w] # job[w]
               PROVE  job[w].seen = <<Captured>>
    OBVIOUS
  <2>1. w \in Workers /\ DOMAIN job = Workers BY <1>1 DEF Workers, IInv, Shape
  <2>2. StoresOK BY <1>1 DEF IInv, Shape, StoresOK
  <2>3. Next BY <1>1 DEF vars
  <2>4. ~Crash /\ ~Consume /\ ~Startup
    BY DEF Crash, Consume, Startup, Scan, Refresh, Access, PublishPolicy, WritePolicy, SetControl,
           SetDisk, Same, stores
  <2>5. ~\E v \in Calls, kind \in DOMAIN left, p \in Pages : Start(v, kind, p)
    BY DEF Start, stores
  <2>6. PICK v \in Workers : JobStep(v) BY <2>3, <2>4, <2>5 DEF Next
  <2>7. BeginRestoring(v)
    <3>1. ~Queue(v) /\ ~Granted(v) /\ ~Abandon(v) /\ ~Join(v) /\ ~Return(v) /\ ~Leave(v)
      BY DEF Queue, Granted, Abandon, Join, Return, Leave, PublishPolicy, WritePolicy, SetDisk,
             Same, stores
    <3>2. ~Editing(v) /\ ~Editable(v) BY <1>1, EditingSettles DEF Settled
    <3>3. ~LoadJournal(v) /\ ~Capture(v) /\ ~Retain(v) /\ ~Shield(v) /\ ~Protect(v)
          /\ ~SetFlag(v) /\ ~Open(v) /\ ~Candidates(v) /\ ~Publishing(v)
      BY DEF LoadJournal, Capture, Retain, Shield, Protect, SetFlag, Open, Candidates, Publishing,
             Load, Access, Touch, WritePolicy, SetControl, SetDisk, Same, stores
    <3>4. ~Save(v) /\ ~Activate(v) /\ ~Finish(v) /\ ~MarkPublishing(v)
      BY <2>2 DEF Save, Saved, Activate, Finish, MarkPublishing, Activated, Finished, Store,
                  Access, SetSite, Same, stores, StoresOK, SiteFields
    <3>5. ~CommitPublication(v)
      BY <2>2 DEF CommitPublication, Commit, SetSite, SetDisk, StoresOK, SiteFields
    <3>6. ~Precheck(v) /\ ~Check(v) /\ ~Compare(v) /\ ~RestoreFiles(v) /\ ~RestorePrefix(v)
          /\ ~RestoreRules(v)
      BY DEF Precheck, Check, Compare, RestoreFiles, RestorePrefix, RestoreRules, Load, Access,
             Touch, SetControl, SetDisk, Same, stores
    <3>7. ~RestoreProperties(v) /\ ~RestoreViews(v)
      BY <2>2 DEF RestoreProperties, RestoreViews, Store, Access, SetSite, Same, stores, StoresOK,
                  SiteFields
    <3> QED
      BY <2>6, <3>1, <3>2, <3>3, <3>4, <3>5, <3>6, <3>7
      DEF JobStep, Serving, Editing, Freezing, Discarding
  <2>8. v = w BY <2>1, <2>7 DEF BeginRestoring, Store, Access, Become
  <2>9. Intent(job[w])
    BY <1>1, <2>1, <2>7, <2>8, Doing DEF BeginRestoring, At, Intent, Seeing
  <2> QED BY <1>1, <2>1, <2>9 DEF Compared
<1>2. IInv /\ Compared /\ [Next]_vars => [\A w \in Calls : Seen(w)]_vars BY <1>1
<1> HIDE DEF Seen
<1>3. Spec => [][\A w \in Calls : Seen(w)]_vars
  BY <1>2, ComparedAlways, InductiveInvariant, PTL DEF Spec
<1> QED BY <1>3 DEF NothingUnseenDiscarded, Seen
-----------------------------------------------------------------------------
(* What the stores hold *)

(* The elements of a finite set, one after the other.                       *)
LEMMA Listing ==
    ASSUME NEW S, IsFiniteSet(S)
    PROVE  SetToSeq(S) \in Seq(S) /\ Range(SetToSeq(S)) = S
<1> DEFINE n == Cardinality(S)
           f == SetToSeq(S)
<1>1. n \in Nat /\ ExistsBijection(1..n, S) BY FS_CardinalityType
<1>2. PICK g \in [1..n -> S] : IsInjective(g)
  BY <1>1 DEF ExistsBijection, Bijection, Injection
<1>3. f \in [1..n -> S] /\ IsInjective(f) BY <1>2 DEF SetToSeq
<1>4. f \in Injection(1..n, S) BY <1>3 DEF Injection
<1>5. IsFiniteSet(1..n) /\ Cardinality(1..n) = n BY <1>1, FS_Interval
<1>6. f \in Surjection(1..n, S) BY <1>4, <1>5, FS_Injection
<1>7. Range(f) = S BY <1>3, <1>6 DEF Range, Surjection
<1>8. f \in Seq(S) BY <1>1, <1>3, SeqDef
<1> QED BY <1>7, <1>8

(* The first of a list and the rest of it.                                  *)
LEMMA Heading ==
    ASSUME NEW S, NEW s \in Seq(S), s # <<>>
    PROVE  /\ Head(s) \in S /\ Tail(s) \in Seq(S)
           /\ Range(s) \subseteq {Head(s)} \cup Range(Tail(s))
<1>1. Head(s) \in S /\ Tail(s) \in Seq(S) BY HeadTailProperties
<1>2. ASSUME NEW i \in DOMAIN s PROVE s[i] = Head(s) \/ s[i] \in Range(Tail(s))
  <2>1. i \in 1..Len(s) BY <1>2, LenProperties
  <2>2. CASE i = 1 BY <2>2
  <2>3. CASE i # 1
    <3>1. Len(Tail(s)) = Len(s) - 1 /\ i - 1 \in 1..Len(Tail(s)) /\ Tail(s)[i - 1] = s[i]
      BY <2>1, <2>3
    <3>2. i - 1 \in DOMAIN Tail(s) BY <1>1, <3>1, LenProperties
    <3> QED BY <3>1, <3>2 DEF Range
  <2> QED BY <2>2, <2>3
<1> QED BY <1>1, <1>2 DEF Range

(* The contents a checkpoint refers to, as long as n versions were made.    *)
Sized(point, n) ==
    point \in [page : [Pages -> 0..n], live : [Pages -> 0..n], latest : [Pages -> 0..n],
               props : 0..n, file : 0..n, rules : 0..n, token : 0..n]
Retained(v, d) == v \in d.objects \cup {0}

(* A checkpoint the site can go back to.                                    *)
Sound(id, s, d) ==
    id \in DOMAIN s.points /\ \A p \in Pages : Retained(s.points[id].live[p], d)

Stages == {"none", "preparing", "frozen", "restoring", "publishing"}
SiteData(s, d, n) ==
    /\ s.page \in [Pages -> 0..n] /\ s.live \in [Pages -> 0..n] /\ s.latest \in [Pages -> 0..n]
    /\ s.props \in 0..n /\ s.hidden \subseteq Pages \cup {"file"} /\ s.stage \in Stages
    /\ s.stage # "none" => Sound(s.point, s, d)
    /\ s.stage = "restoring" => s.from \in DOMAIN s.points
    /\ \A id \in DOMAIN s.points : Sized(s.points[id], n) /\ Retained(s.points[id].file, d)

ControlData(c, n) ==
    /\ c.rules \in 0..n /\ c.token.id \in 0..n
    /\ \E k \in Nat : c.protection = 1..k

DiskData(d, n) ==
    d.file \in 0..n /\ d.static \in [Pages -> 0..n] /\ d.objects \subseteq 1..n

(* The checkpoint a call has loaded and will put into the journal.          *)
Based(r) ==
    \/ r.kind = "freeze" /\ r.step \in {"protect", "flag", "open", "activate"}
    \/ r.kind = "publish" /\ r.step = "mark"
    \/ r.kind = "restore" /\ r.step \in {"compare", "retain", "shield", "save", "restoring", "files",
                                         "props", "views", "restore_rules", "restore_prefix"}

(* What a call has captured is retained, but for what it has still to do.   *)
Coming(v, r, d) == Retained(v, d) \/ (r.step = "retain" /\ v \in Range(r.todo))
TakenData(r, d, n) ==
    /\ Sized(r.taken, n) /\ Coming(r.taken.file, r, d)
    /\ r.kind = "freeze" => \A p \in Pages : Coming(r.taken.live[p], r, d)

JobData(r, s, c, d, n) ==
    /\ r.kind \in Edits => r.value \in 1..n
    /\ r.kind = "publish" /\ r.step \in {"static", "commit"} => r.value \in 0..n
    /\ r.kind \in {"page", "import"} \/ r.step \in {"read_flag", "static", "commit"} =>
          r.todo \in Seq(Pages) /\ r.todo # <<>>
    /\ r.step = "commit" /\ r.flag = 0 => r.old \in 0..n
    /\ r.step = "retain" => r.todo \in Seq(1..n)
    /\ r.step \in {"retain", "shield", "save"} => TakenData(r, d, n)
    /\ r.step = "save" => r.value \in c.protection \ DOMAIN s.points
    /\ r.step = "restoring" => r.value \in DOMAIN s.points
    /\ Based(r) => Sound(r.id, s, d)

(* A call that holds a lease has not ended, and one that closed the barrier *)
(* has begun.                                                               *)
Entered(w, r, lease) ==
    /\ w \in Calls /\ r.kind \in Exclusive => r.begun
    /\ r.guard => (r.begun \/ w = Recovery) /\ r.step \notin {"precheck", "admit"}
    /\ lease # "none" => /\ r.step \notin {"idle", "scan", "refresh", "precheck", "admit", "turn"}
                         /\ r.step = "leave" => r.kind \in Edits

StoresData ==
    /\ version \in Nat
    /\ SiteData(site, disk, version) /\ ControlData(control, version) /\ DiskData(disk, version)
    /\ DOMAIN site.points \subseteq control.protection
DataInv ==
    /\ StoresData /\ DiskShape /\ TokenShape
    /\ \A w \in Workers : /\ JobData(job[w], site, control, disk, version)
                          /\ Entered(w, job[w], holder[w])

-----------------------------------------------------------------------------
(* The stores only gain versions, checkpoints, protection and objects.      *)
Extends(s, t) == \A id \in DOMAIN s.points : id \in DOMAIN t.points /\ t.points[id] = s.points[id]
Growing ==
    /\ version' \in Nat /\ version <= version' /\ Extends(site, site')
    /\ control.protection \subseteq control'.protection /\ disk.objects \subseteq disk'.objects

Stored == StoresData' /\ DiskShape' /\ TokenShape' /\ Growing

(* What was made before a version was made before a later one.              *)
LEMMA SizedGrows ==
    ASSUME NEW point, NEW n \in Nat, NEW m \in Nat, n <= m, Sized(point, n) PROVE Sized(point, m)
<1>1. 0..n \subseteq 0..m OBVIOUS
<1>2. [Pages -> 0..n] \subseteq [Pages -> 0..m] BY <1>1
<1> QED BY <1>1, <1>2 DEF Sized

(* What a call relies on stays when the stores grow.                        *)
LEMMA JobGrows ==
    ASSUME NEW r, NEW s, NEW c, NEW d, NEW n \in Nat, NEW t, NEW e, NEW g, NEW m \in Nat,
           JobData(r, s, c, d, n), n <= m, Extends(s, t), c.protection \subseteq e.protection,
           d.objects \subseteq g.objects, r.step = "save" => r.value \notin DOMAIN t.points
    PROVE  JobData(r, t, e, g, m)
<1>1. 0..n \subseteq 0..m /\ 1..n \subseteq 1..m OBVIOUS
<1>2. Seq(1..n) \subseteq Seq(1..m) BY <1>1, SeqMonotonic
<1>3. \A v : Retained(v, d) => Retained(v, g) BY DEF Retained
<1>4. TakenData(r, d, n) => TakenData(r, g, m) BY <1>3, SizedGrows DEF TakenData, Coming
<1>5. \A id : Sound(id, s, d) => Sound(id, t, g) BY <1>3 DEF Sound, Extends
<1> QED BY <1>1, <1>2, <1>4, <1>5 DEF JobData, Extends

(* The site stays in order while versions and objects are added.            *)
LEMMA SiteGrows ==
    ASSUME NEW s, NEW d, NEW n \in Nat, NEW g, NEW m \in Nat, SiteData(s, d, n), n <= m,
           d.objects \subseteq g.objects
    PROVE  SiteData(s, g, m)
<1>1. 0..n \subseteq 0..m OBVIOUS
<1>2. [Pages -> 0..n] \subseteq [Pages -> 0..m] BY <1>1
<1>3. \A v : Retained(v, d) => Retained(v, g) BY DEF Retained
<1>4. \A id : Sound(id, s, d) => Sound(id, s, g) BY <1>3 DEF Sound
<1> QED BY <1>1, <1>2, <1>3, <1>4, SizedGrows DEF SiteData

(* Only one call at a time saves a checkpoint.                              *)
LEMMA OneSaves ==
    ASSUME IInv, NEW w \in Workers, NEW v \in Workers, job[w].step = "save", job[v].step = "save"
    PROVE  v = w
<1>1. \A u \in Workers : job[u].step = "save" => holder[u] = "exclusive"
  BY Doing DEF IInv, Leased, Outside, Exclusive
<1> QED BY <1>1 DEF IInv, Alone

(* A worker moves on while the stores grow.                                 *)
LEMMA DataMoves ==
    ASSUME IInv, DataInv, NEW w \in Workers, NEW r, NEW h,
           job' = [job EXCEPT ![w] = r],
           holder' = [holder EXCEPT ![w] = h] \/ (holder' = holder /\ h = holder[w]),
           Stored, DOMAIN site'.points = DOMAIN site.points \/ job[w].step = "save",
           JobData(r, site', control', disk', version'), Entered(w, r, h)
    PROVE  DataInv'
<1>1. DOMAIN job = Workers /\ DOMAIN holder = Workers BY DEF IInv, Shape
<1>2. \A v \in Workers : /\ job'[v] = IF v = w THEN r ELSE job[v]
                         /\ holder'[v] = IF v = w THEN h ELSE holder[v]
  BY <1>1
<1>3. \A v \in Workers : Entered(v, job'[v], holder'[v]) BY <1>2 DEF DataInv
<1>4. ASSUME NEW v \in Workers, v # w PROVE JobData(job[v], site', control', disk', version')
  <2>1. JobData(job[v], site, control, disk, version) /\ version \in Nat
    BY DEF DataInv, StoresData
  <2>2. job[v].step = "save" => DOMAIN site'.points = DOMAIN site.points BY <1>4, OneSaves
  <2>3. job[v].step = "save" => job[v].value \notin DOMAIN site'.points
    BY <2>1, <2>2 DEF JobData
  <2> QED BY <2>1, <2>3, JobGrows DEF Growing, Stored
<1>5. \A v \in Workers : JobData(job'[v], site', control', disk', version') BY <1>2, <1>4
<1> QED BY <1>3, <1>5 DEF DataInv, Stored

(* The fields of a record that only goes to another step.                   *)
LEMMA GoingFields ==
    ASSUME IInv, NEW w \in Workers, NEW s
    PROVE  /\ DOMAIN To(w, s) = JobFields /\ To(w, s).step = s
           /\ To(w, s).kind = job[w].kind /\ To(w, s).id = job[w].id
           /\ To(w, s).taken = job[w].taken /\ To(w, s).todo = job[w].todo
           /\ To(w, s).flag = job[w].flag /\ To(w, s).value = job[w].value
           /\ To(w, s).old = job[w].old /\ To(w, s).begun = job[w].begun
           /\ To(w, s).guard = job[w].guard
BY Known DEF To, JobFields

(* The fields of a record that returns.                                     *)
LEMMA QuittingFields ==
    ASSUME IInv, NEW w \in Workers
    PROVE  /\ DOMAIN Quit(job[w]) = JobFields
           /\ Quit(job[w]).step = IF job[w].kind \in Edits THEN "leave" ELSE "return"
           /\ Quit(job[w]).kind = job[w].kind /\ Quit(job[w]).todo = job[w].todo
           /\ Quit(job[w]).value = job[w].value /\ Quit(job[w]).begun = job[w].begun
           /\ Quit(job[w]).guard = job[w].guard
BY Known DEF Quit, JobFields

(* Where nothing is asked of the stores, what a call was given suffices.    *)
Demanding == {"read_flag", "static", "commit", "retain", "shield", "save", "restoring"}
(* The plain record keeps to what the other one was given.                  *)
LEMMA PlainData ==
    ASSUME NEW j, NEW r, NEW s, NEW c, NEW d, NEW n, JobData(j, s, c, d, n),
           r.kind = j.kind, r.kind \in Edits => r.value = j.value /\ r.todo = j.todo,
           r.step \notin Demanding, Based(r) => Sound(r.id, s, d)
    PROVE  JobData(r, s, c, d, n)
BY DEF JobData, Demanding, Edits

(* A worker inside the stores goes on.                                      *)
LEMMA DataGoes ==
    ASSUME IInv, DataInv, NEW w \in Workers, job[w].step \notin Outside, NEW r, Moved(w, r),
           Stored, DOMAIN site'.points = DOMAIN site.points \/ job[w].step = "save",
           JobData(r, site', control', disk', version'),
           r.kind = job[w].kind, r.step \notin Outside, job[w].begun => r.begun,
           r.guard => job[w].guard \/ r.begun \/ w = Recovery
    PROVE  DataInv'
<1>1. Entered(w, job[w], holder[w]) BY DEF DataInv
<1>2. holder' = holder BY DEF Moved, gate
<1>3. Entered(w, r, holder[w]) BY <1>1 DEF Entered, Outside
<1> QED BY <1>2, <1>3, DataMoves DEF Moved

(* What was demanded of the stores still holds when a worker goes on.       *)
LEMMA DataProceeds ==
    ASSUME IInv, DataInv, NEW w \in Workers, job[w].step \notin Outside, NEW r, Moved(w, r),
           Stored, DOMAIN site'.points = DOMAIN site.points,
           JobData(r, site, control, disk, version), r.step # "save",
           r.kind = job[w].kind, r.step \notin Outside, job[w].begun => r.begun,
           r.guard => job[w].guard \/ r.begun \/ w = Recovery
    PROVE  DataInv'
<1>1. version \in Nat BY DEF DataInv, StoresData
<1>2. JobData(r, site', control', disk', version') BY <1>1, JobGrows DEF Growing, Stored
<1> QED BY <1>2, DataGoes

(* A handler returns, and leaves the stores in order.                       *)
LEMMA DataStops ==
    ASSUME IInv, DataInv, NEW w \in Workers, NEW r, Moved(w, r), Stored,
           DOMAIN site'.points = DOMAIN site.points \/ job[w].step = "save",
           r.kind = job[w].kind, r.step = IF r.kind \in Edits THEN "leave" ELSE "return",
           r.value = job[w].value, r.todo = job[w].todo, r.begun = job[w].begun,
           r.guard => job[w].guard
    PROVE  DataInv'
<1>1. version \in Nat BY DEF DataInv, StoresData
<1>2. JobData(job[w], site, control, disk, version) /\ Entered(w, job[w], holder[w])
  BY DEF DataInv
<1>3. Entered(w, r, holder[w]) BY <1>2 DEF Entered
<1>4. JobData(r, site, control, disk, version) BY <1>2, PlainData DEF Based, Demanding
<1>5. JobData(r, site', control', disk', version')
  BY <1>1, <1>4, JobGrows DEF Growing, Stored
<1>6. holder' = holder /\ job' = [job EXCEPT ![w] = r] BY DEF Moved, gate
<1> QED BY <1>3, <1>5, <1>6, DataMoves

(* It gives up anywhere.                                                    *)
LEMMA DataQuits ==
    ASSUME IInv, DataInv, NEW w \in Workers, Moved(w, Quit(job[w])), Stored,
           DOMAIN site'.points = DOMAIN site.points \/ job[w].step = "save"
    PROVE  DataInv'
BY QuittingFields, DataStops

(* One store changes, and the others do not.                                *)
LEMMA StoresStay ==
    ASSUME DataInv, UNCHANGED <<site, control, disk, version>>
    PROVE  Stored /\ DOMAIN site'.points = DOMAIN site.points
BY DEF DataInv, Stored, StoresData, Growing, Extends, DiskShape, TokenShape

(* Files change, and no object is removed.                                  *)
LEMMA DiskChanges ==
    ASSUME DataInv, UNCHANGED <<site, control, version>>, DOMAIN disk' = DiskFields,
           DiskData(disk', version), disk.objects \subseteq disk'.objects
    PROVE  Stored /\ DOMAIN site'.points = DOMAIN site.points
<1>1. version \in Nat /\ SiteData(site, disk, version) BY DEF DataInv, StoresData
<1>2. SiteData(site, disk', version) BY <1>1, SiteGrows
<1> QED BY <1>1, <1>2 DEF DataInv, Stored, StoresData, Growing, Extends, DiskShape, TokenShape

(* The content database changes, and keeps its checkpoints.                 *)
LEMMA SiteChanges ==
    ASSUME DataInv, UNCHANGED <<control, disk, version>>, SiteData(site', disk, version),
           Extends(site, site'), DOMAIN site'.points \subseteq control.protection
    PROVE  Stored
BY DEF DataInv, Stored, StoresData, Growing, DiskShape, TokenShape

(* The control database changes, and no protection is removed.              *)
LEMMA ControlChanges ==
    ASSUME DataInv, UNCHANGED <<site, disk, version>>, ControlData(control', version),
           TokenShape', control.protection \subseteq control'.protection
    PROVE  Stored /\ DOMAIN site'.points = DOMAIN site.points
BY DEF DataInv, Stored, StoresData, Growing, Extends, DiskShape

(* The journal moves to another stage.                                      *)
LEMMA JournalChanges ==
    ASSUME DataInv, UNCHANGED <<control, disk, version>>,
           site'.page = site.page, site'.live = site.live, site'.latest = site.latest,
           site'.props = site.props, site'.hidden = site.hidden, site'.points = site.points,
           site'.stage \in Stages, site'.stage # "none" => Sound(site'.point, site, disk),
           site'.stage = "restoring" => site'.from \in DOMAIN site.points
    PROVE  Stored /\ DOMAIN site'.points = DOMAIN site.points
<1>1. SiteData(site, disk, version) /\ DOMAIN site.points \subseteq control.protection
  BY DEF DataInv, StoresData
<1>2. \A id : Sound(id, site, disk) => Sound(id, site', disk) BY DEF Sound
<1>3. SiteData(site', disk, version) BY <1>1, <1>2 DEF SiteData
<1> QED BY <1>1, <1>3, SiteChanges DEF Extends

(* The site changes, and the journal does not.                              *)
LEMMA ContentChanges ==
    ASSUME DataInv, UNCHANGED <<control, disk, version>>,
           site'.page \in [Pages -> 0..version], site'.live \in [Pages -> 0..version],
           site'.latest \in [Pages -> 0..version], site'.props \in 0..version,
           site'.hidden \subseteq Pages \cup {"file"}, site'.points = site.points,
           site'.stage = site.stage, site'.point = site.point, site'.from = site.from
    PROVE  Stored /\ DOMAIN site'.points = DOMAIN site.points
<1>1. SiteData(site, disk, version) /\ DOMAIN site.points \subseteq control.protection
  BY DEF DataInv, StoresData
<1>2. \A id : Sound(id, site, disk) => Sound(id, site', disk) BY DEF Sound
<1>3. SiteData(site', disk, version) BY <1>1, <1>2 DEF SiteData
<1> QED BY <1>1, <1>3, SiteChanges DEF Extends

(* A policy says nothing of the files it allows.                            *)
LEMMA PolicyChanges ==
    ASSUME DataInv, UNCHANGED <<site, control, version>>,
           \/ disk' = disk
           \/ \E policy, blocked : disk' = [disk EXCEPT !.policy = policy, !.blocked = blocked]
    PROVE  Stored /\ DOMAIN site'.points = DOMAIN site.points
<1>1. DOMAIN disk = DiskFields /\ DiskData(disk, version)
  BY DEF DataInv, StoresData, DiskShape
<1>2. /\ DOMAIN disk' = DiskFields /\ disk'.file = disk.file /\ disk'.static = disk.static
      /\ disk'.objects = disk.objects
  BY <1>1 DEF DiskFields
<1> QED BY <1>1, <1>2, DiskChanges DEF DiskData

-----------------------------------------------------------------------------
(* What a checkpoint captures was made, and is listed.                      *)
LEMMA CapturedData ==
    ASSUME DataInv, IInv
    PROVE  Sized(Captured, version)
<1>1. /\ site.page \in [Pages -> 0..version] /\ site.live \in [Pages -> 0..version]
      /\ site.latest \in [Pages -> 0..version] /\ site.props \in 0..version
      /\ control.rules \in 0..version /\ control.token.id \in 0..version
      /\ disk.file \in 0..version /\ 0 \in 0..version
  BY DEF DataInv, StoresData, SiteData, ControlData, DiskData
<1> QED BY <1>1 DEF Captured, Sized

(* The contents that are retained for a checkpoint are what it refers to.   *)
LEMMA ContentsData ==
    ASSUME NEW point, NEW n \in Nat, Sized(point, n)
    PROVE  /\ Contents(point) \in Seq(1..n) /\ FileContents(point) \in Seq(1..n)
           /\ point.file # 0 => point.file \in Range(Contents(point)) \cap Range(FileContents(point))
           /\ \A p \in Pages : point.live[p] # 0 => point.live[p] \in Range(Contents(point))
<1> DEFINE live == {point.live[p] : p \in Pages}
           all  == ({point.file} \cup live) \ {0}
<1>1. point.file \in 0..n /\ \A p \in Pages : point.live[p] \in 0..n BY DEF Sized
<1>2. IsFiniteSet(live)
  <2> DEFINE f == [p \in Pages |-> point.live[p]]
  <2>1. f \in Surjection(Pages, live) BY DEF Surjection
  <2> QED BY <2>1, FreezeAssumption, FS_Surjection
<1>3. IsFiniteSet(all) /\ IsFiniteSet({point.file} \ {0})
  BY <1>2, FS_Singleton, FS_Union, FS_Difference
<1>4. all \subseteq 1..n /\ {point.file} \ {0} \subseteq 1..n BY <1>1
<1>5. /\ Contents(point) \in Seq(all) /\ Range(Contents(point)) = all
      /\ FileContents(point) \in Seq({point.file} \ {0})
      /\ Range(FileContents(point)) = {point.file} \ {0}
  BY <1>3, Listing DEF Contents, FileContents
<1> QED BY <1>4, <1>5, SeqMonotonic

(* The steps of the calls make no version.                                  *)
LEMMA VersionStays ==
    ASSUME NEW w \in Workers, JobStep(w) PROVE version' = version
BY DEF JobStep, Serving, Freezing, Discarding, Queue, Granted, Abandon, Join, Return, Leave,
       Editable, Begin, ReadFlag, WriteStatic, CommitSave, RetainOld, Replace, Unhide, Redirect,
       SetRules, ReadRules, WritePrefix, SetToken, LoadJournal, Capture, Retain, Shield, Save,
       Protect, SetFlag, Open, Activate, Finish, Candidates, CommitPublication, Publishing,
       MarkPublishing, Precheck, Check, Compare, BeginRestoring, RestoreFiles,
       RestoreProperties, RestoreViews, RestoreRules, RestorePrefix, Load, Store, Access, Touch,
       Commit, Frame

(* What a call may rely on.                                                 *)
LEMMA DataKnown ==
    ASSUME IInv, DataInv, NEW w \in Workers
    PROVE  /\ version \in Nat /\ SiteData(site, disk, version) /\ ControlData(control, version)
           /\ DiskData(disk, version) /\ DOMAIN site.points \subseteq control.protection
           /\ DOMAIN disk = DiskFields
           /\ JobData(job[w], site, control, disk, version) /\ Entered(w, job[w], holder[w])
BY DEF DataInv, StoresData, DiskShape

(* A publication goes through its candidates.                               *)
LEMMA CandidatesData ==
    ASSUME IInv, DataInv, NEW w \in Workers, job[w].kind = "publish", job[w].step \notin Outside,
           NEW t \in Seq(Pages), Moved(w, NextCandidate([job[w] EXCEPT !.todo = t])),
           Stored, DOMAIN site'.points = DOMAIN site.points
    PROVE  DataInv'
<1> DEFINE q == [job[w] EXCEPT !.todo = t]
           r == NextCandidate(q)
<1>1. /\ DOMAIN q = JobFields /\ q.kind = "publish" /\ q.todo = t /\ q.begun = job[w].begun
      /\ q.guard = job[w].guard
  BY Known DEF JobFields
<1> HIDE DEF q
<1>2. t = <<>> => r = [q EXCEPT !.step = "publishing"] BY <1>1 DEF NextCandidate
<1>3. t # <<>> => r = [q EXCEPT !.step = "static", !.value = site.page[Head(t)]]
  BY <1>1 DEF NextCandidate
<1>4. t # <<>> => Head(t) \in Pages BY Heading
<1>5. site.page \in [Pages -> 0..version] BY DataKnown DEF SiteData
<1> HIDE DEF r
<1>6. r.kind = "publish" /\ r.todo = t /\ r.begun = job[w].begun /\ r.guard = job[w].guard
  BY <1>1, <1>2, <1>3 DEF JobFields
<1>7. t = <<>> => r.step = "publishing" BY <1>1, <1>2 DEF JobFields
<1>8. t # <<>> => r.step = "static" /\ r.value \in 0..version
  <2>1. {"step", "value"} \subseteq DOMAIN q BY <1>1 DEF JobFields
  <2>2. t # <<>> => site.page[Head(t)] \in 0..version BY <1>4, <1>5
  <2> QED BY <2>1, <2>2, <1>3
<1>9. JobData(r, site, control, disk, version)
  BY <1>6, <1>7, <1>8 DEF JobData, Based, Edits
<1>10. r.step \notin Outside /\ r.step # "save" BY <1>7, <1>8 DEF Outside
<1> QED BY <1>6, <1>9, <1>10, DataProceeds DEF r, q

(* The calls that take or finish a checkpoint keep the stores in order.     *)
LEMMA FreezingData ==
    ASSUME IInv, DataInv, NEW w \in Workers, Freezing(w)
    PROVE  DataInv'
<1> DEFINE j == job[w]
           n == version
           still == DOMAIN site'.points = DOMAIN site.points
<1>1. version' = version BY VersionStays DEF JobStep
<1>2. UNCHANGED <<site, control, disk>> => Stored /\ still BY <1>1, StoresStay
<1>3. CASE LoadJournal(w)
  <2> DEFINE r == IF site.stage # "none"
                  THEN [To(w, "protect") EXCEPT !.flag = 1, !.id = site.point]
                  ELSE To(w, "capture")
  <2>1. j.kind = "freeze" /\ j.step = "journal" BY <1>3, Doing DEF LoadJournal, At
  <2>2. UNCHANGED <<site, control, disk>> /\ (Moved(w, Quit(j)) \/ Moved(w, r))
    BY <1>3 DEF LoadJournal, Load, Access, Same, stores, Become, Frame, Moved, Quit
  <2>3. /\ r.kind = j.kind /\ r.begun = j.begun /\ r.guard = j.guard
        /\ r.step \in {"protect", "capture"}
        /\ r.step = "protect" => site.stage # "none" /\ r.id = site.point
    BY GoingFields DEF JobFields
  <2> HIDE DEF r
  <2>4. Based(r) => Sound(r.id, site, disk)
    BY <2>1, <2>3, DataKnown DEF SiteData, Based
  <2>5. JobData(r, site, control, disk, n)
    BY <2>1, <2>3, <2>4, DataKnown, PlainData DEF Edits, Demanding
  <2> QED BY <1>2, <2>1, <2>2, <2>3, <2>5, DataProceeds, DataQuits DEF Outside
<1>4. CASE Capture(w)
  <2> DEFINE d == [disk EXCEPT !.versioned = TRUE]
             r == [To(w, "retain") EXCEPT !.taken = Captured, !.todo = Contents(Captured)]
  <2>1. j.kind = "freeze" /\ j.step = "capture" BY <1>4, Doing DEF Capture, At
  <2>2. UNCHANGED <<site, control>> /\ disk' \in {disk, d} /\ (Moved(w, Quit(j)) \/ Moved(w, r))
    BY <1>4 DEF Capture, Access, Same, SetDisk, stores, Become, Frame, Moved
  <2>3. /\ r.kind = "freeze" /\ r.begun = j.begun /\ r.guard = j.guard /\ r.step = "retain"
        /\ r.taken = Captured /\ r.todo = Contents(Captured)
    BY <2>1, GoingFields DEF JobFields
  <2>4. /\ DOMAIN d = DiskFields /\ d.file = disk.file /\ d.static = disk.static
        /\ d.objects = disk.objects
    BY DataKnown DEF DiskFields
  <2> HIDE DEF r, d
  <2>5. Stored /\ still BY <1>1, <2>2, <2>4, DataKnown, DiskChanges DEF DiskData
  <2>6. /\ Sized(r.taken, n) /\ r.todo \in Seq(1..n)
        /\ r.taken.file # 0 => r.taken.file \in Range(r.todo)
        /\ \A p \in Pages : r.taken.live[p] # 0 => r.taken.live[p] \in Range(r.todo)
    BY <2>3, CapturedData, ContentsData, DataKnown
  <2>7. TakenData(r, disk, n) BY <2>3, <2>6 DEF TakenData, Coming, Retained
  <2>8. JobData(r, site, control, disk, n)
    BY <2>3, <2>6, <2>7 DEF JobData, Based, Edits
  <2> QED BY <2>1, <2>2, <2>3, <2>5, <2>8, DataProceeds, DataQuits DEF Outside
<1>5. CASE Retain(w)
  <2>1. j.kind \in {"freeze", "restore"} /\ j.step = "retain" BY <1>5, Doing DEF Retain, At
  <2>2. /\ j.todo \in Seq(1..n) /\ TakenData(j, disk, n)
        /\ Based(j) => Sound(j.id, site, disk)
    BY <2>1, DataKnown DEF JobData
  <2>3. CASE j.todo = <<>>
    <3> DEFINE r == To(w, "shield")
    <3>1. UNCHANGED <<site, control, disk>> /\ Moved(w, r)
      BY <1>5, <2>3 DEF Retain, stores, Become, Frame, Moved
    <3>2. /\ r.kind = j.kind /\ r.begun = j.begun /\ r.guard = j.guard /\ r.step = "shield"
          /\ r.taken = j.taken /\ r.id = j.id
      BY GoingFields
    <3> HIDE DEF r
    <3>3. Range(j.todo) = {} BY <2>3 DEF Range
    <3>4. TakenData(r, disk, n) BY <2>2, <3>2, <3>3 DEF TakenData, Coming
    <3>5. Based(r) => Based(j) BY <2>1, <3>2 DEF Based
    <3>6. JobData(r, site, control, disk, n)
      BY <2>1, <2>2, <3>2, <3>4, <3>5 DEF JobData, Edits
    <3> QED BY <1>2, <2>1, <3>1, <3>2, <3>6, DataProceeds DEF Outside
  <2>4. CASE j.todo # <<>>
    <3> DEFINE v == Head(j.todo)
               d == [disk EXCEPT !.objects = @ \cup {v}]
               r == [j EXCEPT !.todo = Tail(@)]
    <3>1. /\ UNCHANGED <<site, control>>
          /\ (disk' = d /\ Moved(w, r)) \/ (disk' = disk /\ Moved(w, Quit(j)))
      BY <1>5, <2>4 DEF Retain, Touch, SetDisk, Same, stores, Become, Frame, Moved, Target
    <3>2. /\ v \in 1..n /\ Tail(j.todo) \in Seq(1..n)
          /\ Range(j.todo) \subseteq {v} \cup Range(Tail(j.todo))
      BY <2>2, <2>4, Heading
    <3>3. /\ r.kind = j.kind /\ r.begun = j.begun /\ r.guard = j.guard /\ r.step = "retain"
          /\ r.taken = j.taken /\ r.id = j.id /\ r.todo = Tail(j.todo)
      BY <2>1, Known DEF JobFields
    <3>4. /\ DOMAIN d = DiskFields /\ d.file = disk.file /\ d.static = disk.static
          /\ d.objects = disk.objects \cup {v}
      BY DataKnown DEF DiskFields
    <3> HIDE DEF r, d, v
    <3>5. CASE disk' = disk /\ Moved(w, Quit(j)) BY <1>2, <2>1, <3>1, <3>5, DataQuits DEF Outside
    <3>6. CASE disk' = d /\ Moved(w, r)
      <4>1. Stored /\ still
        BY <1>1, <3>1, <3>2, <3>4, <3>6, DataKnown, DiskChanges DEF DiskData
      <4>2. \A x : Coming(x, j, disk) => Coming(x, r, d)
        BY <2>1, <3>2, <3>3, <3>4 DEF Coming, Retained
      <4>3. TakenData(r, d, n) BY <2>2, <3>3, <4>2 DEF TakenData
      <4>4. Based(r) => Sound(r.id, site, d)
        BY <2>1, <2>2, <3>3, <3>4 DEF Based, Sound, Retained
      <4>5. JobData(r, site, control, d, n)
        BY <2>1, <3>2, <3>3, <4>3, <4>4 DEF JobData, Edits
      <4>6. JobData(r, site', control', disk', version') BY <1>1, <3>1, <3>6, <4>5
      <4> QED BY <2>1, <3>3, <3>6, <4>1, <4>6, DataGoes DEF Outside
    <3> QED BY <3>1, <3>5, <3>6
  <2> QED BY <2>3, <2>4
<1>6. CASE Shield(w)
  <2> DEFINE id == Cardinality(control.protection) + 1
             r == [To(w, "save") EXCEPT !.value = id]
             c == [control EXCEPT !.protection = @ \cup {id}]
  <2>1. j.kind \in {"freeze", "restore"} /\ j.step = "shield" BY <1>6, Doing DEF Shield, At
  <2>2. /\ UNCHANGED <<site, disk>>
        /\ (control' = c /\ Moved(w, r)) \/ (control' \in {control, c} /\ Moved(w, Quit(j)))
    BY <1>6 DEF Shield, Access, Same, SetControl, stores, Become, Frame, Moved
  <2>3. PICK k \in Nat : control.protection = 1..k BY DataKnown DEF ControlData
  <2>4. id = k + 1 BY <2>3, FS_Interval
  <2>5. control.protection \cup {id} = 1..(k + 1) BY <2>3, <2>4
  <2>6. /\ c.rules = control.rules /\ c.token = control.token /\ DOMAIN c = ControlFields
        /\ c.protection = 1..(k + 1)
    BY <2>5, Known DEF StoresOK, ControlFields
  <2>7. /\ r.kind = j.kind /\ r.begun = j.begun /\ r.guard = j.guard /\ r.step = "save"
        /\ r.taken = j.taken /\ r.id = j.id /\ r.value = k + 1
    BY <2>4, GoingFields DEF JobFields
  <2> HIDE DEF r, c
  <2>8. ControlData(c, n)
    <3>1. k + 1 \in Nat BY <2>3
    <3> QED BY <2>6, <3>1, DataKnown DEF ControlData
  <2>9. control' \in {control, c} => Stored /\ still
    <3>1. TokenShape BY DEF DataInv
    <3>2. control' = c => Stored /\ still
      <4>1. control.protection \subseteq c.protection BY <2>3, <2>6
      <4> QED BY <1>1, <2>2, <2>6, <2>8, <3>1, <4>1, ControlChanges DEF TokenShape
    <3> QED BY <1>2, <2>2, <3>2
  <2>10. CASE Moved(w, Quit(j)) BY <2>1, <2>2, <2>9, <2>10, DataQuits DEF Outside
  <2>11. CASE control' = c /\ Moved(w, r)
    <3>1. TakenData(j, disk, n) /\ (Based(j) => Sound(j.id, site, disk))
      BY <2>1, DataKnown DEF JobData
    <3>2. TakenData(r, disk, n) BY <2>1, <2>7, <3>1 DEF TakenData, Coming
    <3>3. Based(r) => Sound(r.id, site, disk) BY <2>1, <2>7, <3>1 DEF Based
    <3>4. k + 1 \in c.protection \ DOMAIN site.points
      <4>1. DOMAIN site.points \subseteq 1..k BY <2>3, DataKnown
      <4> QED BY <2>3, <2>6, <4>1
    <3>5. JobData(r, site, c, disk, n)
      BY <2>1, <2>7, <3>2, <3>3, <3>4 DEF JobData, Edits
    <3>6. JobData(r, site', control', disk', version') BY <1>1, <2>2, <2>11, <3>5
    <3> QED BY <2>1, <2>7, <2>9, <2>11, <3>6, DataGoes DEF Outside
  <2> QED BY <2>2, <2>10, <2>11
<1>7. CASE Save(w)
  <2> DEFINE s == IF j.kind = "freeze"
                  THEN [Saved(w) EXCEPT !.stage = "preparing", !.point = j.value]
                  ELSE Saved(w)
             r == IF j.kind = "freeze"
                  THEN [To(w, "protect") EXCEPT !.flag = 1, !.id = j.value]
                  ELSE To(w, "restoring")
  <2>1. j.kind \in {"freeze", "restore"} /\ j.step = "save" BY <1>7, Doing DEF Save, At
  <2>2. UNCHANGED <<control, disk>> /\ site' \in {site, s}
    BY <1>7 DEF Save, Store, Access, Same, SetSite, stores
  <2>3. (site' = s /\ Moved(w, r)) \/ Moved(w, Quit(j))
    BY <1>7 DEF Save, Store, Access, Same, SetSite, Become, Frame, Moved, Quit
  <2>4. /\ TakenData(j, disk, n) /\ (Based(j) => Sound(j.id, site, disk))
        /\ j.value \in control.protection \ DOMAIN site.points
    BY <2>1, DataKnown DEF JobData
  <2>5. /\ s.page = site.page /\ s.live = site.live /\ s.latest = site.latest
        /\ s.props = site.props /\ s.hidden = site.hidden /\ s.from = site.from
        /\ s.points = With(site.points, j.value, j.taken)
        /\ s.stage = IF j.kind = "freeze" THEN "preparing" ELSE site.stage
        /\ s.point = IF j.kind = "freeze" THEN j.value ELSE site.point
    BY Known DEF StoresOK, Saved, SiteFields
  <2>6. /\ r.kind = j.kind /\ r.begun = j.begun /\ r.guard = j.guard /\ r.value = j.value
        /\ r.step = IF j.kind = "freeze" THEN "protect" ELSE "restoring"
        /\ r.id = IF j.kind = "freeze" THEN j.value ELSE j.id
    BY GoingFields DEF JobFields
  <2> HIDE DEF r, s
  <2>7. /\ DOMAIN s.points = DOMAIN site.points \cup {j.value}
        /\ s.points[j.value] = j.taken
        /\ \A id \in DOMAIN site.points : s.points[id] = site.points[id]
    BY <2>4, <2>5 DEF With
  <2>8. \A id : Sound(id, site, disk) => Sound(id, s, disk) BY <2>7 DEF Sound
  <2>9. /\ Sized(j.taken, n) /\ Retained(j.taken.file, disk)
        /\ j.kind = "freeze" => Sound(j.value, s, disk)
    BY <2>1, <2>4, <2>7 DEF TakenData, Coming, Sound
  <2>10. SiteData(s, disk, n)
    <3>1. SiteData(site, disk, n) BY DataKnown
    <3>2. s.stage # "none" => Sound(s.point, s, disk) BY <2>1, <2>5, <2>8, <2>9, <3>1 DEF SiteData
    <3>3. \A id \in DOMAIN s.points : Sized(s.points[id], n) /\ Retained(s.points[id].file, disk)
      BY <2>7, <2>9, <3>1 DEF SiteData
    <3>4. s.stage \in Stages /\ (s.stage = "restoring" => s.from \in DOMAIN s.points)
      BY <2>1, <2>5, <2>7, <3>1 DEF SiteData, Stages
    <3> QED BY <2>5, <3>1, <3>2, <3>3, <3>4 DEF SiteData
  <2>11. Stored
    <3>1. site' = s => Stored
      BY <1>1, <2>2, <2>4, <2>7, <2>10, DataKnown, SiteChanges DEF Extends
    <3> QED BY <1>2, <2>2, <3>1
  <2>12. CASE Moved(w, Quit(j)) BY <2>1, <2>11, <2>12, DataQuits DEF Outside
  <2>13. CASE site' = s /\ Moved(w, r)
    <3>1. Based(r) => Sound(r.id, s, disk) BY <2>1, <2>4, <2>6, <2>8, <2>9 DEF Based
    <3>2. JobData(r, s, control, disk, n)
      BY <2>1, <2>6, <2>7, <3>1 DEF JobData, Edits
    <3>3. JobData(r, site', control', disk', version') BY <1>1, <2>2, <2>13, <3>2
    <3> QED BY <2>1, <2>6, <2>11, <2>13, <3>3, DataGoes DEF Outside
  <2> QED BY <2>3, <2>12, <2>13
<1>8. CASE Protect(w)
  <2> DEFINE d == [disk EXCEPT !.blocked = TRUE]
             r == [To(w, "flag") EXCEPT !.guard = TRUE]
  <2>1. j.kind \in Exclusive /\ j.step = "protect" BY <1>8, Doing DEF Protect, At
  <2>2. UNCHANGED <<site, control>> /\ disk' \in {disk, d} /\ (Moved(w, Quit(j)) \/ Moved(w, r))
    BY <1>8 DEF Protect, Touch, Same, SetDisk, stores, Become, Frame, Moved
  <2>3. /\ r.kind = j.kind /\ r.begun = j.begun /\ r.step = "flag" /\ r.id = j.id
        /\ r.todo = j.todo /\ r.value = j.value
    BY GoingFields DEF JobFields
  <2>4. /\ DOMAIN d = DiskFields /\ d.file = disk.file /\ d.static = disk.static
        /\ d.objects = disk.objects
    BY DataKnown DEF DiskFields
  <2> HIDE DEF r, d
  <2>5. Stored /\ still BY <1>1, <1>2, <2>2, <2>4, DataKnown, DiskChanges DEF DiskData
  <2>6. Based(r) => Based(j) BY <2>1, <2>3 DEF Based
  <2>7. JobData(r, site, control, disk, n)
    <3>1. Based(r) => Sound(r.id, site, disk) BY <2>3, <2>6, DataKnown DEF JobData
    <3> QED BY <2>3, <3>1, DataKnown, PlainData DEF Demanding
  <2>8. r.begun \/ w = Recovery BY <2>1, <2>3, DataKnown DEF Entered, Workers
  <2> QED BY <2>1, <2>2, <2>3, <2>5, <2>7, <2>8, DataProceeds, DataQuits DEF Outside
<1>9. CASE SetFlag(w)
  <2> DEFINE c  == [control EXCEPT !.flag = j.flag]
             ra == To(w, "open")
             rb == [To(w, "open") EXCEPT !.broken = TRUE]
  <2>1. j.kind \in Exclusive /\ j.step = "flag" BY <1>9, Doing DEF SetFlag, At
  <2>2. UNCHANGED <<site, disk>> /\ control' \in {control, c}
    BY <1>9 DEF SetFlag, Access, Same, SetControl, stores
  <2>3. PICK r \in {ra, rb} : Moved(w, r)
    BY <1>9 DEF SetFlag, Access, Same, SetControl, Become, Frame, Moved
  <2>4. /\ c.rules = control.rules /\ c.token = control.token
        /\ c.protection = control.protection
    BY Known DEF StoresOK, ControlFields
  <2>5. /\ r.kind = j.kind /\ r.begun = j.begun /\ r.step = "open" /\ r.id = j.id
        /\ r.todo = j.todo /\ r.value = j.value /\ r.guard = j.guard
    BY GoingFields DEF JobFields
  <2> HIDE DEF ra, rb, c
  <2>6. ControlData(c, n) BY <2>4, DataKnown DEF ControlData
  <2>7. Stored /\ still
    <3>1. TokenShape BY DEF DataInv
    <3>2. control' = c => Stored /\ still
      BY <1>1, <2>2, <2>4, <2>6, <3>1, ControlChanges DEF TokenShape
    <3> QED BY <1>2, <2>2, <3>2
  <2>8. Based(r) => Based(j) BY <2>1, <2>5 DEF Based
  <2>9. JobData(r, site, control, disk, n)
    <3>1. Based(r) => Sound(r.id, site, disk) BY <2>5, <2>8, DataKnown DEF JobData
    <3> QED BY <2>5, <3>1, DataKnown, PlainData DEF Demanding
  <2> QED BY <2>1, <2>3, <2>5, <2>7, <2>9, DataProceeds DEF Outside
<1>10. CASE Open(w)
  <2> DEFINE stop == Quit([j EXCEPT !.guard = FALSE])
             r == [To(w, IF j.kind = "freeze" THEN "activate" ELSE "finish")
                   EXCEPT !.guard = FALSE]
  <2>1. j.kind \in Exclusive /\ j.step = "open" BY <1>10, Doing DEF Open, At
  <2>2. UNCHANGED <<site, control>> /\ (disk' = disk \/ WritePolicy)
    BY <1>10 DEF Open, WritePolicy, SetDisk, Same, stores
  <2>3. Moved(w, stop) \/ Moved(w, r) BY <1>10 DEF Open, Become, Frame, Moved
  <2>4. Stored /\ still BY <1>1, <2>2, PolicyChanges DEF WritePolicy, SetDisk
  <2>5. /\ stop.kind = j.kind /\ stop.begun = j.begun /\ stop.todo = j.todo
        /\ stop.value = j.value /\ stop.guard = FALSE
        /\ stop.step = IF stop.kind \in Edits THEN "leave" ELSE "return"
    BY Known DEF Quit, JobFields
  <2>6. /\ r.kind = j.kind /\ r.begun = j.begun /\ r.todo = j.todo /\ r.id = j.id
        /\ r.value = j.value /\ r.guard = FALSE
        /\ r.step = IF j.kind = "freeze" THEN "activate" ELSE "finish"
    BY GoingFields DEF JobFields
  <2> HIDE DEF r, stop
  <2>7. Based(r) => Based(j) BY <2>1, <2>6 DEF Based
  <2>8. JobData(r, site, control, disk, n)
    <3>1. Based(r) => Sound(r.id, site, disk) BY <2>6, <2>7, DataKnown DEF JobData
    <3> QED BY <2>6, <3>1, DataKnown, PlainData DEF Demanding
  <2>9. CASE Moved(w, stop) BY <2>4, <2>5, <2>9, DataStops
  <2>10. CASE Moved(w, r) BY <2>1, <2>4, <2>6, <2>8, <2>10, DataProceeds DEF Outside
  <2> QED BY <2>3, <2>9, <2>10
<1>11. CASE Activate(w)
  <2> DEFINE s == Activated(j.id, "frozen")
  <2>1. j.kind = "freeze" /\ j.step = "activate" BY <1>11, Doing DEF Activate, At
  <2>2. UNCHANGED <<control, disk>> /\ site' \in {site, s} /\ Moved(w, Quit(j))
    BY <1>11 DEF Activate, Store, Access, Same, SetSite, stores, Become, Frame, Moved
  <2>3. /\ s.page = site.page /\ s.live = site.live /\ s.latest = site.latest
        /\ s.props = site.props /\ s.hidden = site.hidden /\ s.points = site.points
        /\ s.stage = "frozen" /\ s.point = j.id
    BY Known DEF StoresOK, Activated, SiteFields
  <2> HIDE DEF s
  <2>4. Sound(j.id, site, disk) BY <2>1, DataKnown DEF JobData, Based
  <2>5. Stored /\ still
    <3>1. site' = s => Stored /\ still BY <1>1, <2>2, <2>3, <2>4, JournalChanges DEF Stages
    <3> QED BY <1>2, <2>2, <3>1
  <2> QED BY <2>2, <2>5, DataQuits
<1>12. CASE Finish(w)
  <2> DEFINE s == Finished
             r == [Quit(j) EXCEPT !.done = TRUE]
  <2>1. UNCHANGED <<control, disk>> /\ site' \in {site, s} /\ (Moved(w, Quit(j)) \/ Moved(w, r))
    BY <1>12 DEF Finish, Store, Access, Same, SetSite, stores, Become, Frame, Moved
  <2>2. /\ s.page = site.page /\ s.live = site.live /\ s.latest = site.latest
        /\ s.props = site.props /\ s.hidden = site.hidden /\ s.points = site.points
        /\ s.stage = "none"
    BY Known DEF StoresOK, Finished, SiteFields
  <2>3. /\ r.kind = j.kind /\ r.begun = j.begun /\ r.todo = j.todo
        /\ r.value = j.value /\ r.guard = j.guard
        /\ r.step = IF r.kind \in Edits THEN "leave" ELSE "return"
    BY Known DEF Quit, JobFields
  <2> HIDE DEF r, s
  <2>4. Stored /\ still
    <3>1. site' = s => Stored /\ still BY <1>1, <2>1, <2>2, JournalChanges DEF Stages
    <3> QED BY <1>2, <2>1, <3>1
  <2> QED BY <2>1, <2>3, <2>4, DataStops, DataQuits
<1>13. CASE Candidates(w)
  <2> DEFINE some == {p \in Pages : site.page[p] \notin {0, site.live[p]}}
             t == SetToSeq(some)
  <2>1. j.kind = "publish" /\ j.step = "candidates" BY <1>13, Doing DEF Candidates, At
  <2>2. /\ UNCHANGED <<site, control, disk>>
        /\ Moved(w, Quit(j)) \/ Moved(w, NextCandidate([j EXCEPT !.todo = t]))
    BY <1>13 DEF Candidates, Load, Access, Same, stores, Become, Frame, Moved
  <2>3. t \in Seq(Pages)
    <3>1. some \subseteq Pages /\ IsFiniteSet(some) BY FreezeAssumption, FS_Subset
    <3> QED BY <3>1, Listing, SeqMonotonic
  <2> HIDE DEF t
  <2> QED BY <1>2, <2>1, <2>2, <2>3, CandidatesData, DataQuits DEF Outside
<1>14. CASE CommitPublication(w)
  <2> DEFINE p == Head(j.todo)
             s == [site EXCEPT !.live[p] = j.value]
             t == Tail(j.todo)
  <2>1. j.kind = "publish" /\ j.step = "commit" /\ j.flag = 0
    BY <1>14, Known DEF CommitPublication, At
  <2>2. /\ \/ site' = s /\ UNCHANGED <<control, disk>>
           \/ disk' = RolledBack(w) /\ UNCHANGED <<site, control>> /\ Moved(w, Quit(j))
        /\ Moved(w, Quit(j)) \/ Moved(w, NextCandidate([j EXCEPT !.todo = t]))
    BY <1>14 DEF CommitPublication, Commit, SetSite, SetDisk, Become, Frame, Moved, Target
  <2>3. /\ j.value \in 0..n /\ j.old \in 0..n /\ p \in Pages /\ t \in Seq(Pages)
    BY <2>1, DataKnown, Heading DEF JobData
  <2>4. SiteData(site, disk, n) BY DataKnown
  <2>5. /\ s.page = site.page /\ s.live \in [Pages -> 0..n] /\ s.latest = site.latest
        /\ s.props = site.props /\ s.hidden = site.hidden /\ s.points = site.points
        /\ s.stage = site.stage /\ s.point = site.point /\ s.from = site.from
    BY <2>3, <2>4, Known DEF StoresOK, SiteFields, SiteData
  <2>6. CASE site' = s /\ UNCHANGED <<control, disk>>
    <3> HIDE DEF s
    <3>1. Stored /\ still BY <1>1, <2>4, <2>5, <2>6, ContentChanges DEF SiteData
    <3> HIDE DEF t
    <3> QED BY <2>1, <2>2, <2>3, <3>1, CandidatesData, DataQuits DEF Outside
  <2>7. CASE disk' = RolledBack(w) /\ UNCHANGED <<site, control>> /\ Moved(w, Quit(j))
    <3>1. disk' = [disk EXCEPT !.static[p] = j.old] BY <2>1, <2>7 DEF RolledBack, Target
    <3>2. /\ DOMAIN disk' = DiskFields /\ disk'.static \in [Pages -> 0..n]
          /\ disk'.file = disk.file /\ disk'.objects = disk.objects
      BY <2>3, <3>1, DataKnown DEF DiskFields, DiskData
    <3>3. Stored /\ still BY <1>1, <2>7, <3>2, DataKnown, DiskChanges DEF DiskData
    <3> QED BY <2>7, <3>3, DataQuits
  <2> QED BY <2>2, <2>6, <2>7
<1>15. CASE Publishing(w)
  <2> DEFINE r == IF site.stage = "none" THEN [To(w, "protect") EXCEPT !.id = 0]
                  ELSE [To(w, "mark") EXCEPT !.id = site.point]
  <2>1. j.kind = "publish" /\ j.step = "publishing" BY <1>15, Doing DEF Publishing, At
  <2>2. UNCHANGED <<site, control, disk>> /\ (Moved(w, Quit(j)) \/ Moved(w, r))
    BY <1>15 DEF Publishing, Load, Access, Same, stores, Become, Frame, Moved
  <2>3. /\ r.kind = j.kind /\ r.begun = j.begun /\ r.guard = j.guard
        /\ r.step \in {"protect", "mark"}
        /\ r.step = "mark" => site.stage # "none" /\ r.id = site.point
    BY GoingFields DEF JobFields
  <2> HIDE DEF r
  <2>4. Based(r) => Sound(r.id, site, disk)
    BY <2>1, <2>3, DataKnown DEF SiteData, Based
  <2>5. JobData(r, site, control, disk, n)
    BY <2>1, <2>3, <2>4, DataKnown, PlainData DEF Edits, Demanding
  <2> QED BY <1>2, <2>1, <2>2, <2>3, <2>5, DataProceeds, DataQuits DEF Outside
<1>16. CASE MarkPublishing(w)
  <2> DEFINE s == Activated(j.id, "publishing")
             r == To(w, "protect")
  <2>1. j.kind = "publish" /\ j.step = "mark" BY <1>16, Doing DEF MarkPublishing, At
  <2>2. /\ UNCHANGED <<control, disk>> /\ site' \in {site, s}
        /\ Moved(w, Quit(j)) \/ Moved(w, r)
    BY <1>16 DEF MarkPublishing, Store, Access, Same, SetSite, stores, Become, Frame, Moved
  <2>3. /\ s.page = site.page /\ s.live = site.live /\ s.latest = site.latest
        /\ s.props = site.props /\ s.hidden = site.hidden /\ s.points = site.points
        /\ s.stage = "publishing" /\ s.point = j.id
    BY Known DEF StoresOK, Activated, SiteFields
  <2>4. r.kind = j.kind /\ r.begun = j.begun /\ r.guard = j.guard /\ r.step = "protect"
    BY GoingFields
  <2> HIDE DEF s, r
  <2>5. Sound(j.id, site, disk) BY <2>1, DataKnown DEF JobData, Based
  <2>6. Stored /\ still
    <3>1. site' = s => Stored /\ still BY <1>1, <2>2, <2>3, <2>5, JournalChanges DEF Stages
    <3> QED BY <1>2, <2>2, <3>1
  <2>7. JobData(r, site, control, disk, n)
    BY <2>1, <2>4, DataKnown, PlainData DEF Based, Edits, Demanding
  <2> QED BY <2>1, <2>2, <2>4, <2>6, <2>7, DataProceeds, DataQuits DEF Outside
<1> QED
  BY <1>3, <1>4, <1>5, <1>6, <1>7, <1>8, <1>9, <1>10, <1>11, <1>12, <1>13, <1>14, <1>15, <1>16
  DEF Freezing

(* Discarding the edits keeps the stores in order.                          *)
LEMMA DiscardingData ==
    ASSUME IInv, DataInv, NEW w \in Workers, Discarding(w)
    PROVE  DataInv'
<1> DEFINE j == job[w]
           n == version
           still == DOMAIN site'.points = DOMAIN site.points
           b == site.points[j.id]
<1>1. version' = version BY VersionStays DEF JobStep
<1>2. UNCHANGED <<site, control, disk>> => Stored /\ still BY <1>1, StoresStay
<1>3. Sound(j.id, site, disk) => Sized(b, n) BY DataKnown DEF Sound, SiteData
<1>4. CASE Precheck(w)
  <2> DEFINE r == To(w, "admit")
  <2>1. j.step = "precheck" /\ UNCHANGED <<site, control, disk>> /\ (Moved(w, Quit(j)) \/ Moved(w, r))
    BY <1>4 DEF Precheck, At, Load, Access, Same, stores, Become, Frame, Moved
  <2>2. /\ r.kind = j.kind /\ r.begun = j.begun /\ r.guard = j.guard /\ r.step = "admit"
        /\ r.value = j.value /\ r.todo = j.todo
    BY GoingFields
  <2> HIDE DEF r
  <2>3. JobData(r, site, control, disk, n)
    BY <2>2, DataKnown, PlainData DEF Based, Demanding
  <2>4. Entered(w, r, holder[w]) BY <2>1, <2>2, DataKnown DEF Entered
  <2>5. CASE Moved(w, r)
    <3>1. UNCHANGED holder /\ job' = [job EXCEPT ![w] = r] BY <2>5 DEF Moved, gate
    <3>2. JobData(r, site', control', disk', version') BY <1>1, <2>1, <2>3
    <3> QED BY <1>2, <2>1, <2>4, <3>1, <3>2, DataMoves
  <2> QED BY <1>2, <2>1, <2>5, DataQuits
<1>5. ASSUME NEW r, UNCHANGED <<site, control, disk>>, Moved(w, Quit(j)) \/ Moved(w, r),
             j.kind = "restore", j.step \notin Outside,
             r.kind = j.kind, r.begun = j.begun, r.guard = j.guard,
             r.step \notin Outside \cup {"save"}, JobData(r, site, control, disk, n)
      PROVE  DataInv'
  BY <1>2, <1>5, DataProceeds, DataQuits
<1>6. CASE Check(w)
  <2> DEFINE q == [j EXCEPT !.taken = site.points[site.from]]
             r == IF site.stage = "restoring" THEN Restoring(q) ELSE To(w, "compare")
             lost == site.stage \in {"none", "publishing"} \/ site.point # j.id
  <2>1. j.kind = "restore" /\ j.step = "check" BY <1>6, Doing DEF Check, At
  <2>2. UNCHANGED <<site, control, disk>> /\ (Moved(w, Quit(j)) \/ (~lost /\ Moved(w, r)))
    BY <1>6 DEF Check, Load, Access, Same, stores, Become, Frame, Moved
  <2>3. /\ DOMAIN q = JobFields /\ q.kind = j.kind /\ q.begun = j.begun /\ q.guard = j.guard
        /\ q.id = j.id
    BY Known DEF JobFields
  <2> HIDE DEF q
  <2>4. /\ r.kind = j.kind /\ r.begun = j.begun /\ r.guard = j.guard
        /\ r.step \in {"files", "compare"} /\ r.id = j.id
    BY <2>3, GoingFields DEF JobFields, Restoring
  <2> HIDE DEF r
  <2>5. ~lost => Sound(r.id, site, disk)
    BY <2>4, DataKnown DEF SiteData, Stages
  <2>6. ~lost => JobData(r, site, control, disk, n)
    BY <2>1, <2>4, <2>5 DEF JobData, Edits
  <2>7. CASE Moved(w, Quit(j)) BY <1>2, <2>2, <2>7, DataQuits
  <2>8. CASE ~lost /\ Moved(w, r) BY <1>5, <2>1, <2>2, <2>4, <2>6, <2>8 DEF Outside
  <2> QED BY <2>2, <2>7, <2>8
<1>7. CASE Compare(w)
  <2> DEFINE r == [To(w, "retain") EXCEPT !.taken = Captured, !.todo = FileContents(Captured)]
  <2>1. j.kind = "restore" /\ j.step = "compare" BY <1>7, Doing DEF Compare, At
  <2>2. UNCHANGED <<site, control, disk>> /\ (Moved(w, Quit(j)) \/ Moved(w, r))
    BY <1>7 DEF Compare, Load, Access, Same, stores, Become, Frame, Moved
  <2>3. /\ r.kind = j.kind /\ r.begun = j.begun /\ r.guard = j.guard /\ r.step = "retain"
        /\ r.taken = Captured /\ r.todo = FileContents(Captured) /\ r.id = j.id
    BY GoingFields DEF JobFields
  <2> HIDE DEF r
  <2>4. /\ Sized(r.taken, n) /\ r.todo \in Seq(1..n)
        /\ r.taken.file # 0 => r.taken.file \in Range(r.todo)
    BY <2>3, CapturedData, ContentsData, DataKnown
  <2>5. TakenData(r, disk, n) BY <2>1, <2>3, <2>4 DEF TakenData, Coming, Retained
  <2>6. Sound(r.id, site, disk) BY <2>1, <2>3, DataKnown DEF JobData, Based
  <2>7. JobData(r, site, control, disk, n)
    BY <2>1, <2>3, <2>4, <2>5, <2>6 DEF JobData, Edits
  <2> QED BY <1>5, <2>1, <2>2, <2>3, <2>7 DEF Outside
<1>8. CASE BeginRestoring(w)
  <2> DEFINE s == [Activated(j.id, "restoring") EXCEPT !.from = j.value]
             r == Restoring(j)
  <2>1. j.kind = "restore" /\ j.step = "restoring" BY <1>8, Doing DEF BeginRestoring, At
  <2>2. /\ UNCHANGED <<control, disk>> /\ site' \in {site, s}
        /\ Moved(w, Quit(j)) \/ Moved(w, r)
    BY <1>8 DEF BeginRestoring, Store, Access, Same, SetSite, stores, Become, Frame, Moved
  <2>3. Sound(j.id, site, disk) /\ j.value \in DOMAIN site.points
    BY <2>1, DataKnown DEF JobData, Based
  <2>4. /\ s.page = site.page /\ s.live = site.live /\ s.latest = site.latest
        /\ s.props = site.props /\ s.hidden = site.hidden /\ s.points = site.points
        /\ s.stage = "restoring" /\ s.point = j.id /\ s.from = j.value
    BY Known DEF StoresOK, Activated, SiteFields
  <2>5. /\ r.kind = j.kind /\ r.begun = j.begun /\ r.guard = j.guard
        /\ r.step = "files" /\ r.id = j.id
    BY Known DEF JobFields, Restoring
  <2> HIDE DEF s, r
  <2>6. Stored /\ still
    <3>1. site' = s => Stored /\ still BY <1>1, <2>2, <2>3, <2>4, JournalChanges DEF Stages
    <3> QED BY <1>2, <2>2, <3>1
  <2>7. JobData(r, site, control, disk, n) BY <2>1, <2>3, <2>5 DEF JobData, Edits
  <2> QED BY <2>1, <2>2, <2>5, <2>6, <2>7, DataProceeds, DataQuits DEF Outside
<1>9. CASE RestoreFiles(w)
  <2>1. j.kind = "restore" /\ j.step = "files" BY <1>9, Doing DEF RestoreFiles, At
  <2>2. Sound(j.id, site, disk) BY <2>1, DataKnown DEF JobData, Based
  <2>3. CASE j.todo = <<>>
    <3> DEFINE r == To(w, "props")
    <3>1. UNCHANGED <<site, control, disk>> /\ Moved(w, r)
      BY <1>9, <2>3 DEF RestoreFiles, stores, Become, Frame, Moved
    <3>2. /\ r.kind = j.kind /\ r.begun = j.begun /\ r.guard = j.guard
          /\ r.step = "props" /\ r.id = j.id
      BY GoingFields
    <3> HIDE DEF r
    <3>3. JobData(r, site, control, disk, n) BY <2>1, <2>2, <3>2 DEF JobData, Edits
    <3> QED BY <1>5, <2>1, <3>1, <3>2, <3>3 DEF Outside
  <2>4. CASE j.todo # <<>>
    <3> DEFINE t == Target(w)
               v == IF t = "file" THEN Base(w).file ELSE Base(w).live[t]
               d == IF t = "file" THEN [disk EXCEPT !.file = v]
                    ELSE [disk EXCEPT !.static[t] = v]
               r == [j EXCEPT !.todo = Tail(@)]
    <3>1. /\ UNCHANGED <<site, control>>
          /\ \/ disk' = disk /\ Moved(w, Quit(j))
             \/ v \in disk.objects /\ disk' = d /\ Moved(w, r)
      BY <1>9, <2>4 DEF RestoreFiles, Touch, SetDisk, Same, stores, Become, Frame, Moved
    <3>2. /\ r.kind = j.kind /\ r.begun = j.begun /\ r.guard = j.guard
          /\ r.step = "files" /\ r.id = j.id
      BY <2>1, Known DEF JobFields
    <3> HIDE DEF r, v, t
    <3>3. JobData(r, site, control, disk, n) BY <2>1, <2>2, <3>2 DEF JobData, Edits
    <3>4. v \in disk.objects => DiskData(d, n) /\ DOMAIN d = DiskFields /\ d.objects = disk.objects
      <4>1. v \in disk.objects => v \in 0..n BY DataKnown DEF DiskData
      <4>2. CASE t = "file"
        BY <4>1, <4>2, DataKnown DEF DiskData, DiskFields
      <4>3. CASE t # "file"
        BY <4>1, <4>3, DataKnown DEF DiskData, DiskFields
      <4> QED BY <4>2, <4>3
    <3> HIDE DEF d
    <3>5. CASE v \in disk.objects /\ disk' = d /\ Moved(w, r)
      <4>1. Stored /\ still BY <1>1, <3>1, <3>4, <3>5, DiskChanges
      <4> QED BY <2>1, <3>2, <3>3, <3>5, <4>1, DataProceeds DEF Outside
    <3> QED BY <1>2, <3>1, <3>5, DataQuits
  <2> QED BY <2>3, <2>4
<1>10. ASSUME NEW s \in {"views", "restore_rules", "restore_prefix"}, j.kind = "restore",
              j.step \in {"props", "views", "restore_rules"}, Stored, still,
              Moved(w, Quit(j)) \/ Moved(w, To(w, s))
       PROVE  DataInv'
  <2> DEFINE r == To(w, s)
  <2>1. Sound(j.id, site, disk) BY <1>10, DataKnown DEF JobData, Based
  <2>2. /\ r.kind = j.kind /\ r.begun = j.begun /\ r.guard = j.guard
        /\ r.step = s /\ r.id = j.id
    BY GoingFields
  <2>3. Moved(w, Quit(j)) \/ Moved(w, r) BY <1>10
  <2> HIDE DEF r
  <2>4. JobData(r, site, control, disk, n) BY <1>10, <2>1, <2>2 DEF JobData, Edits
  <2> QED BY <1>10, <2>2, <2>3, <2>4, DataProceeds, DataQuits DEF Outside
<1>11. CASE RestoreProperties(w)
  <2> DEFINE s == [site EXCEPT !.props = b.props]
  <2>1. j.kind = "restore" /\ j.step = "props" BY <1>11, Doing DEF RestoreProperties, At
  <2>2. /\ UNCHANGED <<control, disk>> /\ site' \in {site, s}
        /\ Moved(w, Quit(j)) \/ Moved(w, To(w, "views"))
    BY <1>11
    DEF RestoreProperties, Store, Access, Same, SetSite, stores, Become, Frame, Moved, Base
  <2>3. Sized(b, n) BY <1>3, <2>1, DataKnown DEF JobData, Based
  <2>4. SiteData(site, disk, n) BY DataKnown
  <2>5. /\ s.page = site.page /\ s.live = site.live /\ s.latest = site.latest
        /\ s.props \in 0..n /\ s.hidden = site.hidden /\ s.points = site.points
        /\ s.stage = site.stage /\ s.point = site.point /\ s.from = site.from
    BY <2>3, Known DEF StoresOK, SiteFields, Sized
  <2> HIDE DEF s
  <2>6. Stored /\ still
    <3>1. site' = s => Stored /\ still
      BY <1>1, <2>2, <2>4, <2>5, ContentChanges DEF SiteData
    <3> QED BY <1>2, <2>2, <3>1
  <2> QED BY <1>10, <2>1, <2>2, <2>6
<1>12. CASE RestoreViews(w)
  <2> DEFINE hidden == ((site.hidden \cup NewPages(b, j.taken)) \ Kept(b)) \cup NewFile(b, j.taken)
             s == [site EXCEPT !.page = b.page, !.live = b.live, !.hidden = hidden]
  <2>1. j.kind = "restore" /\ j.step = "views" BY <1>12, Doing DEF RestoreViews, At
  <2>2. /\ UNCHANGED <<control, disk>> /\ site' \in {site, s}
        /\ Moved(w, Quit(j)) \/ Moved(w, To(w, "restore_rules"))
    BY <1>12
    DEF RestoreViews, Store, Access, Same, SetSite, stores, Become, Frame, Moved, Base
  <2>3. Sized(b, n) BY <1>3, <2>1, DataKnown DEF JobData, Based
  <2>4. SiteData(site, disk, n) BY DataKnown
  <2>5. hidden \subseteq Pages \cup {"file"} BY <2>4 DEF SiteData, NewPages, NewFile
  <2> HIDE DEF hidden
  <2>6. /\ s.page \in [Pages -> 0..n] /\ s.live \in [Pages -> 0..n] /\ s.latest = site.latest
        /\ s.props = site.props /\ s.hidden = hidden /\ s.points = site.points
        /\ s.stage = site.stage /\ s.point = site.point /\ s.from = site.from
    BY <2>3, Known DEF StoresOK, SiteFields, Sized
  <2> HIDE DEF s
  <2>7. Stored /\ still
    <3>1. site' = s => Stored /\ still
      BY <1>1, <2>2, <2>4, <2>5, <2>6, ContentChanges DEF SiteData
    <3> QED BY <1>2, <2>2, <3>1
  <2> QED BY <1>10, <2>1, <2>2, <2>7
<1>13. CASE RestoreRules(w)
  <2> DEFINE c == [control EXCEPT !.rules = b.rules, !.token = LiveToken(b)]
  <2>1. j.kind = "restore" /\ j.step = "restore_rules" BY <1>13, Doing DEF RestoreRules, At
  <2>2. /\ UNCHANGED <<site, disk>> /\ control' \in {control, c}
        /\ Moved(w, Quit(j)) \/ Moved(w, To(w, "restore_prefix"))
    BY <1>13 DEF RestoreRules, Access, Same, SetControl, stores, Become, Frame, Moved, Base
  <2>3. Sized(b, n) BY <1>3, <2>1, DataKnown DEF JobData, Based
  <2>4. ControlData(control, n) /\ TokenShape BY DataKnown DEF DataInv
  <2>5. /\ LiveToken(b).id \in 0..n /\ DOMAIN LiveToken(b) = {"id", "left"}
        /\ LiveToken(b).left \in {0, 1}
    <3>1. CASE control.token.id = b.token BY <2>4, <3>1 DEF LiveToken, ControlData, TokenShape
    <3>2. CASE control.token.id # b.token
      <4>1. LiveToken(b) = [id |-> 0, left |-> 0] BY <3>2 DEF LiveToken
      <4>2. 0 \in 0..n BY DataKnown
      <4> QED BY <4>1, <4>2
    <3> QED BY <3>1, <3>2
  <2>6. /\ c.rules = b.rules /\ c.token = LiveToken(b) /\ c.protection = control.protection
    BY Known DEF StoresOK, ControlFields
  <2> HIDE DEF c
  <2>7. ControlData(c, n) BY <2>3, <2>4, <2>5, <2>6 DEF ControlData, Sized
  <2>8. Stored /\ still
    <3>1. control' = c => Stored /\ still
      BY <1>1, <2>2, <2>5, <2>6, <2>7, ControlChanges DEF TokenShape
    <3> QED BY <1>2, <2>2, <3>1
  <2> QED BY <1>10, <2>1, <2>2, <2>8
<1>14. CASE RestorePrefix(w)
  <2> DEFINE d == [disk EXCEPT !.prefix = b.rules]
             r == [To(w, "protect") EXCEPT !.flag = 0]
  <2>1. j.kind = "restore" /\ j.step = "restore_prefix" BY <1>14, Doing DEF RestorePrefix, At
  <2>2. UNCHANGED <<site, control>> /\ disk' \in {disk, d} /\ (Moved(w, Quit(j)) \/ Moved(w, r))
    BY <1>14 DEF RestorePrefix, Touch, SetDisk, Same, stores, Become, Frame, Moved, Base
  <2>3. r.kind = j.kind /\ r.begun = j.begun /\ r.guard = j.guard /\ r.step = "protect"
    BY GoingFields DEF JobFields
  <2>4. /\ DOMAIN d = DiskFields /\ d.file = disk.file /\ d.static = disk.static
        /\ d.objects = disk.objects
    BY DataKnown DEF DiskFields
  <2> HIDE DEF r, d
  <2>5. Stored /\ still BY <1>1, <1>2, <2>2, <2>4, DataKnown, DiskChanges DEF DiskData
  <2>6. JobData(r, site, control, disk, n)
    BY <2>1, <2>3, DataKnown, PlainData DEF Based, Edits, Demanding
  <2> QED BY <2>1, <2>2, <2>3, <2>5, <2>6, DataProceeds, DataQuits DEF Outside
<1> QED
  BY <1>4, <1>6, <1>7, <1>8, <1>9, <1>11, <1>12, <1>13, <1>14 DEF Discarding

(* An edit keeps what it writes.                                            *)
LEMMA EditRecord ==
    ASSUME NEW j, NEW r, NEW n, JobData(j, site, control, disk, n), j.kind \in Edits,
           r.kind = j.kind, r.value = j.value, r.todo = j.todo, r.step \in EditSteps,
           r.step \in {"read_flag", "static", "commit"} =>
               \/ j.step \in {"read_flag", "static", "commit"}
               \/ j.kind \in {"page", "import"},
           r.step = "commit" /\ r.flag = 0 => r.old \in 0..n
    PROVE  JobData(r, site, control, disk, n)
BY DEF JobData, Based, EditSteps, Changing, Edits

(* Edits keep the stores in order.                                          *)
LEMMA EditingData ==
    ASSUME IInv, DataInv, NEW w \in Workers, Editing(w) \/ Editable(w)
    PROVE  DataInv'
<1> DEFINE j == job[w]
           n == version
           still == DOMAIN site'.points = DOMAIN site.points
           either(r) == Moved(w, Quit(j)) \/ Moved(w, r)
<1>1. version' = version BY VersionStays DEF JobStep, Serving, Editing
<1>2. UNCHANGED <<site, control, disk>> => Stored /\ still BY <1>1, StoresStay
<1>3. ASSUME NEW r, either(r), Stored, still, j.kind \in Edits, j.step \in EditSteps,
             r.kind = j.kind, r.value = j.value, r.todo = j.todo, r.begun = j.begun \/ r.begun,
             r.step \in EditSteps, r.guard => j.guard \/ r.begun,
             r.step \in {"read_flag", "static", "commit"} =>
                 \/ j.step \in {"read_flag", "static", "commit"}
                 \/ j.kind \in {"page", "import"},
             r.step = "commit" /\ r.flag = 0 => r.old \in 0..n
      PROVE  DataInv'
  <2>1. JobData(r, site, control, disk, n) BY <1>3, DataKnown, EditRecord
  <2>2. j.step \notin Outside /\ r.step \notin Outside /\ r.step # "save"
    BY <1>3 DEF EditSteps, Changing, Outside
  <2> QED BY <1>3, <2>1, <2>2, DataProceeds, DataQuits
<1>4. ASSUME NEW s \in Changing \ {"read_flag", "static", "commit"}, either(To(w, s)),
             Stored, still, j.step \in Changing \ {"static", "commit"}
      PROVE  DataInv'
  <2>1. j.kind \in Edits /\ j.step \in EditSteps /\ s \in EditSteps
    BY <1>4, Doing DEF EditSteps
  <2> QED BY <1>3, <1>4, <2>1, GoingFields
<1>5. ASSUME NEW d, disk' \in {disk, d}, UNCHANGED <<site, control>>, DOMAIN d = DiskFields,
             DiskData(d, n), disk.objects \subseteq d.objects
      PROVE  Stored /\ still
  BY <1>1, <1>2, <1>5, DiskChanges
<1>6. ASSUME NEW s, site' \in {site, s}, UNCHANGED <<control, disk>>,
             s.page \in [Pages -> 0..n], s.live \in [Pages -> 0..n],
             s.latest \in [Pages -> 0..n], s.props \in 0..n,
             s.hidden \subseteq Pages \cup {"file"}, s.points = site.points,
             s.stage = site.stage, s.point = site.point, s.from = site.from
      PROVE  Stored /\ still
  <2>1. site' = s => Stored /\ still BY <1>1, <1>6, ContentChanges
  <2> QED BY <1>2, <1>6, <2>1
<1>7. ASSUME NEW c, control' \in {control, c}, UNCHANGED <<site, disk>>, ControlData(c, n),
             c.protection = control.protection, DOMAIN c.token = {"id", "left"},
             c.token.left \in {0, 1}
      PROVE  Stored /\ still
  <2>1. control' = c => Stored /\ still BY <1>1, <1>7, ControlChanges DEF TokenShape
  <2> QED BY <1>2, <1>7, <2>1
<1>8. CASE Editable(w)
  <2> DEFINE r == IF j.kind = "publish" THEN To(w, "candidates")
                  ELSE To(w, IF j.kind = "import" THEN FirstStep(j.kind) ELSE "begin")
  <2>1. UNCHANGED <<site, control, disk>> /\ either(r)
    BY <1>8 DEF Editable, Load, Access, Same, stores, Become, Frame, Moved
  <2>2. j.step = "editable" /\ j.kind \in Edits \cup {"publish"}
    BY <1>8, Doing DEF Editable, At
  <2>3. /\ r.kind = j.kind /\ r.value = j.value /\ r.todo = j.todo /\ r.begun = j.begun
        /\ r.guard = j.guard
        /\ r.step = IF j.kind = "publish" THEN "candidates"
                    ELSE IF j.kind = "import" THEN "read_flag" ELSE "begin"
    BY GoingFields DEF FirstStep
  <2> HIDE DEF r
  <2>4. CASE j.kind = "publish"
    <3>1. JobData(r, site, control, disk, n)
      BY <2>3, <2>4, DataKnown, PlainData DEF Based, Edits, Demanding
    <3> QED BY <1>2, <2>1, <2>2, <2>3, <2>4, <3>1, DataProceeds, DataQuits DEF Outside
  <2>5. CASE j.kind \in Edits
    BY <1>2, <1>3, <2>1, <2>2, <2>3, <2>5 DEF EditSteps, Changing, Edits
  <2> QED BY <2>2, <2>4, <2>5
<1>9. CASE Begin(w)
  <2> DEFINE q == [To(w, FirstStep(j.kind)) EXCEPT !.begun = TRUE]
             r == IF j.kind \in {"page", "redirect"} THEN q ELSE [q EXCEPT !.guard = TRUE]
             d == [disk EXCEPT !.blocked = TRUE]
  <2>1. either(r) /\ UNCHANGED <<site, control>> /\ disk' \in {disk, d}
    BY <1>9 DEF Begin, Touch, SetDisk, Same, stores, Become, Frame, Moved
  <2>2. j.kind \in Edits /\ j.step = "begin" BY <1>9, Doing DEF Begin, At, Changing
  <2>3. /\ DOMAIN q = JobFields /\ q.kind = j.kind /\ q.value = j.value /\ q.todo = j.todo
        /\ q.begun = TRUE /\ q.step = FirstStep(j.kind)
    BY GoingFields DEF JobFields
  <2> HIDE DEF q
  <2>4. /\ r.kind = j.kind /\ r.value = j.value /\ r.todo = j.todo
        /\ r.begun = TRUE /\ r.step = FirstStep(j.kind)
    BY <2>3 DEF JobFields
  <2>5. FirstStep(j.kind) = "read_flag" => j.kind \in {"page", "import"}
    BY <2>2 DEF FirstStep, Edits
  <2>6. FirstStep(j.kind) \in EditSteps \ {"static", "commit"}
    BY <2>2, FirstSteps DEF EditSteps
  <2>7. /\ DOMAIN d = DiskFields /\ d.file = disk.file /\ d.static = disk.static
        /\ d.objects = disk.objects
    BY DataKnown DEF DiskFields
  <2> HIDE DEF r, d
  <2>8. Stored /\ still BY <1>5, <2>1, <2>7, DataKnown DEF DiskData
  <2> QED BY <1>3, <2>1, <2>2, <2>4, <2>5, <2>6, <2>8 DEF EditSteps, Changing
<1>10. CASE ReadFlag(w)
  <2> DEFINE r == [To(w, IF control.flag = 1 THEN "commit" ELSE "static")
                   EXCEPT !.flag = control.flag]
  <2>1. either(r) /\ UNCHANGED <<site, control, disk>>
    BY <1>10 DEF ReadFlag, Load, Access, Same, stores, Become, Frame, Moved
  <2>2. j.kind \in Edits /\ j.step = "read_flag" BY <1>10, Doing DEF ReadFlag, At, Changing
  <2>3. /\ r.kind = j.kind /\ r.value = j.value /\ r.todo = j.todo /\ r.begun = j.begun
        /\ r.guard = j.guard /\ r.step \in {"commit", "static"}
        /\ r.step = "commit" => r.flag = 1
    BY GoingFields DEF JobFields
  <2> HIDE DEF r
  <2> QED BY <1>2, <1>3, <2>1, <2>2, <2>3 DEF EditSteps, Changing
<1>11. CASE WriteStatic(w)
  <2> DEFINE p == Head(j.todo)
             r == [To(w, "commit") EXCEPT !.old = disk.static[p]]
             d == [disk EXCEPT !.static[p] = j.value]
  <2>1. /\ UNCHANGED <<site, control>>
        /\ (disk' = d /\ Moved(w, r)) \/ (disk' = disk /\ Moved(w, Quit(j)))
    BY <1>11 DEF WriteStatic, Touch, SetDisk, Same, stores, Become, Frame, Moved, Target
  <2>2. j.kind \in Edits \cup {"publish"} /\ j.step = "static"
    BY <1>11, Doing DEF WriteStatic, At
  <2>3. j.value \in 0..n /\ j.todo \in Seq(Pages) /\ j.todo # <<>> /\ p \in Pages
    <3>1. JobData(j, site, control, disk, n) BY DataKnown
    <3>2. j.todo \in Seq(Pages) /\ j.todo # <<>> BY <2>2, <3>1 DEF JobData
    <3>3. j.value \in 0..n BY <2>2, <3>1, DataKnown DEF JobData
    <3> QED BY <3>2, <3>3, Heading
  <2>4. disk.static[p] \in 0..n BY <2>3, DataKnown DEF DiskData
  <2>5. /\ r.kind = j.kind /\ r.value = j.value /\ r.todo = j.todo /\ r.begun = j.begun
        /\ r.guard = j.guard /\ r.step = "commit" /\ r.old = disk.static[p]
    BY GoingFields DEF JobFields
  <2>6. /\ DOMAIN d = DiskFields /\ d.file = disk.file /\ d.static \in [Pages -> 0..n]
        /\ d.objects = disk.objects
    BY <2>3, DataKnown DEF DiskFields, DiskData
  <2> HIDE DEF r, d, p
  <2>7. Stored /\ still BY <1>5, <2>1, <2>6, DataKnown DEF DiskData
  <2>8. CASE j.kind \in Edits
    BY <1>3, <2>1, <2>2, <2>4, <2>5, <2>7, <2>8 DEF EditSteps, Changing
  <2>9. CASE j.kind = "publish"
    <3>1. JobData(r, site, control, disk, n)
      BY <2>3, <2>4, <2>5, <2>9 DEF JobData, Based, Edits
    <3> QED BY <2>1, <2>2, <2>5, <2>7, <3>1, DataProceeds, DataQuits DEF Outside
  <2> QED BY <2>2, <2>8, <2>9
<1>12. CASE CommitSave(w)
  <2> DEFINE p == Head(j.todo)
             v == j.value
             live == IF j.flag = 1 THEN site.live ELSE [site.live EXCEPT ![p] = v]
             s == [site EXCEPT !.page[p] = v, !.latest[p] = v, !.hidden = @ \ {p},
                               !.live = IF j.flag = 1 THEN @ ELSE [@ EXCEPT ![p] = v]]
  <2>1. /\ \/ site' = s /\ UNCHANGED <<control, disk>>
           \/ disk' = RolledBack(w) /\ UNCHANGED <<site, control>>
        /\ Moved(w, Quit(j))
    BY <1>12 DEF CommitSave, Commit, SetSite, SetDisk, Become, Frame, Moved, Target
  <2>2. j.kind \in Edits /\ j.step = "commit" BY <1>12 DEF CommitSave, At
  <2>3. v \in 0..n /\ p \in Pages /\ (j.flag = 0 => j.old \in 0..n) /\ j.flag \in {0, 1}
    BY <2>2, DataKnown, Known, Heading DEF JobData
  <2>4. SiteData(site, disk, n) BY DataKnown
  <2>5. live \in [Pages -> 0..n] BY <2>3, <2>4 DEF SiteData
  <2>6. s.page \in [Pages -> 0..n] /\ s.latest \in [Pages -> 0..n]
    BY <2>3, <2>4, Known DEF SiteData, StoresOK, SiteFields
  <2>7. s.live = live /\ s.props = site.props /\ s.hidden \subseteq site.hidden
    BY Known DEF StoresOK, SiteFields
  <2>8. /\ s.points = site.points
        /\ s.stage = site.stage /\ s.point = site.point /\ s.from = site.from
    BY Known DEF StoresOK, SiteFields
  <2> HIDE DEF s, live
  <2>9. CASE site' = s /\ UNCHANGED <<control, disk>>
    <3>1. Stored /\ still
      BY <1>6, <2>4, <2>5, <2>6, <2>7, <2>8, <2>9 DEF SiteData
    <3> QED BY <2>1, <3>1, DataQuits
  <2>10. CASE disk' = RolledBack(w) /\ UNCHANGED <<site, control>>
    <3>1. RolledBack(w) = IF j.flag = 1 THEN disk ELSE [disk EXCEPT !.static[p] = j.old]
      BY DEF RolledBack, Target
    <3>2. /\ DOMAIN disk' = DiskFields /\ disk'.static \in [Pages -> 0..n]
          /\ disk'.file = disk.file /\ disk'.objects = disk.objects
      BY <2>3, <2>10, <3>1, DataKnown DEF DiskFields, DiskData
    <3>3. Stored /\ still BY <1>1, <2>10, <3>2, DataKnown, DiskChanges DEF DiskData
    <3> QED BY <2>1, <3>3, DataQuits
  <2> QED BY <2>1, <2>9, <2>10
<1>13. CASE RetainOld(w)
  <2> DEFINE d == [disk EXCEPT !.objects =
                      IF disk.versioned /\ disk.file # 0 THEN @ \cup {disk.file} ELSE @]
  <2>1. either(To(w, "replace")) /\ j.step = "retain_old" /\ disk' \in {disk, d}
        /\ UNCHANGED <<site, control>>
    BY <1>13 DEF RetainOld, Touch, SetDisk, Same, stores, Become, Frame, Moved, At
  <2>2. /\ DOMAIN d = DiskFields /\ d.file = disk.file /\ d.static = disk.static
        /\ d.objects = disk.objects \/ (disk.file # 0 /\ d.objects = disk.objects \cup {disk.file})
    BY DataKnown DEF DiskFields
  <2> HIDE DEF d
  <2>3. DiskData(d, n) BY <2>2, DataKnown DEF DiskData
  <2>4. Stored /\ still BY <1>5, <2>1, <2>2, <2>3
  <2> QED BY <1>4, <2>1, <2>4 DEF Changing
<1>14. CASE Replace(w)
  <2> DEFINE v == IF j.kind = "delete" THEN 0 ELSE j.value
             d == [disk EXCEPT !.file = v]
  <2>1. either(To(w, "unhide")) /\ j.step = "replace" /\ disk' \in {disk, d}
        /\ UNCHANGED <<site, control>>
    BY <1>14 DEF Replace, Touch, SetDisk, Same, stores, Become, Frame, Moved, At
  <2>2. j.kind \in Edits BY <2>1, Doing DEF Changing
  <2>3. v \in 0..n BY <2>2, DataKnown DEF JobData
  <2>4. /\ DOMAIN d = DiskFields /\ d.file = v /\ d.static = disk.static
        /\ d.objects = disk.objects
    BY DataKnown DEF DiskFields
  <2> HIDE DEF d, v
  <2>5. Stored /\ still BY <1>5, <2>1, <2>3, <2>4, DataKnown DEF DiskData
  <2> QED BY <1>4, <2>1, <2>5 DEF Changing
<1>15. CASE Unhide(w)
  <2> DEFINE s == [site EXCEPT !.hidden = @ \ {"file"}]
  <2>1. Moved(w, Quit(j)) /\ site' \in {site, s} /\ UNCHANGED <<control, disk>>
    BY <1>15 DEF Unhide, Store, Access, Same, SetSite, stores, Become, Frame, Moved
  <2>2. /\ s.page = site.page /\ s.live = site.live /\ s.latest = site.latest
        /\ s.props = site.props /\ s.hidden \subseteq site.hidden /\ s.points = site.points
        /\ s.stage = site.stage /\ s.point = site.point /\ s.from = site.from
    BY Known DEF StoresOK, SiteFields
  <2> HIDE DEF s
  <2>3. Stored /\ still BY <1>6, <2>1, <2>2, DataKnown DEF SiteData
  <2> QED BY <2>1, <2>3, DataQuits
<1>16. CASE Redirect(w)
  <2> DEFINE s == [site EXCEPT !.props = j.value]
  <2>1. /\ Moved(w, Quit(j)) /\ site' \in {site, s} /\ UNCHANGED <<control, disk>>
        /\ j.step = "redirect"
    BY <1>16 DEF Redirect, Store, Access, Same, SetSite, stores, Become, Frame, Moved, At
  <2>2. j.kind \in Edits BY <2>1, Doing DEF Changing
  <2>3. j.value \in 0..n BY <2>2, DataKnown DEF JobData
  <2>4. /\ s.page = site.page /\ s.live = site.live /\ s.latest = site.latest
        /\ s.props = j.value /\ s.hidden = site.hidden /\ s.points = site.points
        /\ s.stage = site.stage /\ s.point = site.point /\ s.from = site.from
    BY Known DEF StoresOK, SiteFields
  <2> HIDE DEF s
  <2>5. Stored /\ still BY <1>6, <2>1, <2>3, <2>4, DataKnown DEF SiteData
  <2> QED BY <2>1, <2>5, DataQuits
<1>17. CASE SetRules(w)
  <2> DEFINE c == [control EXCEPT !.rules = j.value]
  <2>1. /\ either(To(w, "read_rules")) /\ control' \in {control, c}
        /\ UNCHANGED <<site, disk>> /\ j.step = "rules"
    BY <1>17 DEF SetRules, Access, Same, SetControl, stores, Become, Frame, Moved, At
  <2>2. j.kind \in Edits BY <2>1, Doing DEF Changing
  <2>3. j.value \in 0..n BY <2>2, DataKnown DEF JobData
  <2>4. /\ c.rules = j.value /\ c.token = control.token /\ c.protection = control.protection
    BY Known DEF StoresOK, ControlFields
  <2> HIDE DEF c
  <2>5. ControlData(c, n) BY <2>3, <2>4, DataKnown DEF ControlData
  <2>6. Stored /\ still BY <1>7, <2>1, <2>4, <2>5 DEF DataInv, TokenShape
  <2> QED BY <1>4, <2>1, <2>6 DEF Changing
<1>18. CASE ReadRules(w)
  <2> DEFINE r == [To(w, "prefix") EXCEPT !.old = control.rules]
  <2>1. either(r) /\ UNCHANGED <<site, control, disk>>
    BY <1>18 DEF ReadRules, Load, Access, Same, stores, Become, Frame, Moved
  <2>2. j.kind \in Edits /\ j.step = "read_rules" BY <1>18, Doing DEF ReadRules, At, Changing
  <2>3. /\ r.kind = j.kind /\ r.value = j.value /\ r.todo = j.todo /\ r.begun = j.begun
        /\ r.guard = j.guard /\ r.step = "prefix"
    BY GoingFields DEF JobFields
  <2> HIDE DEF r
  <2> QED BY <1>2, <1>3, <2>1, <2>2, <2>3 DEF EditSteps, Changing
<1>19. CASE WritePrefix(w)
  <2> DEFINE d == [disk EXCEPT !.prefix = j.old]
  <2>1. Moved(w, Quit(j)) /\ disk' \in {disk, d} /\ UNCHANGED <<site, control>>
    BY <1>19 DEF WritePrefix, Touch, SetDisk, Same, stores, Become, Frame, Moved
  <2>2. /\ DOMAIN d = DiskFields /\ d.file = disk.file /\ d.static = disk.static
        /\ d.objects = disk.objects
    BY DataKnown DEF DiskFields
  <2> HIDE DEF d
  <2>3. Stored /\ still BY <1>5, <2>1, <2>2, DataKnown DEF DiskData
  <2> QED BY <2>1, <2>3, DataQuits
<1>20. CASE SetToken(w)
  <2> DEFINE token == IF j.kind = "revoke" THEN [id |-> 0, left |-> 0]
                      ELSE [id |-> j.value, left |-> 1]
             c == [control EXCEPT !.token = token]
  <2>1. /\ Moved(w, Quit(j)) /\ control' \in {control, c}
        /\ UNCHANGED <<site, disk>> /\ j.step = "token"
    BY <1>20 DEF SetToken, Access, Same, SetControl, stores, Become, Frame, Moved, At
  <2>2. j.kind \in Edits BY <2>1, Doing DEF Changing
  <2>3. j.value \in 0..n /\ 0 \in 0..n BY <2>2, DataKnown DEF JobData
  <2>4. token.id \in 0..n /\ token.left \in {0, 1} /\ DOMAIN token = {"id", "left"}
    <3>1. CASE j.kind = "revoke"
      <4>1. token = [id |-> 0, left |-> 0] BY <3>1
      <4> HIDE DEF token
      <4> QED BY <2>3, <4>1
    <3>2. CASE j.kind # "revoke"
      <4>1. token = [id |-> j.value, left |-> 1] BY <3>2
      <4> HIDE DEF token
      <4> QED BY <2>3, <4>1
    <3> QED BY <3>1, <3>2
  <2> HIDE DEF token
  <2>5. /\ c.rules = control.rules /\ c.token = token /\ c.protection = control.protection
    BY Known DEF StoresOK, ControlFields
  <2> HIDE DEF c
  <2>6. ControlData(c, n) BY <2>4, <2>5, DataKnown DEF ControlData
  <2>7. Stored /\ still BY <1>7, <2>1, <2>4, <2>5, <2>6
  <2> QED BY <2>1, <2>7, DataQuits
<1> QED
  BY <1>8, <1>9, <1>10, <1>11, <1>12, <1>13, <1>14, <1>15, <1>16, <1>17, <1>18, <1>19, <1>20
  DEF Editing

(* Nobody has a lease before it is granted.                                 *)
LEMMA DataWaits ==
    ASSUME IInv, DataInv, NEW w \in Workers, NEW r, NEW h,
           job' = [job EXCEPT ![w] = r],
           holder' = [holder EXCEPT ![w] = h] \/ (holder' = holder /\ h = holder[w]),
           Stored, DOMAIN site'.points = DOMAIN site.points, version' = version,
           JobData(r, site, control, disk, version), r.step # "save", Entered(w, r, h)
    PROVE  DataInv'
<1>1. version \in Nat BY DEF DataInv, StoresData
<1>2. JobData(r, site', control', disk', version') BY <1>1, JobGrows DEF Growing, Stored
<1> QED BY <1>2, DataMoves

(* What a worker is when its call has ended asks for nothing.               *)
LEMMA EndedData ==
    ASSUME NEW w \in Workers
    PROVE  /\ JobData(Ended(w), site, control, disk, version) /\ Entered(w, Ended(w), "none")
           /\ Ended(w).step # "save"
<1> DEFINE e == Ended(w)
<1>1. e.kind = "none" /\ e.step \in {"idle", "refresh"} /\ e.guard = FALSE
  BY DEF Ended, Idle
<1> HIDE DEF e
<1>2. JobData(e, site, control, disk, version) BY <1>1 DEF JobData, Based, Edits
<1>3. Entered(w, e, "none") BY <1>1 DEF Entered, Exclusive
<1> QED BY <1>1, <1>2, <1>3 DEF e

(* Leases come and go beside the stores.                                    *)
LEMMA LeasesData ==
    ASSUME IInv, DataInv, NEW w \in Workers,
           Queue(w) \/ Granted(w) \/ Abandon(w) \/ Join(w) \/ Return(w) \/ Leave(w)
    PROVE  DataInv'
<1> DEFINE j == job[w]
           n == version
           still == DOMAIN site'.points = DOMAIN site.points
<1>1. version' = version BY VersionStays DEF JobStep, Serving
<1>2. UNCHANGED <<site, control, disk>> => Stored /\ still BY <1>1, StoresStay
<1>3. JobData(j, site, control, disk, n) /\ Entered(w, j, holder[w]) BY DataKnown
<1>4. CASE Queue(w)
  <2> DEFINE c(v) == [job[v] EXCEPT !.canceled = TRUE]
             r == IF Busy THEN Quit(j) ELSE To(w, "turn")
  <2>1. /\ j.step = "admit" /\ j.kind \in Exclusive /\ UNCHANGED <<site, control, disk, gate>>
        /\ \A v \in Workers : job'[v] = IF v = w THEN r
                                        ELSE IF j.kind = "restore" /\ job[v].kind = "import"
                                        THEN c(v) ELSE job[v]
    BY <1>4 DEF Queue, At, stores, Frame
  <2>2. ASSUME NEW v \in Workers, job'[v] = c(v)
        PROVE  JobData(job'[v], site, control, disk, n) /\ Entered(v, job'[v], holder[v])
    <3> DEFINE i == job[v]
               x == job'[v]
    <3>1. DOMAIN i = JobFields BY Known
    <3>2. /\ x.kind = i.kind /\ x.step = i.step /\ x.id = i.id /\ x.taken = i.taken
          /\ x.todo = i.todo /\ x.flag = i.flag /\ x.value = i.value /\ x.old = i.old
          /\ x.begun = i.begun /\ x.guard = i.guard
      BY <2>2, <3>1 DEF JobFields
    <3>3. JobData(i, site, control, disk, n) /\ Entered(v, i, holder[v]) BY DataKnown
    <3> HIDE DEF i, x
    <3>4. Based(x) => Based(i) BY <3>2 DEF Based
    <3>5. i.step \in {"retain", "shield", "save"} /\ TakenData(i, disk, n) => TakenData(x, disk, n)
      BY <3>2 DEF TakenData, Coming
    <3>6. JobData(x, site, control, disk, n)
      <4>1. Based(x) => Sound(x.id, site, disk) BY <3>2, <3>3, <3>4 DEF JobData
      <4>2. x.step \in {"retain", "shield", "save"} => TakenData(x, disk, n)
        BY <3>2, <3>3, <3>5 DEF JobData
      <4> QED BY <3>2, <3>3, <4>1, <4>2 DEF JobData
    <3>7. Entered(v, x, holder[v]) BY <3>2, <3>3 DEF Entered
    <3> QED BY <3>6, <3>7 DEF x
  <2>3. JobData(r, site, control, disk, n) /\ Entered(w, r, holder[w])
    <3>1. CASE Busy
      <4>1. /\ r.kind = j.kind /\ r.begun = j.begun /\ r.guard = j.guard
            /\ r.step = IF j.kind \in Edits THEN "leave" ELSE "return"
            /\ r.value = j.value /\ r.todo = j.todo
        BY <3>1, QuittingFields
      <4> HIDE DEF r
      <4> QED BY <1>3, <2>1, <4>1, PlainData DEF Based, Demanding, Entered
    <3>2. CASE ~Busy
      <4>1. /\ r.kind = j.kind /\ r.begun = j.begun /\ r.guard = j.guard /\ r.step = "turn"
            /\ r.value = j.value /\ r.todo = j.todo
        BY <3>2, GoingFields
      <4> HIDE DEF r
      <4> QED BY <1>3, <2>1, <4>1, PlainData DEF Based, Demanding, Entered
    <3> QED BY <3>1, <3>2
  <2> HIDE DEF r
  <2>4. ASSUME NEW v \in Workers
        PROVE  JobData(job'[v], site, control, disk, n) /\ Entered(v, job'[v], holder[v])
    <3>1. CASE job'[v] = c(v) BY <2>2, <3>1
    <3>2. CASE v = w /\ job'[v] = r BY <2>3, <3>2
    <3>3. CASE job'[v] = job[v] BY <3>3, DataKnown
    <3> QED BY <2>1, <3>1, <3>2, <3>3
  <2>5. holder' = holder BY <2>1 DEF gate
  <2>6. Stored BY <1>2, <2>1
  <2>7. \A v \in Workers : JobData(job'[v], site', control', disk', version')
    BY <1>1, <2>1, <2>4
  <2> QED BY <2>4, <2>5, <2>6, <2>7 DEF DataInv, Stored
<1>5. CASE Granted(w)
  <2> DEFINE r == To(w, CASE j.kind = "freeze"  -> "journal"
                          [] j.kind = "publish" -> "editable"
                          [] j.kind = "restore" -> "check")
  <2>1. /\ job' = [job EXCEPT ![w] = r] /\ UNCHANGED <<site, control, disk>>
        /\ Gate!Grant(w, "exclusive", 0) /\ j.step = "turn"
    BY <1>5 DEF Granted, Become, At, stores
  <2>2. j.kind \in Exclusive BY <2>1 DEF IInv, Placed
  <2>3. /\ r.kind = j.kind /\ r.begun = j.begun /\ r.guard = j.guard
        /\ r.step \in {"journal", "editable", "check"}
    BY <2>2, GoingFields DEF Exclusive
  <2> HIDE DEF r
  <2>4. JobData(r, site, control, disk, n)
    BY <1>3, <2>2, <2>3, PlainData DEF Based, Demanding, Exclusive, Edits
  <2>5. Entered(w, r, "exclusive") BY <1>3, <2>3 DEF Entered
  <2>6. holder' = [holder EXCEPT ![w] = "exclusive"] BY <2>1, Granting
  <2> QED BY <1>1, <1>2, <2>1, <2>3, <2>4, <2>5, <2>6, DataWaits
<1>6. CASE Abandon(w)
  <2>1. Moved(w, Quit(j)) /\ UNCHANGED <<site, control, disk>>
    BY <1>6 DEF Abandon, Become, stores, Frame, Moved
  <2> QED BY <1>2, <2>1, DataQuits
<1>7. CASE Join(w)
  <2>1. j.step = "admit" /\ j.kind \in Edits /\ UNCHANGED <<site, control, disk>> /\ Watched
    BY <1>7 DEF Join, At, stores
  <2>2. CASE Moved(w, Quit(j)) BY <1>2, <2>1, <2>2, DataQuits
  <2>3. CASE ~Moved(w, Quit(j))
    <3> DEFINE r == [To(w, "editable") EXCEPT !.begun = j.kind = "import"]
    <3>1. job' = [job EXCEPT ![w] = r] /\ Gate!Grant(w, "shared", Expected(j))
      BY <1>7, <2>3 DEF Join, Become, Moved
    <3>2. /\ r.kind = j.kind /\ r.value = j.value /\ r.todo = j.todo /\ r.guard = j.guard
          /\ r.step = "editable"
      BY GoingFields DEF JobFields
    <3> HIDE DEF r
    <3>3. JobData(r, site, control, disk, n)
      BY <1>3, <2>1, <3>2, PlainData DEF Based, Demanding, Edits
    <3>4. ~j.guard BY <1>3, <2>1 DEF Entered
    <3>5. Entered(w, r, "shared") BY <2>1, <3>2, <3>4 DEF Entered, Edits, Exclusive
    <3>6. holder' = [holder EXCEPT ![w] = "shared"] BY <3>1, Granting
    <3> QED BY <1>1, <1>2, <2>1, <3>1, <3>2, <3>3, <3>5, <3>6, DataWaits
  <2> QED BY <2>2, <2>3
<1>8. CASE Return(w)
  <2> DEFINE r == IF j.kind \in Edits THEN Ended(w) ELSE To(w, "leave")
  <2>1. /\ job' = [job EXCEPT ![w] = r] /\ UNCHANGED <<site, control, disk>>
        /\ (holder[w] = "none" /\ UNCHANGED gate) \/ Gate!Return(w) \/ Gate!Advance(w)
    BY <1>8 DEF Return, Become, At, stores
  <2>2. /\ JobData(r, site, control, disk, n) /\ Entered(w, r, "none") /\ r.step # "save"
    <3>1. CASE j.kind \in Edits BY <3>1, EndedData
    <3>2. CASE j.kind \notin Edits
      <4>1. /\ r.kind = j.kind /\ r.begun = j.begun /\ r.guard = j.guard
            /\ r.step = "leave" /\ r.value = j.value /\ r.todo = j.todo
        BY <3>2, GoingFields
      <4> HIDE DEF r
      <4> QED BY <1>3, <3>2, <4>1, PlainData DEF Based, Demanding, Entered
    <3> QED BY <3>1, <3>2
  <2>3. holder' = [holder EXCEPT ![w] = "none"] \/ (holder' = holder /\ holder[w] = "none")
    BY <2>1, Returning DEF gate
  <2> HIDE DEF r
  <2> QED BY <1>1, <1>2, <2>1, <2>2, <2>3, DataWaits
<1>9. CASE Leave(w)
  <2> DEFINE q == [To(w, "return") EXCEPT !.begun = FALSE, !.guard = FALSE]
             r == IF j.kind \in Edits THEN q ELSE Ended(w)
  <2>1. /\ Moved(w, r) /\ j.step = "leave" /\ UNCHANGED <<site, control>>
        /\ disk' = disk \/ WritePolicy
    BY <1>9 DEF Leave, At, PublishPolicy, WritePolicy, SetDisk, Same, stores, Become, Frame, Moved
  <2>2. Stored /\ still BY <1>1, <2>1, PolicyChanges DEF WritePolicy, SetDisk
  <2>3. /\ q.kind = j.kind /\ q.value = j.value /\ q.todo = j.todo /\ q.guard = FALSE
        /\ q.step = "return"
    BY GoingFields DEF JobFields
  <2> HIDE DEF q
  <2>4. /\ JobData(r, site, control, disk, n) /\ Entered(w, r, holder[w]) /\ r.step # "save"
    <3>1. CASE j.kind \in Edits
      <4>1. JobData(q, site, control, disk, n)
        BY <1>3, <2>3, PlainData DEF Based, Demanding
      <4>2. Entered(w, q, holder[w]) BY <2>3, <3>1 DEF Entered, Edits, Exclusive
      <4> QED BY <2>3, <3>1, <4>1, <4>2
    <3>2. CASE j.kind \notin Edits
      <4>1. holder[w] = "none" BY <1>3, <2>1, <3>2 DEF Entered
      <4> QED BY <3>2, <4>1, EndedData
    <3> QED BY <3>1, <3>2
  <2> HIDE DEF r
  <2>5. job' = [job EXCEPT ![w] = r] /\ holder' = holder BY <2>1 DEF Moved, gate
  <2> QED BY <1>1, <2>2, <2>4, <2>5, DataWaits
<1> QED BY <1>4, <1>5, <1>6, <1>7, <1>8, <1>9

(* A call that starts may make a version, and changes no store.             *)
LEMMA StartData ==
    ASSUME IInv, DataInv, NEW w \in Calls, NEW kind, NEW p \in Pages, Start(w, kind, p)
    PROVE  DataInv'
<1> DEFINE r == Call(kind, p)
           n == version
<1>1. w \in Workers BY DEF Workers
<1>2. /\ job[w] = Idle /\ job' = [job EXCEPT ![w] = r] /\ holder' = holder
      /\ UNCHANGED <<site, control, disk>>
      /\ version' = IF kind \in Edits THEN n + 1 ELSE n
  BY DEF Start, Become, stores, gate
<1>3. n \in Nat /\ n <= version' /\ version' \in Nat BY <1>1, <1>2, DataKnown
<1>4. Stored
  <2>1. 0..n \subseteq 0..version' /\ 1..n \subseteq 1..version' BY <1>3
  <2>2. [Pages -> 0..n] \subseteq [Pages -> 0..version'] BY <2>1
  <2>3. SiteData(site, disk, version')
    <3> DEFINE m == version'
    <3>1. SiteData(site, disk, n) BY <1>1, DataKnown
    <3>2. ASSUME NEW k \in Nat, n <= k PROVE SiteData(site, disk, k)
      BY <1>3, <3>1, <3>2, SiteGrows
    <3>3. m \in Nat /\ n <= m BY <1>3
    <3> QED BY <3>2, <3>3
  <2>4. ControlData(control, version') BY <1>1, <2>1, DataKnown DEF ControlData
  <2>5. DiskData(disk, version') BY <1>1, <2>1, <2>2, DataKnown DEF DiskData
  <2> QED
    BY <1>2, <1>3, <2>3, <2>4, <2>5
    DEF DataInv, Stored, StoresData, Growing, Extends, DiskShape, TokenShape
<1>5. /\ r.kind = kind /\ r.step \in {"precheck", "admit"} /\ r.guard = FALSE
      /\ r.begun = (kind \in Exclusive)
      /\ kind \in Edits => r.value = n + 1
      /\ kind \in {"page", "import"} => r.todo = <<p>>
  BY DEF Call, Idle
<1> HIDE DEF r
<1>6. Entered(w, r, holder[w])
  <2>1. Idle.step = "idle" BY DEF Idle
  <2>2. holder[w] = "none" BY <1>1, <1>2, <2>1, DataKnown DEF Entered
  <2> QED BY <1>5, <2>2 DEF Entered
<1>7. JobData(r, site', control', disk', version')
  <2>1. kind \in Edits => r.value \in 1..version' BY <1>2, <1>3, <1>5
  <2>2. <<p>> \in Seq(Pages) /\ <<p>> # <<>> OBVIOUS
  <2>3. r.kind \in {"page", "import"} => r.todo \in Seq(Pages) /\ r.todo # <<>>
    BY <1>5, <2>2
  <2> QED BY <1>5, <2>1, <2>3 DEF JobData, Based
<1> QED BY <1>1, <1>2, <1>4, <1>6, <1>7, DataMoves

(* Startup reads the journal, and writes the policy.                        *)
LEMMA StartupData ==
    ASSUME IInv, DataInv, Startup
    PROVE  DataInv'
<1>1. Recovery \in Workers /\ Recovery \notin Calls BY FreezeAssumption DEF Workers
<1>2. /\ UNCHANGED <<site, control, version, holder>>
      /\ disk' = disk \/ WritePolicy
  BY DEF Startup, Scan, Refresh, Access, Same, PublishPolicy, WritePolicy, SetDisk, Frame,
         stores, gate
<1>3. Stored /\ DOMAIN site'.points = DOMAIN site.points
  BY <1>2, PolicyChanges DEF WritePolicy, SetDisk
<1>4. PICK r \in {Resumed, [Idle EXCEPT !.step = "refresh"], Idle} :
          job' = [job EXCEPT ![Recovery] = r]
  BY DEF Startup, Scan, Refresh, Access, Become
<1>5. /\ r.kind \notin Edits /\ r.guard = FALSE
      /\ r.step \in {"precheck", "publishing", "admit", "refresh", "idle"}
  <2>1. CASE r = Resumed
    <3>1. CASE site.stage = "restoring" BY <2>1, <3>1 DEF Resumed, Idle, Edits
    <3>2. CASE site.stage = "publishing" BY <2>1, <3>2 DEF Resumed, Idle, Edits
    <3>3. CASE site.stage = "preparing" BY <2>1, <3>3 DEF Resumed, Idle, Edits
    <3>4. CASE site.stage \notin {"restoring", "publishing", "preparing"}
      BY <2>1, <3>4 DEF Resumed, Idle, Edits
    <3> QED BY <3>1, <3>2, <3>3, <3>4
  <2>2. CASE r = [Idle EXCEPT !.step = "refresh"] BY <2>2 DEF Idle, Edits
  <2>3. CASE r = Idle BY <2>3 DEF Idle, Edits
  <2> QED BY <2>1, <2>2, <2>3
<1>6. JobData(r, site, control, disk, version) BY <1>5 DEF JobData, Based, Edits
<1>7. Entered(Recovery, r, holder[Recovery])
  <2>1. job[Recovery].step \in {"scan", "refresh"} BY DEF Startup, Scan, Refresh, At
  <2>2. holder[Recovery] = "none" BY <1>1, <2>1, DataKnown DEF Entered
  <2> QED BY <1>1, <1>5, <2>2 DEF Entered
<1>8. r.step # "save" BY <1>5
<1> QED BY <1>1, <1>2, <1>3, <1>4, <1>6, <1>7, <1>8, DataWaits

(* A visitor and a crash leave what calls rely on.                          *)
LEMMA ConsumeData ==
    ASSUME IInv, DataInv, Consume
    PROVE  DataInv'
<1> DEFINE c == [control EXCEPT !.token.left = @ - 1]
<1>1. /\ control' = c /\ UNCHANGED <<site, disk, version, job, holder>>
      /\ control.token.left > 0
  BY DEF Consume, SetControl, Frame, gate
<1>2. StoresOK /\ version \in Nat /\ ControlData(control, version) /\ TokenShape
  BY DEF IInv, Shape, StoresOK, DataInv, StoresData
<1>3. c.rules = control.rules /\ c.protection = control.protection
      /\ c.token = [control.token EXCEPT !.left = @ - 1]
  BY <1>2 DEF StoresOK, ControlFields
<1> HIDE DEF c
<1>4. /\ c.token.id = control.token.id /\ c.token.left = control.token.left - 1
      /\ DOMAIN c.token = {"id", "left"}
  BY <1>2, <1>3 DEF TokenShape
<1>5. ControlData(c, version) /\ c.token.left \in {0, 1}
  BY <1>1, <1>2, <1>3, <1>4 DEF ControlData, TokenShape
<1>6. Stored /\ DOMAIN site'.points = DOMAIN site.points
  BY <1>1, <1>3, <1>4, <1>5, ControlChanges DEF TokenShape
<1>7. ASSUME NEW v \in Workers
      PROVE  JobData(job[v], site', control', disk', version') /\ Entered(v, job[v], holder[v])
  <2>1. JobData(job[v], site, control, disk, version) /\ Entered(v, job[v], holder[v])
    BY DEF DataInv
  <2>2. job[v].step = "save" => job[v].value \notin DOMAIN site'.points
    BY <1>6, <2>1 DEF JobData
  <2> QED BY <1>2, <1>6, <2>1, <2>2, JobGrows DEF Growing, Stored
<1>8. \A v \in Workers : /\ JobData(job'[v], site', control', disk', version')
                         /\ Entered(v, job'[v], holder'[v])
  BY <1>1, <1>7
<1> QED BY <1>6, <1>8 DEF DataInv, Stored

(* After a crash every worker starts from nothing.                          *)
LEMMA CrashData ==
    ASSUME DataInv, Crash
    PROVE  DataInv'
<1>1. /\ UNCHANGED <<site, control, disk, version>>
      /\ job' = [w \in Workers |-> IF w = Recovery THEN [Idle EXCEPT !.step = "scan"] ELSE Idle]
      /\ holder' = [w \in Workers |-> "none"]
  BY DEF Crash, stores
<1>2. Stored BY <1>1, StoresStay
<1>3. ASSUME NEW v \in Workers
      PROVE  JobData(job'[v], site', control', disk', version') /\ Entered(v, job'[v], holder'[v])
  <2> DEFINE r == job'[v]
  <2>1. r.kind = "none" /\ r.step \in {"idle", "scan"} /\ r.guard = FALSE BY <1>1 DEF Idle
  <2>2. holder'[v] = "none" BY <1>1
  <2> HIDE DEF r
  <2>3. JobData(r, site', control', disk', version') BY <2>1 DEF JobData, Based, Edits
  <2>4. Entered(v, r, holder'[v]) BY <2>1, <2>2 DEF Entered, Exclusive
  <2> QED BY <2>3, <2>4 DEF r
<1> QED BY <1>2, <1>3 DEF DataInv, Stored

(* At first one page is published, and a frozen site keeps its file.        *)
LEMMA InitData == Init => DataInv
<1> SUFFICES ASSUME Init PROVE DataInv
  OBVIOUS
<1> DEFINE first == CHOOSE p \in Pages : TRUE
           some  == [p \in Pages |-> IF p = first THEN 1 ELSE IF p \in setup.drafts THEN 2 ELSE 0]
           live  == [NoPages EXCEPT ![first] = 1]
           start == [NoPoint EXCEPT !.page = some, !.live[first] = 1, !.latest = some, !.file = 3]
<1>1. /\ start.page = some /\ start.live = live /\ start.latest = some /\ start.props = 0
      /\ start.file = 3 /\ start.rules = 0 /\ start.token = 0
      /\ DOMAIN start = {"page", "live", "latest", "props", "file", "rules", "token"}
  BY DEF NoPoint
<1>2. version = 3 BY DEF Init
<1>3. /\ site.page = some /\ site.live = start.live /\ site.latest = some /\ site.props = 0
      /\ site.hidden = {} /\ site.stage = IF setup.frozen THEN "frozen" ELSE "none"
      /\ site.point = IF setup.frozen THEN 1 ELSE 0
      /\ site.points = IF setup.frozen THEN [id \in {1} |-> start] ELSE <<>>
  BY DEF Init
<1>4. /\ control.rules = 0 /\ control.token = [id |-> 0, left |-> 0]
      /\ control.protection = IF setup.frozen THEN {1} ELSE {}
  BY DEF Init
<1>5. /\ disk.static = start.live /\ disk.file = 3
      /\ disk.objects = IF setup.frozen THEN {1, 3} ELSE {}
      /\ DOMAIN disk = DiskFields
  BY DEF Init, DiskFields
<1>6. some \in [Pages -> 0..3] /\ live \in [Pages -> {0, 1}] /\ live \in [Pages -> 0..3]
  <2>1. some \in [Pages -> 0..3] OBVIOUS
  <2>2. live \in [Pages -> {0, 1}] BY DEF NoPages
  <2>3. {0, 1} \subseteq 0..3 OBVIOUS
  <2>4. [Pages -> {0, 1}] \subseteq [Pages -> 0..3] BY <2>3
  <2> QED BY <2>1, <2>2, <2>4
<1> HIDE DEF some, live
<1>7. Sized(start, 3)
  <2>1. start = [f \in DOMAIN start |-> start[f]] OBVIOUS
  <2> HIDE DEF start
  <2>2. 0 \in 0..3 /\ 3 \in 0..3 OBVIOUS
  <2> QED BY <1>1, <1>6, <2>1, <2>2 DEF Sized
<1> HIDE DEF start
<1>8. setup.frozen => /\ DOMAIN site.points = {1} /\ site.points[1] = start
                      /\ Sound(1, site, disk) /\ Retained(start.file, disk)
  BY <1>1, <1>3, <1>5, <1>6 DEF Sound, Retained
<1>9. ~setup.frozen => DOMAIN site.points = {} BY <1>3
<1>10. SiteData(site, disk, 3)
  <2>1. \A id \in DOMAIN site.points : Sized(site.points[id], 3) /\ Retained(site.points[id].file, disk)
    BY <1>7, <1>8, <1>9
  <2>2. site.stage # "none" => Sound(site.point, site, disk) BY <1>3, <1>8
  <2> QED BY <1>1, <1>3, <1>6, <2>1, <2>2 DEF SiteData, Stages
<1>11. ControlData(control, 3)
  <2>1. {1} = 1..1 /\ {} = 1..0 /\ 0 \in Nat /\ 1 \in Nat OBVIOUS
  <2>2. \E k \in Nat : control.protection = 1..k BY <1>4, <2>1
  <2>3. control.token.id = 0 BY <1>4
  <2> QED BY <1>4, <2>2, <2>3 DEF ControlData
<1>12. DiskData(disk, 3) BY <1>1, <1>5, <1>6 DEF DiskData
<1>13. DOMAIN site.points \subseteq control.protection BY <1>4, <1>8, <1>9
<1>14. DiskShape /\ TokenShape BY <1>4, <1>5 DEF DiskShape, TokenShape
<1>15. ASSUME NEW w \in Workers
       PROVE  JobData(job[w], site, control, disk, version) /\ Entered(w, job[w], holder[w])
  <2>1. job[w] = Idle /\ holder[w] = "none" BY DEF Init, Gate!Init
  <2>2. Idle.kind = "none" /\ Idle.step = "idle" /\ Idle.guard = FALSE BY DEF Idle
  <2>3. JobData(Idle, site, control, disk, version) BY <2>2 DEF JobData, Based, Edits
  <2>4. Entered(w, Idle, "none") BY <2>2 DEF Entered, Exclusive
  <2> QED BY <2>1, <2>3, <2>4
<1> QED BY <1>2, <1>10, <1>11, <1>12, <1>13, <1>14, <1>15 DEF DataInv, StoresData

(* Every step leaves the stores in order.                                   *)
LEMMA DataKeeps == IInv /\ DataInv /\ [Next]_vars => DataInv'
<1> SUFFICES ASSUME IInv, DataInv, [Next]_vars PROVE DataInv'
  OBVIOUS
<1>1. CASE UNCHANGED vars
  <2>1. UNCHANGED <<version, site, control, disk, job, holder>> BY <1>1 DEF vars, stores, gate
  <2> QED BY <2>1 DEF DataInv, StoresData, DiskShape, TokenShape
<1>2. CASE Next
  <2>1. ASSUME NEW w \in Workers, JobStep(w) PROVE DataInv'
    BY <2>1, LeasesData, EditingData, FreezingData, DiscardingData
    DEF JobStep, Serving, Editing
  <2> QED BY <1>2, <2>1, StartData, StartupData, ConsumeData, CrashData DEF Next
<1> QED BY <1>1, <1>2

(* What the stores hold refers to nothing that is missing, and every call   *)
(* relies on what is there.                                                 *)
THEOREM DataInvariant == Spec => []DataInv
<1>1. Init => DataInv BY InitData
<1>2. IInv /\ DataInv /\ [Next]_vars => DataInv' BY DataKeeps
<1> QED BY <1>1, <1>2, InductiveInvariant, PTL DEF Spec

(* A checkpoint never refers to content or protection that is not there:    *)
(* the journal, the control database and the object files commit separately *)
(* (createFreezeCheckpoint, saveFreezeCheckpoint, retainAssetVersion).      *)
THEOREM ReferencedObjectsExistAlways == Spec => []ReferencedObjectsExist
<1>1. ASSUME IInv, DataInv PROVE ReferencedObjectsExist
  <2>1. /\ version \in Nat /\ SiteData(site, disk, version) /\ ControlData(control, version)
        /\ DiskData(disk, version) /\ DOMAIN site.points \subseteq control.protection
    BY <1>1 DEF DataInv, StoresData
  <2>2. \A point : Sized(point, version) => PointOK(point)
    <3>1. 0..version \subseteq Nat BY <2>1
    <3>2. [Pages -> 0..version] \subseteq [Pages -> Nat] BY <3>1
    <3> QED BY <3>1, <3>2 DEF Sized, PointOK
  <2>3. PointOK(Captured) BY <1>1, <2>2, CapturedData
  <2>4. \A id \in DOMAIN site.points : PointOK(site.points[id]) BY <2>1, <2>2 DEF SiteData
  <2>5. site.stage # "none" => /\ site.point \in DOMAIN site.points
                               /\ \A p \in Pages : Point.live[p] \in disk.objects \cup {0}
    BY <2>1 DEF SiteData, Sound, Retained, Point
  <2>6. \A w \in Workers : /\ holder[w] # "none" => job[w].step # "idle"
                           /\ job[w].guard => job[w].begun \/ w = Recovery
    BY <1>1 DEF DataInv, Entered
  <2>7. control.flag \in 0..1 /\ control.token.left \in 0..1
    BY <1>1 DEF IInv, Shape, DataInv, TokenShape
  <2>8. TypeOK
    BY <2>1, <2>3, <2>4, <2>5, <2>6, <2>7 DEF TypeOK, SiteData, Stages, DiskData
  <2>9. \A id \in DOMAIN site.points : site.points[id].file \in disk.objects \cup {0}
    BY <2>1 DEF SiteData, Retained
  <2> QED BY <2>1, <2>5, <2>8, <2>9 DEF ReferencedObjectsExist
<1> QED BY <1>1, InductiveInvariant, DataInvariant, PTL
-----------------------------------------------------------------------------
(* What guests get *)

(* Where the journal stands, and the flag.                                  *)
Key == <<site.stage, site.point, site.points, control.flag>>

(* Whoever changes the flag holds the barrier, and so does every editor of  *)
(* files and settings.                                                      *)
Guarding == \A w \in Workers : /\ job[w].guard => disk.blocked
                               /\ job[w].step = "flag" => job[w].guard

(* A pinned guest has the publication of the checkpoint, or the barrier.    *)
Held == control.flag = 1 =>
            disk.blocked \/ (disk.policy.frozen /\ disk.policy.pinned = Point.live)

(* A call that will move the journal does so from where it has found it.    *)
AtPoint(r, stage, point, flag) ==
    /\ r.kind = "freeze" /\ r.step \in {"capture", "retain", "shield", "save"}
          => flag = 0 /\ stage = "none"
    /\ r.kind = "freeze" /\ r.step \in {"protect", "flag", "open", "activate"} => r.id = point
    /\ r.kind = "publish" /\ r.step = "mark" => r.id = point /\ stage # "none"
    /\ r.kind = "restore" /\ r.step \in {"compare", "retain", "shield", "save", "restoring"}
          => r.id = point /\ stage # "none"

GuestInv ==
    /\ Guarding
    /\ ~rival => /\ Held
                 /\ \A w \in Workers : AtPoint(job[w], site.stage, site.point, control.flag)

(* Outside the stores, and in an edit, nothing is asked of the journal.     *)
LEMMA Elsewhere ==
    ASSUME NEW r, r.step \in Outside \/ r.kind \in Edits, NEW stage, NEW point, NEW flag
    PROVE  AtPoint(r, stage, point, flag)
BY DEF AtPoint, Outside, Edits

(* Beside the call that moves the journal no other one relies on it.        *)
LEMMA OthersAway ==
    ASSUME IInv, ~rival, ~Contended, NEW w \in Workers,
           job[w].kind \in Exclusive, job[w].step \notin Outside, NEW v \in Workers \ {w}
    PROVE  job[v].step \in Outside \/ job[v].kind \in Edits
<1>1. CASE job[v].step \notin Outside /\ job[v].kind \in Exclusive
  <2>1. v # Recovery => v \in Calls /\ holder[v] = "exclusive"
    BY <1>1 DEF IInv, Leased, Workers
  <2>2. w # Recovery => w \in Calls /\ holder[w] = "exclusive" BY DEF IInv, Leased, Workers
  <2>3. v = Recovery => holder[v] = "exclusive" BY <1>1, <2>2 DEF IInv, Leased, Contended
  <2>4. w = Recovery => holder[w] = "exclusive" BY <1>1, <2>1 DEF IInv, Leased, Contended
  <2> QED BY <2>1, <2>2, <2>3, <2>4 DEF IInv, Alone
<1>2. job[v].step \in Outside \/ job[v].kind \in Exclusive \cup Edits
  BY DEF IInv, Placed, Exclusive
<1> QED BY <1>1, <1>2

(* The barrier opens when nobody holds it any more.                         *)
LEMMA GuardMoves ==
    ASSUME IInv, Guarding, NEW w \in Workers, NEW r, job' = [job EXCEPT ![w] = r],
           \/ disk'.blocked = disk.blocked /\ (r.guard => job[w].guard)
           \/ disk'.blocked = TRUE
           \/ Guards(w) = {} /\ ~r.guard,
           r.step = "flag" => r.guard
    PROVE  Guarding'
<1>1. \A v \in Workers : job'[v] = IF v = w THEN r ELSE job[v] BY DEF IInv, Shape
<1>2. Guards(w) = {} => \A v \in Workers \ {w} : ~job[v].guard BY DEF Guards
<1> QED BY <1>1, <1>2 DEF Guarding

(* A step that leaves the journal and the flag alone.                       *)
LEMMA KeyStays ==
    ASSUME IInv, DataInv, GuestInv, NEW w \in Workers, NEW r,
           job' = [job EXCEPT ![w] = r], Watched, Key' = Key,
           \/ /\ disk'.blocked = disk.blocked /\ disk'.policy = disk.policy
              /\ r.guard => job[w].guard
           \/ disk'.blocked = TRUE
           \/ WritePolicy /\ Guards(w) = {} /\ ~r.guard,
           r.step = "flag" => r.guard,
           ~rival => AtPoint(r, site.stage, site.point, control.flag)
    PROVE  GuestInv'
<1>1. Guarding' BY GuardMoves DEF GuestInv
<1>2. ~rival' => ~rival BY Remembered
<1>3. \A v \in Workers : job'[v] = IF v = w THEN r ELSE job[v] BY DEF IInv, Shape
<1>4. ~rival' => \A v \in Workers : AtPoint(job'[v], site'.stage, site'.point, control'.flag)
  BY <1>2, <1>3 DEF GuestInv, Key
<1>5. ASSUME WritePolicy, ~rival PROVE Held'
  <2>1. disk'.policy = PolicyNow
    BY <1>5 DEF DataInv, DiskShape, WritePolicy, SetDisk, DiskFields
  <2>2. control.flag = 1 => PolicyNow.frozen = TRUE /\ PolicyNow.pinned = Point.live
    BY <1>5 DEF IInv, Pinning, PolicyNow
  <2>3. Point' = Point /\ control'.flag = control.flag BY DEF Key, Point
  <2> QED BY <2>1, <2>2, <2>3 DEF Held
<1>6. ~rival' => Held'
  <2>1. Point' = Point /\ control'.flag = control.flag BY DEF Key, Point
  <2> QED BY <1>2, <1>5, <2>1 DEF GuestInv, Held
<1> QED BY <1>1, <1>4, <1>6 DEF GuestInv

(* The call that moves the journal or the flag is alone with it.            *)
LEMMA KeyMoves ==
    ASSUME IInv, GuestInv, NEW w \in Workers, job[w].kind \in Exclusive,
           job[w].step \notin Outside, NEW r, Moved(w, r), disk' = disk,
           r.guard => job[w].guard, r.step = "flag" => r.guard,
           ~rival => Held' /\ AtPoint(r, site'.stage, site'.point, control'.flag)
    PROVE  GuestInv'
<1>1. Guarding' BY GuardMoves DEF GuestInv, Moved
<1>2. ~rival' => ~rival /\ ~Contended BY Remembered DEF Moved
<1>3. \A v \in Workers : job'[v] = IF v = w THEN r ELSE job[v] BY DEF IInv, Shape, Moved
<1>4. ~rival' => \A v \in Workers : AtPoint(job'[v], site'.stage, site'.point, control'.flag)
  BY <1>2, <1>3, OthersAway, Elsewhere
<1> QED BY <1>1, <1>2, <1>4 DEF GuestInv

(* A step that changes neither the journal nor what guests are let see.     *)
Calm == Key' = Key /\ disk'.blocked = disk.blocked /\ disk'.policy = disk.policy

(* A call that stays where the journal lets it makes a calm step safely.    *)
LEMMA CalmStep ==
    ASSUME IInv, DataInv, GuestInv, NEW w \in Workers, Calm, NEW r, Moved(w, r),
           r.guard => job[w].guard, r.step # "flag",
           ~rival => AtPoint(r, site.stage, site.point, control.flag)
    PROVE  GuestInv'
BY KeyStays DEF Calm, Moved

(* A return beside them asks for nothing.                                   *)
LEMMA CalmQuit ==
    ASSUME IInv, DataInv, GuestInv, NEW w \in Workers, Calm, Moved(w, Quit(job[w]))
    PROVE  GuestInv'
<1> DEFINE q == Quit(job[w])
<1>1. q.guard = job[w].guard /\ q.step \in {"leave", "return"} BY QuittingFields
<1> HIDE DEF q
<1>2. AtPoint(q, site.stage, site.point, control.flag) BY <1>1, Elsewhere DEF Outside
<1> QED BY <1>1, <1>2, CalmStep DEF q

(* The changes of the stores that are calm.                                 *)
LEMMA CalmChanges ==
    ASSUME IInv, DataInv
    PROVE  /\ UNCHANGED <<site, control, disk>> => Calm
           /\ UNCHANGED <<control, disk>> /\ site'.stage = site.stage /\ site'.point = site.point
                /\ site'.points = site.points => Calm
           /\ UNCHANGED <<site, disk>> /\ control'.flag = control.flag => Calm
           /\ UNCHANGED <<site, control>> /\ disk'.blocked = disk.blocked
                /\ disk'.policy = disk.policy => Calm
BY DEF Calm, Key

(* The calls that take or finish a checkpoint keep guests where they are.   *)
LEMMA FreezingGuests ==
    ASSUME IInv, DataInv, GuestInv, NEW w \in Workers, Freezing(w)
    PROVE  GuestInv'
<1> DEFINE j == job[w]
           here(r) == AtPoint(r, site.stage, site.point, control.flag)
<1>1. ~rival => here(j) /\ Held BY DEF GuestInv
<1>2. UNCHANGED <<site, control, disk>> => Calm BY CalmChanges
<1>3. CASE LoadJournal(w)
  <2> DEFINE r == IF site.stage # "none"
                  THEN [To(w, "protect") EXCEPT !.flag = 1, !.id = site.point]
                  ELSE To(w, "capture")
  <2>1. j.kind = "freeze" /\ j.step = "journal" BY <1>3, Doing DEF LoadJournal, At
  <2>2. /\ UNCHANGED <<site, control, disk>>
        /\ \/ Moved(w, Quit(j))
           \/ Moved(w, r) /\ (site.stage = "none" => control.flag # 1)
    BY <1>3 DEF LoadJournal, Load, Access, Same, stores, Become, Frame, Moved, Quit
  <2>3. /\ r.kind = j.kind /\ r.guard = j.guard
        /\ IF site.stage # "none" THEN r.step = "protect" /\ r.id = site.point
           ELSE r.step = "capture"
    BY GoingFields DEF JobFields
  <2> HIDE DEF r
  <2>4. (site.stage = "none" => control.flag # 1) => here(r)
    BY <2>1, <2>3, Known DEF AtPoint, StoresOK
  <2> QED BY <1>2, <2>2, <2>3, <2>4, CalmStep, CalmQuit
<1>4. CASE Capture(w)
  <2> DEFINE r == [To(w, "retain") EXCEPT !.taken = Captured, !.todo = Contents(Captured)]
  <2>1. j.kind = "freeze" /\ j.step = "capture" BY <1>4, Doing DEF Capture, At
  <2>2. /\ UNCHANGED <<site, control>> /\ disk' \in {disk, [disk EXCEPT !.versioned = TRUE]}
        /\ Moved(w, Quit(j)) \/ Moved(w, r)
    BY <1>4 DEF Capture, Access, Same, SetDisk, stores, Become, Frame, Moved
  <2>3. Calm BY <2>2, CalmChanges, DataKnown DEF DiskFields
  <2>4. r.kind = j.kind /\ r.guard = j.guard /\ r.step = "retain" /\ r.id = j.id
    BY GoingFields DEF JobFields
  <2> HIDE DEF r
  <2>5. ~rival => here(r) BY <1>1, <2>1, <2>4 DEF AtPoint
  <2> QED BY <2>2, <2>3, <2>4, <2>5, CalmStep, CalmQuit
<1>5. CASE Retain(w)
  <2> DEFINE r == IF j.todo = <<>> THEN To(w, "shield") ELSE [j EXCEPT !.todo = Tail(@)]
  <2>1. j.kind \in {"freeze", "restore"} /\ j.step = "retain" BY <1>5, Doing DEF Retain, At
  <2>2. /\ UNCHANGED <<site, control>>
        /\ disk' \in {disk, [disk EXCEPT !.objects = @ \cup {Target(w)}]}
        /\ Moved(w, Quit(j)) \/ Moved(w, r)
    BY <1>5 DEF Retain, Touch, Same, SetDisk, stores, Become, Frame, Moved
  <2>3. Calm BY <2>2, CalmChanges, DataKnown DEF DiskFields
  <2>4. /\ r.kind = j.kind /\ r.guard = j.guard /\ r.step \in {"retain", "shield"}
        /\ r.id = j.id
    BY <2>1, GoingFields, Known DEF JobFields
  <2> HIDE DEF r
  <2>5. ~rival => here(r) BY <1>1, <2>1, <2>4 DEF AtPoint
  <2> QED BY <2>2, <2>3, <2>4, <2>5, CalmStep, CalmQuit
<1>6. CASE Shield(w)
  <2> DEFINE id == Cardinality(control.protection) + 1
             r == [To(w, "save") EXCEPT !.value = id]
             c == [control EXCEPT !.protection = @ \cup {id}]
  <2>1. j.kind \in {"freeze", "restore"} /\ j.step = "shield" BY <1>6, Doing DEF Shield, At
  <2>2. /\ UNCHANGED <<site, disk>> /\ control' \in {control, c}
        /\ Moved(w, Quit(j)) \/ Moved(w, r)
    BY <1>6 DEF Shield, Access, Same, SetControl, stores, Become, Frame, Moved
  <2>3. c.flag = control.flag BY Known DEF StoresOK, ControlFields
  <2>4. Calm BY <2>2, <2>3, CalmChanges
  <2>5. r.kind = j.kind /\ r.guard = j.guard /\ r.step = "save" /\ r.id = j.id
    BY GoingFields DEF JobFields
  <2> HIDE DEF r
  <2>6. ~rival => here(r) BY <1>1, <2>1, <2>5 DEF AtPoint
  <2> QED BY <2>2, <2>4, <2>5, <2>6, CalmStep, CalmQuit
<1>7. CASE Save(w)
  <2> DEFINE s == IF j.kind = "freeze"
                  THEN [Saved(w) EXCEPT !.stage = "preparing", !.point = j.value]
                  ELSE Saved(w)
             go == IF j.kind = "freeze"
                   THEN [To(w, "protect") EXCEPT !.flag = 1, !.id = j.value]
                   ELSE To(w, "restoring")
  <2>1. j.kind \in {"freeze", "restore"} /\ j.step = "save" BY <1>7, Doing DEF Save, At
  <2>2. UNCHANGED <<control, disk>> /\ site' \in {site, s}
    BY <1>7 DEF Save, Store, Access, Same, SetSite, stores
  <2>3. (site' = s /\ Moved(w, go)) \/ Moved(w, Quit(j))
    BY <1>7 DEF Save, Store, Access, Same, SetSite, Become, Frame, Moved, Quit
  <2>4. /\ s.points = With(site.points, j.value, j.taken)
        /\ s.stage = IF j.kind = "freeze" THEN "preparing" ELSE site.stage
        /\ s.point = IF j.kind = "freeze" THEN j.value ELSE site.point
    BY Known DEF StoresOK, Saved, SiteFields
  <2>5. /\ go.kind = j.kind /\ go.guard = j.guard
        /\ go.step = IF j.kind = "freeze" THEN "protect" ELSE "restoring"
        /\ go.id = IF j.kind = "freeze" THEN j.value ELSE j.id
    BY GoingFields DEF JobFields
  <2>6. Quit(j).guard = j.guard /\ Quit(j).step \in {"leave", "return"} BY QuittingFields
  <2>7. j.value \notin DOMAIN site.points /\ SiteData(site, disk, version)
    BY <2>1, DataKnown DEF JobData
  <2> HIDE DEF s, go
  <2>8. ~rival => Held'
    <3>1. CASE site' = site BY <1>1, <2>2, <3>1 DEF Held, Point
    <3>2. CASE site' = s /\ j.kind = "freeze" BY <1>1, <2>1, <2>2, <3>2 DEF AtPoint, Held
    <3>3. CASE site' = s /\ j.kind = "restore"
      <4>1. ~rival => site.point \in DOMAIN site.points
        BY <1>1, <2>1, <2>7, <3>3 DEF AtPoint, SiteData, Sound
      <4>2. ~rival => Point' = Point BY <2>4, <2>7, <3>3, <4>1 DEF Point, With
      <4> QED BY <1>1, <2>2, <4>2 DEF Held
    <3> QED BY <2>1, <2>2, <3>1, <3>2, <3>3
  <2>9. CASE Moved(w, Quit(j))
    <3> DEFINE q == Quit(j)
    <3>1. AtPoint(q, site'.stage, site'.point, control'.flag)
      <4> HIDE DEF q
      <4>1. q.step \in Outside BY <2>6 DEF Outside, q
      <4> QED BY <4>1, Elsewhere
    <3> HIDE DEF q
    <3> QED BY <2>1, <2>2, <2>6, <2>8, <2>9, <3>1, KeyMoves DEF Exclusive, Outside, q
  <2>10. CASE site' = s /\ Moved(w, go)
    <3>1. ~rival => AtPoint(go, site'.stage, site'.point, control'.flag)
      BY <1>1, <2>1, <2>4, <2>5, <2>10 DEF AtPoint
    <3> QED BY <2>1, <2>2, <2>5, <2>8, <2>10, <3>1, KeyMoves DEF Exclusive, Outside
  <2> QED BY <2>3, <2>9, <2>10
<1>8. CASE Protect(w)
  <2> DEFINE r == [To(w, "flag") EXCEPT !.guard = TRUE]
  <2>1. j.kind \in Exclusive /\ j.step = "protect" BY <1>8, Doing DEF Protect, At
  <2>2. /\ UNCHANGED <<site, control>>
        /\ \/ disk' = disk /\ Moved(w, Quit(j))
           \/ disk' = [disk EXCEPT !.blocked = TRUE] /\ Moved(w, r)
    BY <1>8 DEF Protect, Touch, Same, SetDisk, stores, Become, Frame, Moved
  <2>3. r.kind = j.kind /\ r.step = "flag" /\ r.id = j.id /\ r.guard = TRUE
    BY GoingFields DEF JobFields
  <2> HIDE DEF r
  <2>4. ~rival => here(r) BY <1>1, <2>1, <2>3 DEF AtPoint, Exclusive
  <2>5. CASE disk' = disk /\ Moved(w, Quit(j)) BY <1>2, <2>2, <2>5, CalmQuit
  <2>6. CASE disk' = [disk EXCEPT !.blocked = TRUE] /\ Moved(w, r)
    <3>1. disk'.blocked = TRUE BY <2>6, DataKnown DEF DiskFields
    <3>2. Key' = Key BY <2>2 DEF Key
    <3> QED BY <2>3, <2>4, <2>6, <3>1, <3>2, KeyStays DEF Moved
  <2> QED BY <2>2, <2>5, <2>6
<1>9. CASE SetFlag(w)
  <2> DEFINE c  == [control EXCEPT !.flag = j.flag]
             ra == To(w, "open")
             rb == [To(w, "open") EXCEPT !.broken = TRUE]
  <2>1. j.kind \in Exclusive /\ j.step = "flag" BY <1>9, Doing DEF SetFlag, At
  <2>2. UNCHANGED <<site, disk>> /\ control' \in {control, c}
    BY <1>9 DEF SetFlag, Access, Same, SetControl, stores
  <2>3. PICK r \in {ra, rb} : Moved(w, r)
    BY <1>9 DEF SetFlag, Access, Same, SetControl, Become, Frame, Moved
  <2>4. r.kind = j.kind /\ r.step = "open" /\ r.id = j.id /\ r.guard = j.guard
    BY GoingFields DEF JobFields
  <2> HIDE DEF ra, rb, c
  <2>5. disk.blocked BY <2>1 DEF GuestInv, Guarding
  <2>6. Held' BY <2>2, <2>5 DEF Held
  <2>7. ~rival => AtPoint(r, site'.stage, site'.point, control'.flag)
    BY <1>1, <2>1, <2>2, <2>4 DEF AtPoint, Exclusive
  <2> QED BY <2>1, <2>2, <2>3, <2>4, <2>6, <2>7, KeyMoves DEF Outside
<1>10. CASE Open(w)
  <2> DEFINE stop == Quit([j EXCEPT !.guard = FALSE])
             go == [To(w, IF j.kind = "freeze" THEN "activate" ELSE "finish")
                    EXCEPT !.guard = FALSE]
  <2>1. j.kind \in Exclusive /\ j.step = "open" BY <1>10, Doing DEF Open, At
  <2>2. /\ UNCHANGED <<site, control>> /\ Watched
        /\ disk' = disk \/ (WritePolicy /\ Guards(w) = {})
    BY <1>10 DEF Open, WritePolicy, SetDisk, Same, Frame, stores
  <2>3. PICK r \in {stop, go} : job' = [job EXCEPT ![w] = r]
    BY <1>10 DEF Open, Become
  <2>4. /\ stop.kind = j.kind /\ stop.guard = FALSE /\ stop.step \in {"leave", "return"}
    BY Known DEF Quit, JobFields
  <2>5. /\ go.kind = j.kind /\ go.guard = FALSE /\ go.id = j.id
        /\ go.step = IF j.kind = "freeze" THEN "activate" ELSE "finish"
    BY GoingFields DEF JobFields
  <2> HIDE DEF stop, go
  <2>6. here(stop) BY <2>4, Elsewhere DEF Outside
  <2>7. ~rival => here(go) BY <1>1, <2>1, <2>5 DEF AtPoint, Exclusive
  <2>8. Key' = Key BY <2>2 DEF Key
  <2>9. ~r.guard /\ r.step # "flag" BY <2>4, <2>5
  <2> QED BY <2>2, <2>3, <2>6, <2>7, <2>8, <2>9, KeyStays
<1>11. ASSUME j.kind \in Exclusive, j.step \notin Outside, UNCHANGED <<control, disk>>,
              ~rival => Held', NEW r, Moved(w, r), r.guard = j.guard, r.step # "flag",
              ~rival => AtPoint(r, site'.stage, site'.point, control'.flag)
       PROVE  GuestInv'
  BY <1>11, KeyMoves
<1>12. ASSUME NEW r, r.step \in Outside
       PROVE  AtPoint(r, site'.stage, site'.point, control'.flag)
  BY <1>12, Elsewhere
<1>13. CASE Activate(w)
  <2> DEFINE s == Activated(j.id, "frozen")
             q == Quit(j)
  <2>1. j.kind = "freeze" /\ j.step = "activate" BY <1>13, Doing DEF Activate, At
  <2>2. UNCHANGED <<control, disk>> /\ site' \in {site, s} /\ Moved(w, q)
    BY <1>13 DEF Activate, Store, Access, Same, SetSite, stores, Become, Frame, Moved
  <2>3. s.points = site.points /\ s.point = j.id
    BY Known DEF StoresOK, Activated, SiteFields
  <2>4. q.guard = j.guard /\ q.step \in {"leave", "return"} BY QuittingFields
  <2> HIDE DEF s, q
  <2>5. ~rival => Point' = Point BY <1>1, <2>1, <2>2, <2>3 DEF AtPoint, Point
  <2>6. ~rival => Held' BY <1>1, <2>2, <2>5 DEF Held
  <2>7. q.step \in Outside BY <2>4 DEF Outside
  <2> QED BY <1>11, <1>12, <2>1, <2>2, <2>4, <2>6, <2>7 DEF Exclusive, Outside
<1>14. CASE Finish(w)
  <2> DEFINE ra == Quit(j)
             rb == [Quit(j) EXCEPT !.done = TRUE]
  <2>1. j.kind \in {"publish", "restore"} /\ j.step = "finish" BY <1>14, Doing DEF Finish, At
  <2>2. UNCHANGED <<control, disk>>
    BY <1>14 DEF Finish, Store, Access, Same, SetSite, stores
  <2>3. PICK r \in {ra, rb} : Moved(w, r)
    BY <1>14 DEF Finish, Store, Access, Become, Frame, Moved
  <2>4. r.guard = j.guard /\ r.step \in {"leave", "return"}
    BY QuittingFields DEF JobFields
  <2> HIDE DEF ra, rb
  <2>5. ~rival => control.flag = 0 BY <2>1 DEF IInv, InStage
  <2>6. ~rival => Held' BY <2>2, <2>5 DEF Held
  <2>7. r.step \in Outside BY <2>4 DEF Outside
  <2> QED BY <1>11, <1>12, <2>1, <2>2, <2>3, <2>4, <2>6, <2>7 DEF Exclusive, Outside
<1>15. ASSUME NEW t, Calm, j.kind = "publish",
              Moved(w, Quit(j)) \/ Moved(w, NextCandidate([j EXCEPT !.todo = t]))
       PROVE  GuestInv'
  <2> DEFINE q == [j EXCEPT !.todo = t]
             r == NextCandidate(q)
  <2>1. DOMAIN q = JobFields /\ q.kind = j.kind /\ q.guard = j.guard BY Known DEF JobFields
  <2>2. Moved(w, Quit(j)) \/ Moved(w, r) BY <1>15
  <2> HIDE DEF q
  <2>3. r.kind = "publish" /\ r.guard = j.guard /\ r.step \in {"publishing", "static"}
    BY <1>15, <2>1 DEF NextCandidate, JobFields
  <2> HIDE DEF r
  <2>4. here(r) BY <2>3 DEF AtPoint
  <2> QED BY <1>15, <2>2, <2>3, <2>4, CalmStep, CalmQuit
<1>16. CASE Candidates(w)
  <2> DEFINE t == SetToSeq({p \in Pages : site.page[p] \notin {0, site.live[p]}})
  <2>1. j.kind = "publish" BY <1>16, Doing DEF Candidates, At
  <2>2. /\ UNCHANGED <<site, control, disk>>
        /\ Moved(w, Quit(j)) \/ Moved(w, NextCandidate([j EXCEPT !.todo = t]))
    BY <1>16 DEF Candidates, Load, Access, Same, stores, Become, Frame, Moved
  <2> HIDE DEF t
  <2> QED BY <1>2, <1>15, <2>1, <2>2
<1>17. CASE CommitPublication(w)
  <2> DEFINE s == [site EXCEPT !.live[Target(w)] = j.value]
             t == Tail(j.todo)
  <2>1. j.kind = "publish" BY <1>17 DEF CommitPublication
  <2>2. /\ \/ site' = s /\ UNCHANGED <<control, disk>>
           \/ disk' = RolledBack(w) /\ UNCHANGED <<site, control>>
        /\ Moved(w, Quit(j)) \/ Moved(w, NextCandidate([j EXCEPT !.todo = t]))
    BY <1>17 DEF CommitPublication, Commit, SetSite, SetDisk, Become, Frame, Moved
  <2>3. s.stage = site.stage /\ s.point = site.point /\ s.points = site.points
    BY Known DEF StoresOK, SiteFields
  <2>4. RolledBack(w).blocked = disk.blocked /\ RolledBack(w).policy = disk.policy
    BY DataKnown DEF RolledBack, DiskFields
  <2>5. Calm BY <2>2, <2>3, <2>4, CalmChanges
  <2> HIDE DEF t
  <2> QED BY <1>15, <2>1, <2>2, <2>5
<1>18. CASE Publishing(w)
  <2> DEFINE r == IF site.stage = "none" THEN [To(w, "protect") EXCEPT !.id = 0]
                  ELSE [To(w, "mark") EXCEPT !.id = site.point]
  <2>1. j.kind = "publish" /\ j.step = "publishing" BY <1>18, Doing DEF Publishing, At
  <2>2. UNCHANGED <<site, control, disk>> /\ (Moved(w, Quit(j)) \/ Moved(w, r))
    BY <1>18 DEF Publishing, Load, Access, Same, stores, Become, Frame, Moved
  <2>3. /\ r.kind = j.kind /\ r.guard = j.guard /\ r.step \in {"protect", "mark"}
        /\ r.step = "mark" => site.stage # "none" /\ r.id = site.point
    BY GoingFields DEF JobFields
  <2> HIDE DEF r
  <2>4. here(r) BY <2>1, <2>3 DEF AtPoint
  <2> QED BY <1>2, <2>2, <2>3, <2>4, CalmStep, CalmQuit
<1>19. CASE MarkPublishing(w)
  <2> DEFINE s == Activated(j.id, "publishing")
             ra == To(w, "protect")
             rb == Quit(j)
  <2>1. j.kind = "publish" /\ j.step = "mark" BY <1>19, Doing DEF MarkPublishing, At
  <2>2. UNCHANGED <<control, disk>> /\ site' \in {site, s}
    BY <1>19 DEF MarkPublishing, Store, Access, Same, SetSite, stores
  <2>3. PICK r \in {ra, rb} : Moved(w, r)
    BY <1>19 DEF MarkPublishing, Store, Access, Become, Frame, Moved
  <2>4. s.points = site.points /\ s.point = j.id
    BY Known DEF StoresOK, Activated, SiteFields
  <2>5. r.kind = j.kind /\ r.guard = j.guard /\ r.step \in {"protect", "leave", "return"}
    BY GoingFields, QuittingFields
  <2> HIDE DEF s, ra, rb
  <2>6. ~rival => Point' = Point BY <1>1, <2>1, <2>2, <2>4 DEF AtPoint, Point
  <2>7. ~rival => Held' BY <1>1, <2>2, <2>6 DEF Held
  <2>8. AtPoint(r, site'.stage, site'.point, control'.flag) BY <2>1, <2>5 DEF AtPoint
  <2> QED BY <1>11, <2>1, <2>2, <2>3, <2>5, <2>7, <2>8 DEF Exclusive, Outside
<1> QED
  BY <1>3, <1>4, <1>5, <1>6, <1>7, <1>8, <1>9, <1>10, <1>13, <1>14, <1>16, <1>17, <1>18, <1>19
  DEF Freezing

(* Discarding the edits keeps guests where they are.                        *)
LEMMA DiscardingGuests ==
    ASSUME IInv, DataInv, GuestInv, NEW w \in Workers, Discarding(w)
    PROVE  GuestInv'
<1> DEFINE j == job[w]
           here(r) == AtPoint(r, site.stage, site.point, control.flag)
<1>1. ~rival => here(j) /\ Held BY DEF GuestInv
<1>2. UNCHANGED <<site, control, disk>> => Calm BY CalmChanges
<1>3. ASSUME NEW r, Calm, Moved(w, Quit(j)) \/ Moved(w, r), r.guard = j.guard,
             r.kind = "restore", r.step \in {"files", "props", "views", "restore_rules",
                                             "restore_prefix", "protect", "admit"}
      PROVE  GuestInv'
  <2>1. here(r) BY <1>3 DEF AtPoint
  <2> QED BY <1>3, <2>1, CalmStep, CalmQuit
<1>4. CASE Precheck(w)
  <2> DEFINE r == To(w, "admit")
  <2>1. UNCHANGED <<site, control, disk>> /\ (Moved(w, Quit(j)) \/ Moved(w, r))
    BY <1>4 DEF Precheck, Load, Access, Same, stores, Become, Frame, Moved
  <2>2. r.kind = j.kind /\ r.guard = j.guard /\ r.step = "admit" BY GoingFields
  <2> HIDE DEF r
  <2>3. here(r) BY <2>2 DEF AtPoint
  <2> QED BY <1>2, <2>1, <2>2, <2>3, CalmStep, CalmQuit
<1>5. CASE Check(w)
  <2> DEFINE q == [j EXCEPT !.taken = site.points[site.from]]
             r == IF site.stage = "restoring" THEN Restoring(q) ELSE To(w, "compare")
             lost == site.stage \in {"none", "publishing"} \/ site.point # j.id
  <2>1. j.kind = "restore" /\ j.step = "check" BY <1>5, Doing DEF Check, At
  <2>2. UNCHANGED <<site, control, disk>> /\ (Moved(w, Quit(j)) \/ (~lost /\ Moved(w, r)))
    BY <1>5 DEF Check, Load, Access, Same, stores, Become, Frame, Moved
  <2>3. DOMAIN q = JobFields /\ q.kind = j.kind /\ q.guard = j.guard /\ q.id = j.id
    BY Known DEF JobFields
  <2> HIDE DEF q
  <2>4. r.kind = j.kind /\ r.guard = j.guard /\ r.step \in {"files", "compare"} /\ r.id = j.id
    BY <2>3, GoingFields DEF JobFields, Restoring
  <2> HIDE DEF r
  <2>5. ~lost => here(r) BY <2>1, <2>4 DEF AtPoint
  <2> QED BY <1>2, <2>2, <2>4, <2>5, CalmStep, CalmQuit
<1>6. CASE Compare(w)
  <2> DEFINE r == [To(w, "retain") EXCEPT !.taken = Captured, !.todo = FileContents(Captured)]
  <2>1. j.kind = "restore" /\ j.step = "compare" BY <1>6, Doing DEF Compare, At
  <2>2. UNCHANGED <<site, control, disk>> /\ (Moved(w, Quit(j)) \/ Moved(w, r))
    BY <1>6 DEF Compare, Load, Access, Same, stores, Become, Frame, Moved
  <2>3. r.kind = j.kind /\ r.guard = j.guard /\ r.step = "retain" /\ r.id = j.id
    BY GoingFields DEF JobFields
  <2> HIDE DEF r
  <2>4. ~rival => here(r) BY <1>1, <2>1, <2>3 DEF AtPoint
  <2> QED BY <1>2, <2>2, <2>3, <2>4, CalmStep, CalmQuit
<1>7. CASE BeginRestoring(w)
  <2> DEFINE s == [Activated(j.id, "restoring") EXCEPT !.from = j.value]
             ra == Restoring(j)
             rb == Quit(j)
  <2>1. j.kind = "restore" /\ j.step = "restoring" BY <1>7, Doing DEF BeginRestoring, At
  <2>2. UNCHANGED <<control, disk>> /\ site' \in {site, s}
    BY <1>7 DEF BeginRestoring, Store, Access, Same, SetSite, stores
  <2>3. PICK r \in {ra, rb} : Moved(w, r)
    BY <1>7 DEF BeginRestoring, Store, Access, Become, Frame, Moved
  <2>4. s.points = site.points /\ s.point = j.id
    BY Known DEF StoresOK, Activated, SiteFields
  <2>5. r.kind = j.kind /\ r.guard = j.guard /\ r.step \in {"files", "leave", "return"}
    <3>1. ra.kind = j.kind /\ ra.guard = j.guard /\ ra.step = "files"
      BY Known DEF JobFields, Restoring
    <3> HIDE DEF ra
    <3> QED BY <3>1, QuittingFields
  <2> HIDE DEF s, ra, rb
  <2>6. ~rival => Point' = Point BY <1>1, <2>1, <2>2, <2>4 DEF AtPoint, Point
  <2>7. ~rival => Held' BY <1>1, <2>2, <2>6 DEF Held
  <2>8. AtPoint(r, site'.stage, site'.point, control'.flag) BY <2>1, <2>5 DEF AtPoint
  <2> QED BY <2>1, <2>2, <2>3, <2>5, <2>7, <2>8, KeyMoves DEF Exclusive, Outside
<1>8. CASE RestoreFiles(w)
  <2> DEFINE t == Target(w)
             v == IF t = "file" THEN Base(w).file ELSE Base(w).live[t]
             r == IF j.todo = <<>> THEN To(w, "props") ELSE [j EXCEPT !.todo = Tail(@)]
  <2>1. j.kind = "restore" /\ j.step = "files" BY <1>8, Doing DEF RestoreFiles, At
  <2>2. /\ UNCHANGED <<site, control>>
        /\ disk' \in {disk, [disk EXCEPT !.file = v], [disk EXCEPT !.static[t] = v]}
        /\ Moved(w, Quit(j)) \/ Moved(w, r)
    BY <1>8 DEF RestoreFiles, Touch, SetDisk, Same, stores, Become, Frame, Moved
  <2>3. Calm BY <2>2, CalmChanges, DataKnown DEF DiskFields
  <2>4. r.kind = j.kind /\ r.guard = j.guard /\ r.step \in {"files", "props"}
    BY <2>1, GoingFields, Known DEF JobFields
  <2> HIDE DEF r
  <2> QED BY <1>3, <2>1, <2>2, <2>3, <2>4
<1>9. CASE RestoreProperties(w)
  <2>1. j.kind = "restore" BY <1>9, Doing DEF RestoreProperties, At
  <2>2. /\ UNCHANGED <<control, disk>> /\ site' \in {site, [site EXCEPT !.props = Base(w).props]}
        /\ Moved(w, Quit(j)) \/ Moved(w, To(w, "views"))
    BY <1>9 DEF RestoreProperties, Store, Access, Same, SetSite, stores, Become, Frame, Moved
  <2>3. Calm BY <2>2, CalmChanges, Known DEF StoresOK, SiteFields
  <2> QED BY <1>3, <2>1, <2>2, <2>3, GoingFields
<1>10. CASE RestoreViews(w)
  <2> DEFINE hidden == ((site.hidden \cup NewPages(Base(w), j.taken)) \ Kept(Base(w)))
                           \cup NewFile(Base(w), j.taken)
             s == [site EXCEPT !.page = Base(w).page, !.live = Base(w).live, !.hidden = hidden]
  <2>1. j.kind = "restore" BY <1>10, Doing DEF RestoreViews, At
  <2>2. /\ UNCHANGED <<control, disk>> /\ site' \in {site, s}
        /\ Moved(w, Quit(j)) \/ Moved(w, To(w, "restore_rules"))
    BY <1>10 DEF RestoreViews, Store, Access, Same, SetSite, stores, Become, Frame, Moved
  <2> HIDE DEF hidden
  <2>3. Calm BY <2>2, CalmChanges, Known DEF StoresOK, SiteFields
  <2> QED BY <1>3, <2>1, <2>2, <2>3, GoingFields
<1>11. CASE RestoreRules(w)
  <2> DEFINE token == LiveToken(Base(w))
             c == [control EXCEPT !.rules = Base(w).rules, !.token = token]
  <2>1. j.kind = "restore" BY <1>11, Doing DEF RestoreRules, At
  <2>2. /\ UNCHANGED <<site, disk>> /\ control' \in {control, c}
        /\ Moved(w, Quit(j)) \/ Moved(w, To(w, "restore_prefix"))
    BY <1>11 DEF RestoreRules, Access, Same, SetControl, stores, Become, Frame, Moved
  <2> HIDE DEF token
  <2>3. Calm BY <2>2, CalmChanges, Known DEF StoresOK, ControlFields
  <2> QED BY <1>3, <2>1, <2>2, <2>3, GoingFields
<1>12. CASE RestorePrefix(w)
  <2> DEFINE r == [To(w, "protect") EXCEPT !.flag = 0]
  <2>1. j.kind = "restore" BY <1>12, Doing DEF RestorePrefix, At
  <2>2. /\ UNCHANGED <<site, control>> /\ disk' \in {disk, [disk EXCEPT !.prefix = Base(w).rules]}
        /\ Moved(w, Quit(j)) \/ Moved(w, r)
    BY <1>12 DEF RestorePrefix, Touch, SetDisk, Same, stores, Become, Frame, Moved
  <2>3. Calm BY <2>2, CalmChanges, DataKnown DEF DiskFields
  <2>4. r.kind = j.kind /\ r.guard = j.guard /\ r.step = "protect"
    BY GoingFields DEF JobFields
  <2> HIDE DEF r
  <2> QED BY <1>3, <2>1, <2>2, <2>3, <2>4
<1> QED
  BY <1>4, <1>5, <1>6, <1>7, <1>8, <1>9, <1>10, <1>11, <1>12 DEF Discarding

(* Edits leave the journal, the flag and the policy to others; those of     *)
(* files and settings close the barrier.                                    *)
LEMMA EditingGuests ==
    ASSUME IInv, DataInv, GuestInv, NEW w \in Workers, Editing(w) \/ Editable(w)
    PROVE  GuestInv'
<1> DEFINE j == job[w]
           either(r) == Moved(w, Quit(j)) \/ Moved(w, r)
           here(r) == AtPoint(r, site.stage, site.point, control.flag)
<1>1. UNCHANGED <<site, control, disk>> => Calm BY CalmChanges
<1>2. ASSUME NEW s, UNCHANGED <<control, disk>>, site' \in {site, s}, s.stage = site.stage,
             s.point = site.point, s.points = site.points
      PROVE  Calm
  BY <1>2, CalmChanges
<1>3. ASSUME NEW c, UNCHANGED <<site, disk>>, control' \in {control, c}, c.flag = control.flag
      PROVE  Calm
  BY <1>3, CalmChanges
<1>4. ASSUME NEW d, UNCHANGED <<site, control>>, disk' \in {disk, d}, d.blocked = disk.blocked,
             d.policy = disk.policy
      PROVE  Calm
  BY <1>4, CalmChanges
<1>5. ASSUME NEW r, Calm, either(r), r.kind = j.kind, r.guard = j.guard, r.step # "flag",
             r.kind \in Edits \cup {"publish"}, r.step # "mark"
      PROVE  GuestInv'
  <2>1. here(r) BY <1>5 DEF AtPoint, Edits
  <2> QED BY <1>5, <2>1, CalmStep, CalmQuit
<1>6. ASSUME NEW s \in Changing, Calm, either(To(w, s)), j.kind \in Edits
      PROVE  GuestInv'
  BY <1>5, <1>6, GoingFields DEF Changing
<1>7. Editing(w) => j.kind \in Edits \cup {"publish"}
  BY Doing
  DEF Editing, Begin, ReadFlag, WriteStatic, CommitSave, RetainOld, Replace, Unhide, Redirect,
      SetRules, ReadRules, WritePrefix, SetToken, At, Changing
<1>8. CASE Editable(w)
  <2> DEFINE r == IF j.kind = "publish" THEN To(w, "candidates")
                  ELSE To(w, IF j.kind = "import" THEN FirstStep(j.kind) ELSE "begin")
  <2>1. UNCHANGED <<site, control, disk>> /\ either(r)
    BY <1>8 DEF Editable, Load, Access, Same, stores, Become, Frame, Moved
  <2>2. j.kind \in Edits \cup {"publish"} BY <1>8, Doing DEF Editable, At
  <2>3. /\ r.kind = j.kind /\ r.guard = j.guard
        /\ r.step \in {"candidates", "read_flag", "begin"}
    BY GoingFields DEF FirstStep
  <2> HIDE DEF r
  <2> QED BY <1>1, <1>5, <2>1, <2>2, <2>3
<1>9. CASE Begin(w)
  <2> DEFINE q == [To(w, FirstStep(j.kind)) EXCEPT !.begun = TRUE]
             g == [q EXCEPT !.guard = TRUE]
             d == [disk EXCEPT !.blocked = TRUE]
  <2>1. j.kind \in Edits /\ j.step = "begin" BY <1>9, Doing DEF Begin, At, Changing
  <2>2. FirstStep(j.kind) \in Changing BY <2>1, FirstSteps
  <2>3. /\ DOMAIN q = JobFields /\ q.kind = j.kind /\ q.guard = j.guard
        /\ q.step = FirstStep(j.kind)
    BY GoingFields DEF JobFields
  <2>4. /\ UNCHANGED <<site, control>> /\ Watched
        /\ \/ disk' = disk /\ either(q)
           \/ disk' = d /\ job' = [job EXCEPT ![w] = g]
    BY <1>9 DEF Begin, Touch, SetDisk, Same, stores, Become, Frame, Moved
  <2> HIDE DEF q
  <2>5. g.kind = j.kind /\ g.guard = TRUE /\ g.step = FirstStep(j.kind)
    BY <2>3 DEF JobFields
  <2> HIDE DEF g
  <2>6. CASE disk' = disk /\ either(q)
    BY <1>1, <1>5, <2>1, <2>2, <2>3, <2>4, <2>6 DEF Changing
  <2>7. CASE disk' = d /\ job' = [job EXCEPT ![w] = g]
    <3>1. disk'.blocked = TRUE BY <2>7, DataKnown DEF DiskFields
    <3>2. Key' = Key BY <2>4 DEF Key
    <3>3. here(g) BY <2>1, <2>5, Elsewhere
    <3> QED BY <2>4, <2>5, <2>7, <3>1, <3>2, <3>3, KeyStays
  <2> QED BY <2>4, <2>6, <2>7
<1>10. CASE ReadFlag(w)
  <2> DEFINE r == [To(w, IF control.flag = 1 THEN "commit" ELSE "static")
                   EXCEPT !.flag = control.flag]
  <2>1. either(r) /\ UNCHANGED <<site, control, disk>>
    BY <1>10 DEF ReadFlag, Load, Access, Same, stores, Become, Frame, Moved
  <2>2. r.kind = j.kind /\ r.guard = j.guard /\ r.step \in {"commit", "static"}
    BY GoingFields DEF JobFields
  <2> HIDE DEF r
  <2> QED BY <1>1, <1>5, <1>7, <1>10, <2>1, <2>2 DEF Editing
<1>11. CASE WriteStatic(w)
  <2> DEFINE r == [To(w, "commit") EXCEPT !.old = disk.static[Target(w)]]
             d == [disk EXCEPT !.static[Target(w)] = j.value]
  <2>1. either(r) /\ UNCHANGED <<site, control>> /\ disk' \in {disk, d}
    BY <1>11 DEF WriteStatic, Touch, SetDisk, Same, stores, Become, Frame, Moved
  <2>2. r.kind = j.kind /\ r.guard = j.guard /\ r.step = "commit"
    BY GoingFields DEF JobFields
  <2>3. d.blocked = disk.blocked /\ d.policy = disk.policy BY DataKnown DEF DiskFields
  <2> HIDE DEF r, d
  <2>4. Calm BY <1>4, <2>1, <2>3
  <2> QED BY <1>5, <1>7, <1>11, <2>1, <2>2, <2>4 DEF Editing
<1>12. CASE CommitSave(w)
  <2> DEFINE p == Target(w)
             v == j.value
             s == [site EXCEPT !.page[p] = v, !.latest[p] = v, !.hidden = @ \ {p},
                               !.live = IF j.flag = 1 THEN @ ELSE [@ EXCEPT ![p] = v]]
  <2>1. /\ \/ site' = s /\ UNCHANGED <<control, disk>>
           \/ disk' = RolledBack(w) /\ UNCHANGED <<site, control>>
        /\ Moved(w, Quit(j))
    BY <1>12 DEF CommitSave, Commit, SetSite, SetDisk, Become, Frame, Moved
  <2>2. s.stage = site.stage /\ s.point = site.point /\ s.points = site.points
    BY Known DEF StoresOK, SiteFields
  <2>3. RolledBack(w).blocked = disk.blocked /\ RolledBack(w).policy = disk.policy
    BY DataKnown DEF RolledBack, DiskFields
  <2> HIDE DEF s
  <2>4. Calm BY <1>2, <1>4, <2>1, <2>2, <2>3
  <2> QED BY <2>1, <2>4, CalmQuit
<1>13. CASE RetainOld(w)
  <2> DEFINE d == [disk EXCEPT !.objects =
                      IF disk.versioned /\ disk.file # 0 THEN @ \cup {disk.file} ELSE @]
  <2>1. either(To(w, "replace")) /\ UNCHANGED <<site, control>> /\ disk' \in {disk, d}
    BY <1>13 DEF RetainOld, Touch, SetDisk, Same, stores, Become, Frame, Moved
  <2>2. d.blocked = disk.blocked /\ d.policy = disk.policy BY DataKnown DEF DiskFields
  <2>3. j.kind \in Edits BY <1>13, Doing DEF RetainOld, At, Changing
  <2> HIDE DEF d
  <2>4. Calm BY <1>4, <2>1, <2>2
  <2> QED BY <1>6, <2>1, <2>3, <2>4 DEF Changing
<1>14. CASE Replace(w)
  <2> DEFINE d == [disk EXCEPT !.file = IF j.kind = "delete" THEN 0 ELSE j.value]
  <2>1. either(To(w, "unhide")) /\ UNCHANGED <<site, control>> /\ disk' \in {disk, d}
    BY <1>14 DEF Replace, Touch, SetDisk, Same, stores, Become, Frame, Moved
  <2>2. d.blocked = disk.blocked /\ d.policy = disk.policy BY DataKnown DEF DiskFields
  <2>3. j.kind \in Edits BY <1>14, Doing DEF Replace, At, Changing
  <2> HIDE DEF d
  <2>4. Calm BY <1>4, <2>1, <2>2
  <2> QED BY <1>6, <2>1, <2>3, <2>4 DEF Changing
<1>15. CASE Unhide(w)
  <2> DEFINE s == [site EXCEPT !.hidden = @ \ {"file"}]
  <2>1. Moved(w, Quit(j)) /\ site' \in {site, s} /\ UNCHANGED <<control, disk>>
    BY <1>15 DEF Unhide, Store, Access, Same, SetSite, stores, Become, Frame, Moved
  <2>2. s.stage = site.stage /\ s.point = site.point /\ s.points = site.points
    BY Known DEF StoresOK, SiteFields
  <2> HIDE DEF s
  <2> QED BY <1>2, <2>1, <2>2, CalmQuit
<1>16. CASE Redirect(w)
  <2> DEFINE s == [site EXCEPT !.props = j.value]
  <2>1. Moved(w, Quit(j)) /\ site' \in {site, s} /\ UNCHANGED <<control, disk>>
    BY <1>16 DEF Redirect, Store, Access, Same, SetSite, stores, Become, Frame, Moved
  <2>2. s.stage = site.stage /\ s.point = site.point /\ s.points = site.points
    BY Known DEF StoresOK, SiteFields
  <2> HIDE DEF s
  <2> QED BY <1>2, <2>1, <2>2, CalmQuit
<1>17. CASE SetRules(w)
  <2> DEFINE c == [control EXCEPT !.rules = j.value]
  <2>1. either(To(w, "read_rules")) /\ control' \in {control, c} /\ UNCHANGED <<site, disk>>
    BY <1>17 DEF SetRules, Access, Same, SetControl, stores, Become, Frame, Moved
  <2>2. c.flag = control.flag BY Known DEF StoresOK, ControlFields
  <2>3. j.kind \in Edits BY <1>17, Doing DEF SetRules, At, Changing
  <2> HIDE DEF c
  <2>4. Calm BY <1>3, <2>1, <2>2
  <2> QED BY <1>6, <2>1, <2>3, <2>4 DEF Changing
<1>18. CASE ReadRules(w)
  <2> DEFINE r == [To(w, "prefix") EXCEPT !.old = control.rules]
  <2>1. either(r) /\ UNCHANGED <<site, control, disk>>
    BY <1>18 DEF ReadRules, Load, Access, Same, stores, Become, Frame, Moved
  <2>2. r.kind = j.kind /\ r.guard = j.guard /\ r.step = "prefix"
    BY GoingFields DEF JobFields
  <2> HIDE DEF r
  <2> QED BY <1>1, <1>5, <1>7, <1>18, <2>1, <2>2 DEF Editing
<1>19. CASE WritePrefix(w)
  <2> DEFINE d == [disk EXCEPT !.prefix = j.old]
  <2>1. Moved(w, Quit(j)) /\ disk' \in {disk, d} /\ UNCHANGED <<site, control>>
    BY <1>19 DEF WritePrefix, Touch, SetDisk, Same, stores, Become, Frame, Moved
  <2>2. d.blocked = disk.blocked /\ d.policy = disk.policy BY DataKnown DEF DiskFields
  <2> HIDE DEF d
  <2> QED BY <1>4, <2>1, <2>2, CalmQuit
<1>20. CASE SetToken(w)
  <2> DEFINE token == IF j.kind = "revoke" THEN [id |-> 0, left |-> 0]
                      ELSE [id |-> j.value, left |-> 1]
             c == [control EXCEPT !.token = token]
  <2>1. Moved(w, Quit(j)) /\ control' \in {control, c} /\ UNCHANGED <<site, disk>>
    BY <1>20 DEF SetToken, Access, Same, SetControl, stores, Become, Frame, Moved
  <2> HIDE DEF token
  <2>2. c.flag = control.flag BY Known DEF StoresOK, ControlFields
  <2> HIDE DEF c
  <2> QED BY <1>3, <2>1, <2>2, CalmQuit
<1> QED
  BY <1>8, <1>9, <1>10, <1>11, <1>12, <1>13, <1>14, <1>15, <1>16, <1>17, <1>18, <1>19, <1>20
  DEF Editing

(* Leases say nothing about guests; whoever leaves may lift the barrier.    *)
LEMMA LeasesGuests ==
    ASSUME IInv, DataInv, GuestInv, NEW w \in Workers,
           Queue(w) \/ Granted(w) \/ Abandon(w) \/ Join(w) \/ Return(w) \/ Leave(w)
    PROVE  GuestInv'
<1> DEFINE j == job[w]
           here(r) == AtPoint(r, site.stage, site.point, control.flag)
<1>1. UNCHANGED <<site, control, disk>> => Calm BY CalmChanges
<1>2. ASSUME NEW r, Calm, job' = [job EXCEPT ![w] = r], Watched, r.guard => j.guard,
             r.step # "flag", here(r)
      PROVE  GuestInv'
  BY <1>2, KeyStays DEF Calm
<1>3. Ended(w).guard = FALSE /\ Ended(w).step \in {"idle", "refresh"} BY DEF Ended, Idle
<1>4. CASE Queue(w)
  <2> DEFINE c(v) == [job[v] EXCEPT !.canceled = TRUE]
             r == IF Busy THEN Quit(j) ELSE To(w, "turn")
  <2>1. /\ UNCHANGED <<site, control, disk>> /\ Watched
        /\ \A v \in Workers : job'[v] = IF v = w THEN r
                                        ELSE IF j.kind = "restore" /\ job[v].kind = "import"
                                        THEN c(v) ELSE job[v]
    BY <1>4 DEF Queue, stores, Frame
  <2>2. r.guard = j.guard /\ r.step \in {"leave", "return", "turn"}
    BY GoingFields, QuittingFields
  <2> HIDE DEF r
  <2>3. here(r) BY <2>2, Elsewhere DEF Outside
  <2>4. \A v \in Workers : /\ c(v).guard = job[v].guard /\ c(v).step = job[v].step
                           /\ c(v).kind = job[v].kind
    BY Known DEF JobFields
  <2>5. \A v \in Workers : job[v].kind = "import" => here(c(v))
    BY <2>4, Elsewhere DEF Edits
  <2>6. ASSUME NEW v \in Workers
        PROVE  /\ job'[v].guard = job[v].guard
               /\ job'[v].step = "flag" => job[v].step = "flag"
               /\ here(job[v]) => here(job'[v])
    BY <2>1, <2>2, <2>3, <2>4, <2>5
  <2>7. ~rival' => ~rival BY <2>1, Remembered
  <2>8. Guarding' BY <2>1, <2>6 DEF GuestInv, Guarding
  <2>9. ~rival => Held' BY <2>1 DEF GuestInv, Held, Point
  <2>10. ~rival => \A v \in Workers : AtPoint(job'[v], site'.stage, site'.point, control'.flag)
    BY <2>1, <2>6 DEF GuestInv
  <2> QED BY <2>7, <2>8, <2>9, <2>10 DEF GuestInv
<1>5. CASE Granted(w)
  <2> DEFINE r == To(w, CASE j.kind = "freeze"  -> "journal"
                          [] j.kind = "publish" -> "editable"
                          [] j.kind = "restore" -> "check")
  <2>1. /\ job' = [job EXCEPT ![w] = r] /\ UNCHANGED <<site, control, disk>> /\ Watched
        /\ j.step = "turn"
    BY <1>5 DEF Granted, Become, At, stores
  <2>2. j.kind \in Exclusive BY <2>1 DEF IInv, Placed
  <2>3. r.kind = j.kind /\ r.guard = j.guard /\ r.step \in {"journal", "editable", "check"}
    BY <2>2, GoingFields DEF Exclusive
  <2> HIDE DEF r
  <2>4. here(r) BY <2>3 DEF AtPoint
  <2> QED BY <1>1, <1>2, <2>1, <2>3, <2>4
<1>6. CASE Abandon(w)
  <2>1. Moved(w, Quit(j)) /\ UNCHANGED <<site, control, disk>>
    BY <1>6 DEF Abandon, Become, stores, Frame, Moved
  <2> QED BY <1>1, <2>1, CalmQuit
<1>7. CASE Join(w)
  <2> DEFINE r == [To(w, "editable") EXCEPT !.begun = j.kind = "import"]
  <2>1. /\ j.kind \in Edits /\ UNCHANGED <<site, control, disk>> /\ Watched
        /\ job' = [job EXCEPT ![w] = Quit(j)] \/ job' = [job EXCEPT ![w] = r]
    BY <1>7 DEF Join, Become, stores
  <2>2. r.kind = j.kind /\ r.guard = j.guard /\ r.step = "editable"
    BY GoingFields DEF JobFields
  <2> HIDE DEF r
  <2>3. here(r) BY <2>1, <2>2, Elsewhere
  <2>4. CASE job' = [job EXCEPT ![w] = r] BY <1>1, <1>2, <2>1, <2>2, <2>3, <2>4
  <2>5. CASE job' = [job EXCEPT ![w] = Quit(j)]
    <3> DEFINE q == Quit(j)
    <3>1. q.guard = j.guard /\ q.step \in {"leave", "return"} BY QuittingFields
    <3> HIDE DEF q
    <3>2. here(q) BY <3>1, Elsewhere DEF Outside
    <3> QED BY <1>1, <1>2, <2>1, <2>5, <3>1, <3>2 DEF q
  <2> QED BY <2>1, <2>4, <2>5
<1>8. CASE Return(w)
  <2> DEFINE r == IF j.kind \in Edits THEN Ended(w) ELSE To(w, "leave")
  <2>1. job' = [job EXCEPT ![w] = r] /\ UNCHANGED <<site, control, disk>> /\ Watched
    BY <1>8 DEF Return, Become, stores
  <2>2. (r.guard => j.guard) /\ r.step \in {"idle", "refresh", "leave"} BY <1>3, GoingFields
  <2> HIDE DEF r
  <2>3. here(r) BY <2>2, Elsewhere DEF Outside
  <2> QED BY <1>1, <1>2, <2>1, <2>2, <2>3
<1>9. CASE Leave(w)
  <2> DEFINE q == [To(w, "return") EXCEPT !.begun = FALSE, !.guard = FALSE]
             r == IF j.kind \in Edits THEN q ELSE Ended(w)
  <2>1. /\ job' = [job EXCEPT ![w] = r] /\ UNCHANGED <<site, control>> /\ Watched
        /\ disk' = disk \/ (WritePolicy /\ Guards(w) = {})
    BY <1>9 DEF Leave, PublishPolicy, WritePolicy, SetDisk, Same, stores, Become, Frame
  <2>2. q.guard = FALSE /\ q.step = "return" BY GoingFields DEF JobFields
  <2> HIDE DEF q
  <2>3. ~r.guard /\ r.step \in {"return", "idle", "refresh"} BY <1>3, <2>2
  <2> HIDE DEF r
  <2>4. here(r) BY <2>3, Elsewhere DEF Outside
  <2>5. Key' = Key BY <2>1 DEF Key
  <2> QED BY <2>1, <2>3, <2>4, <2>5, KeyStays
<1> QED BY <1>4, <1>5, <1>6, <1>7, <1>8, <1>9

(* Every step keeps guests where they are, unless startup had a rival.      *)
LEMMA GuestsKeep == IInv /\ DataInv /\ GuestInv /\ [Next]_vars => GuestInv'
<1> SUFFICES ASSUME IInv, DataInv, GuestInv, [Next]_vars PROVE GuestInv'
  OBVIOUS
<1>1. CASE UNCHANGED vars
  <2>1. UNCHANGED <<site, control, disk, job, rival>> BY <1>1 DEF vars, stores
  <2> QED BY <2>1 DEF GuestInv, Guarding, Held, Point
<1>2. ASSUME NEW w \in Workers, JobStep(w) PROVE GuestInv'
  BY <1>2, LeasesGuests, EditingGuests, FreezingGuests, DiscardingGuests
  DEF JobStep, Serving, Editing
<1>3. ASSUME NEW w \in Calls, NEW kind, NEW p, Start(w, kind, p) PROVE GuestInv'
  <2> DEFINE r == Call(kind, p)
  <2>1. w \in Workers /\ job' = [job EXCEPT ![w] = r] /\ Watched
        /\ UNCHANGED <<site, control, disk>>
    BY <1>3 DEF Start, Become, stores, Workers
  <2>2. r.guard = FALSE /\ r.step \in {"precheck", "admit"} BY DEF Call, Idle
  <2> HIDE DEF r
  <2>3. AtPoint(r, site.stage, site.point, control.flag) BY <2>2, Elsewhere DEF Outside
  <2>4. Key' = Key BY <2>1 DEF Key
  <2> QED BY <2>1, <2>2, <2>3, <2>4, KeyStays
<1>4. CASE Startup
  <2>1. /\ Recovery \in Workers /\ UNCHANGED <<site, control>> /\ Watched
        /\ disk' = disk \/ (WritePolicy /\ Guards(Recovery) = {})
    BY <1>4
    DEF Startup, Scan, Refresh, Access, Same, PublishPolicy, WritePolicy, SetDisk, Frame,
        stores, Workers
  <2>2. PICK r \in {Resumed, [Idle EXCEPT !.step = "refresh"], Idle} :
            job' = [job EXCEPT ![Recovery] = r]
    BY <1>4 DEF Startup, Scan, Refresh, Access, Become
  <2>3. r.guard = FALSE /\ r.step \in {"precheck", "publishing", "admit", "refresh", "idle"}
    <3>1. CASE r = Resumed
      <4>1. CASE site.stage = "restoring" BY <3>1, <4>1 DEF Resumed, Idle
      <4>2. CASE site.stage = "publishing" BY <3>1, <4>2 DEF Resumed, Idle
      <4>3. CASE site.stage = "preparing" BY <3>1, <4>3 DEF Resumed, Idle
      <4>4. CASE site.stage \notin {"restoring", "publishing", "preparing"}
        BY <3>1, <4>4 DEF Resumed, Idle
      <4> QED BY <4>1, <4>2, <4>3, <4>4
    <3>2. CASE r = [Idle EXCEPT !.step = "refresh"] BY <3>2 DEF Idle
    <3>3. CASE r = Idle BY <3>3 DEF Idle
    <3> QED BY <3>1, <3>2, <3>3
  <2>4. AtPoint(r, site.stage, site.point, control.flag) BY <2>3 DEF AtPoint
  <2>5. Key' = Key BY <2>1 DEF Key
  <2> QED BY <2>1, <2>2, <2>3, <2>4, <2>5, KeyStays
<1>5. CASE Consume
  <2>1. /\ control' = [control EXCEPT !.token.left = @ - 1] /\ UNCHANGED <<site, disk, job>>
        /\ Watched
    BY <1>5 DEF Consume, SetControl, Frame
  <2>2. control'.flag = control.flag
    <3>1. DOMAIN control = ControlFields BY DEF IInv, Shape
    <3> QED BY <2>1, <3>1 DEF ControlFields
  <2>3. ~rival' => ~rival BY <2>1, Remembered
  <2> QED BY <2>1, <2>2, <2>3 DEF GuestInv, Guarding, Held, Point
<1>6. CASE Crash
  <2>1. /\ UNCHANGED <<site, control, disk>> /\ Watched
        /\ job' = [w \in Workers |-> IF w = Recovery THEN [Idle EXCEPT !.step = "scan"] ELSE Idle]
    BY <1>6 DEF Crash, stores
  <2>2. \A w \in Workers : job'[w].guard = FALSE /\ job'[w].step \in {"idle", "scan"}
    BY <2>1 DEF Idle
  <2>3. Guarding' BY <2>2 DEF Guarding
  <2>4. \A w \in Workers : AtPoint(job'[w], site'.stage, site'.point, control'.flag)
    BY <2>2, Elsewhere DEF Outside
  <2>5. ~rival' => Held' BY <2>1, Remembered DEF GuestInv, Held, Point
  <2> QED BY <2>3, <2>4, <2>5 DEF GuestInv
<1> QED BY <1>1, <1>2, <1>3, <1>4, <1>5, <1>6 DEF Next

(* At first guests have what was published.                                 *)
LEMMA InitGuests == Init => GuestInv
<1> SUFFICES ASSUME Init PROVE GuestInv
  OBVIOUS
<1>1. \A w \in Workers : job[w] = Idle BY DEF Init
<1>2. Idle.guard = FALSE /\ Idle.step = "idle" BY DEF Idle
<1>3. Guarding BY <1>1, <1>2 DEF Guarding
<1>4. \A w \in Workers : AtPoint(job[w], site.stage, site.point, control.flag)
  BY <1>1, <1>2, Elsewhere DEF Outside
<1>5. Held
  <2> DEFINE first == CHOOSE p \in Pages : TRUE
             some  == [p \in Pages |-> IF p = first THEN 1 ELSE IF p \in setup.drafts THEN 2 ELSE 0]
             start == [NoPoint EXCEPT !.page = some, !.live[first] = 1, !.latest = some, !.file = 3]
  <2> HIDE DEF start
  <2>1. /\ control.flag = IF setup.frozen THEN 1 ELSE 0
        /\ site.point = IF setup.frozen THEN 1 ELSE 0
        /\ site.points = IF setup.frozen THEN [id \in {1} |-> start] ELSE <<>>
        /\ disk.policy = [frozen |-> setup.frozen, hidden |-> {},
                          pinned |-> IF setup.frozen THEN start.live ELSE NoPages,
                          file |-> IF setup.frozen THEN 3 ELSE 0]
    BY DEF Init, start
  <2> QED BY <2>1 DEF Held, Point
<1> QED BY <1>3, <1>4, <1>5 DEF GuestInv

(* While a site is frozen guests get the publication of its checkpoint or a *)
(* closed barrier: never an edit, nor what a failed publication already     *)
(* wrote (setDomainFrozenState, writePublicPolicy, startPublicPublication). *)
THEOREM GuestsKeepPublishedAlways == Spec => []GuestsKeepPublished
<1>1. GuestInv => GuestsKeepPublished
  BY DEF GuestInv, Held, GuestsKeepPublished, Pinned, Guest, Point
<1> QED BY <1>1, InitGuests, GuestsKeep, InductiveInvariant, DataInvariant, PTL DEF Spec
-----------------------------------------------------------------------------
(* What a restoration puts back *)

(* While a site is restored nothing is edited, so that what was captured at *)
(* the beginning still tells what to hide.                                  *)
Resting(s, d) ==
    s.stage = "restoring" =>
        LET base  == s.points[s.point]
            taken == s.points[s.from]
        IN /\ s.latest = taken.latest
           /\ base.file = 0 => taken.file # 0 \/ d.file = 0 \/ "file" \in s.hidden

Undoing   == {"files", "props", "views", "restore_rules", "restore_prefix", "protect", "flag",
              "open", "finish"}
Shielding == {"protect", "flag", "open", "finish"}

(* A file is back, or still to be put back.                                 *)
Awaited(t, r, back) == back \/ (r.step = "files" /\ t \in Range(r.todo))

(* The pages are those of the checkpoint, and what is newer is hidden.      *)
ViewsBack(base, s, d) ==
    /\ s.page = base.page /\ s.live = base.live
    /\ IF base.file = 0 THEN d.file = 0 \/ "file" \in s.hidden ELSE "file" \notin s.hidden
    /\ \A p \in Pages : IF base.live[p] # 0 THEN p \notin s.hidden
                         ELSE s.latest[p] # base.latest[p] => p \in s.hidden

(* How far a restoration has come, step by step.                            *)
Undone(r, s, c, d) ==
    LET base == s.points[s.point] IN
    /\ s.stage = "restoring" /\ r.id = s.point
    /\ r.step = "files" => r.todo \in Seq(Pages \cup {"file"})
    /\ Awaited("file", r, base.file # 0 => d.file = base.file)
    /\ \A p \in Pages : Awaited(p, r, base.live[p] # 0 => d.static[p] = base.live[p])
    /\ IF r.step \in {"files", "props", "views"} THEN r.taken = s.points[s.from]
       ELSE ViewsBack(base, s, d)
    /\ r.step \notin {"files", "props"} => s.props = base.props
    /\ r.step \in {"restore_prefix"} \cup Shielding => c.rules = base.rules
    /\ r.step \in Shielding => d.prefix = base.rules

(* What a call has found out or done, where the journal stands.             *)
Way(r, s, c, d) ==
    /\ Intent(r) => r.seen = <<r.taken>> /\ (r.step = "restoring" => s.points[r.value] = r.taken)
    /\ r.kind = "freeze" /\ r.step \in {"protect", "flag"} => r.flag = 1
    /\ r.kind = "publish" /\ r.step \in Shielding => s.stage \in {"publishing", "none"}
    /\ r.kind = "restore" /\ r.step \in Undoing => Undone(r, s, c, d)

UndoInv ==
    ~rival => Resting(site, disk) /\ \A w \in Workers : Way(job[w], site, control, disk)

(* Elsewhere a call has nothing to remember.                                *)
LEMMA Unmindful ==
    ASSUME NEW r, r.step \in Outside \/ r.kind \in Edits
                    \/ r.step \in {"journal", "capture", "editable", "candidates", "static",
                                   "commit", "publishing", "mark", "check", "compare",
                                   "activate"},
           NEW s, NEW c, NEW d
    PROVE  Way(r, s, c, d)
BY DEF Way, Intent, Seeing, Outside, Edits, Shielding, Undoing

(* All of the stores that a restoration is about.                           *)
Ground == <<site, control.rules, disk.file, disk.static, disk.prefix>>

(* What leaves it alone keeps everything that is known of a restoration.    *)
LEMMA GroundStays ==
    ASSUME Ground' = Ground
    PROVE  /\ Resting(site, disk) => Resting(site', disk')
           /\ \A r : Way(r, site, control, disk) => Way(r, site', control', disk')
BY DEF Ground, Resting, Way, Undone, ViewsBack

(* A step that leaves the ground alone.                                     *)
LEMMA UndoStays ==
    ASSUME IInv, UndoInv, NEW w \in Workers, NEW r, job' = [job EXCEPT ![w] = r], Watched,
           Ground' = Ground, ~rival => Way(r, site, control, disk)
    PROVE  UndoInv'
<1>1. ~rival' => ~rival BY Remembered
<1>2. \A v \in Workers : job'[v] = IF v = w THEN r ELSE job[v] BY DEF IInv, Shape
<1> QED BY <1>1, <1>2, GroundStays DEF UndoInv

(* A return beside it asks for nothing.                                     *)
LEMMA UndoQuits ==
    ASSUME IInv, UndoInv, NEW w \in Workers, Moved(w, Quit(job[w])), Ground' = Ground
    PROVE  UndoInv'
<1> DEFINE q == Quit(job[w])
<1>1. q.step \in Outside BY QuittingFields DEF Outside
<1> HIDE DEF q
<1>2. Way(q, site, control, disk) BY <1>1, Unmindful
<1> QED BY <1>2, UndoStays DEF Moved, q

(* The call that changes the ground is alone with it.                       *)
LEMMA UndoMoves ==
    ASSUME IInv, UndoInv, NEW w \in Workers, job[w].kind \in Exclusive,
           job[w].step \notin Outside, NEW r, Moved(w, r),
           ~rival => Resting(site', disk') /\ Way(r, site', control', disk')
    PROVE  UndoInv'
<1>1. ~rival' => ~rival /\ ~Contended BY Remembered DEF Moved
<1>2. \A v \in Workers : job'[v] = IF v = w THEN r ELSE job[v] BY DEF IInv, Shape, Moved
<1>3. ~rival' => \A v \in Workers \ {w} : Way(job[v], site', control', disk')
  BY <1>1, OthersAway, Unmindful
<1> QED BY <1>1, <1>2, <1>3 DEF UndoInv

(* Beside an edit no other call relies on the journal.                      *)
LEMMA EditsAway ==
    ASSUME IInv, ~rival, NEW w \in Workers, job[w].kind \in Edits, job[w].step \in Changing,
           NEW v \in Workers \ {w}
    PROVE  job[v].step \in Outside \/ job[v].kind \in Edits
<1>1. holder[w] = "shared" /\ site.stage \notin Unsettling
  BY DEF IInv, Leased, InStage, Changing, Outside
<1>2. holder[v] # "exclusive" BY <1>1 DEF IInv, Alone
<1>3. CASE job[v].step \notin Outside /\ job[v].kind \in Exclusive
  <2>1. v = Recovery /\ job[v].kind = "publish" BY <1>2, <1>3 DEF IInv, Leased
  <2> QED BY <1>1, <1>3, <2>1 DEF IInv, InStage, Unsettling
<1>4. job[v].step \in Outside \/ job[v].kind \in Exclusive \cup Edits
  BY DEF IInv, Placed, Exclusive
<1> QED BY <1>3, <1>4

(* Edits are made when nothing is being restored.                           *)
LEMMA EditingUndo ==
    ASSUME IInv, DataInv, UndoInv, NEW w \in Workers, Editing(w) \/ Editable(w)
    PROVE  UndoInv'
<1> DEFINE j == job[w]
<1>1. CASE Editable(w)
  <2> DEFINE r == IF j.kind = "publish" THEN To(w, "candidates")
                  ELSE To(w, IF j.kind = "import" THEN FirstStep(j.kind) ELSE "begin")
  <2>1. UNCHANGED <<site, control, disk>> /\ (Moved(w, Quit(j)) \/ Moved(w, r))
    BY <1>1 DEF Editable, Load, Access, Same, stores, Become, Frame, Moved
  <2>2. j.kind \in Edits \cup {"publish"} BY <1>1, Doing DEF Editable, At
  <2>3. r.kind = j.kind /\ (j.kind = "publish" => r.step = "candidates") BY GoingFields
  <2> HIDE DEF r
  <2>4. Way(r, site, control, disk) BY <2>2, <2>3, Unmindful
  <2>5. Ground' = Ground BY <2>1 DEF Ground
  <2> QED BY <2>1, <2>4, <2>5, UndoQuits, UndoStays DEF Moved
<1>2. CASE Editing(w) /\ j.kind \in Edits
  <2>1. j.step \in Changing
    BY <1>2 DEF Editing, Begin, ReadFlag, WriteStatic, CommitSave, RetainOld, Replace, Unhide,
                Redirect, SetRules, ReadRules, WritePrefix, SetToken, At, Changing
  <2>2. site'.stage = site.stage BY <1>2, EditingSettles DEF Settled
  <2>3. Watched BY <1>2, StepsWatch DEF JobStep, Serving, Editing
  <2>4. ~rival' => ~rival BY <2>3, Remembered
  <2>5. ~rival => site.stage \notin Unsettling BY <1>2, <2>1 DEF IInv, InStage
  <2>6. ~rival => Resting(site', disk') BY <2>2, <2>5 DEF Resting, Unsettling
  <2>7. ASSUME NEW v \in Workers \ {w} PROVE job'[v] = job[v]
    <3>1. JobStep(w) /\ ~Queue(w)
      BY <1>2, <2>1 DEF JobStep, Serving, Editing, Queue, At, Changing
    <3> QED BY <3>1, OnlyOne
  <2>8. job'[w].kind = j.kind
    <3>1. \A r : Become(w, r) => job'[w] = r BY DEF Become, IInv, Shape
    <3>2. /\ DOMAIN j = JobFields /\ Quit(j).kind = j.kind
          /\ \A s : To(w, s).kind = j.kind /\ DOMAIN To(w, s) = JobFields
      BY Known, QuittingFields, GoingFields
    <3> DEFINE kept == job'[w].kind = j.kind
    <3>3. Begin(w) => kept
      <4> DEFINE next == [To(w, FirstStep(j.kind)) EXCEPT !.begun = TRUE]
                 barred == [next EXCEPT !.guard = TRUE]
      <4>1. next.kind = j.kind /\ DOMAIN next = JobFields BY <3>2 DEF JobFields
      <4>2. Begin(w) => Become(w, next) \/ Become(w, barred) \/ Become(w, Quit(j))
        BY DEF Begin, Touch
      <4> HIDE DEF next
      <4>3. barred.kind = j.kind BY <4>1 DEF JobFields
      <4> QED BY <3>1, <3>2, <4>1, <4>2, <4>3
    <3>4. ReadFlag(w) => kept BY <3>1, <3>2 DEF ReadFlag, Load, Access, JobFields
    <3>5. WriteStatic(w) => kept BY <3>1, <3>2 DEF WriteStatic, Touch, JobFields
    <3>6. CommitSave(w) => kept BY <3>1, <3>2 DEF CommitSave, Commit
    <3>7. RetainOld(w) \/ Replace(w) \/ WritePrefix(w) => kept
      BY <3>1, <3>2 DEF RetainOld, Replace, WritePrefix, Touch
    <3>8. Unhide(w) \/ Redirect(w) => kept BY <3>1, <3>2 DEF Unhide, Redirect, Store, Access
    <3>9. SetRules(w) \/ SetToken(w) => kept BY <3>1, <3>2 DEF SetRules, SetToken, Access
    <3>10. ReadRules(w) => kept BY <3>1, <3>2 DEF ReadRules, Load, Access, JobFields
    <3> HIDE DEF kept
    <3> QED
      BY <1>2, <3>3, <3>4, <3>5, <3>6, <3>7, <3>8, <3>9, <3>10 DEF Editing, kept
  <2>9. ASSUME ~rival, NEW v \in Workers PROVE Way(job'[v], site', control', disk')
    BY <1>2, <2>1, <2>7, <2>8, <2>9, EditsAway, Unmindful
  <2> QED BY <2>4, <2>6, <2>9 DEF UndoInv
<1>3. CASE Editing(w) /\ j.kind \notin Edits
  <2> DEFINE r == [To(w, "commit") EXCEPT !.old = disk.static[Target(w)]]
  <2>1. WriteStatic(w) /\ j.kind = "publish" /\ j.step = "static"
    BY <1>3, Doing
    DEF Editing, Begin, ReadFlag, WriteStatic, CommitSave, RetainOld, Replace, Unhide, Redirect,
        SetRules, ReadRules, WritePrefix, SetToken, At, Changing
  <2>2. /\ UNCHANGED <<site, control>> /\ (Moved(w, Quit(j)) \/ Moved(w, r))
        /\ disk' \in {disk, [disk EXCEPT !.static[Target(w)] = j.value]}
    BY <2>1 DEF WriteStatic, Touch, SetDisk, Same, stores, Become, Frame, Moved
  <2>3. r.step = "commit" /\ Quit(j).step \in Outside
    BY GoingFields, QuittingFields DEF JobFields, Outside
  <2>4. disk'.file = disk.file BY <2>2, DataKnown DEF DiskFields
  <2>5. ~rival => Resting(site', disk') BY <2>2, <2>4 DEF UndoInv, Resting
  <2> HIDE DEF r
  <2>6. PICK q \in {Quit(j), r} : Moved(w, q) BY <2>2
  <2>7. Way(q, site', control', disk') BY <2>3, <2>6, Unmindful
  <2> QED BY <2>1, <2>5, <2>6, <2>7, UndoMoves DEF Exclusive, Outside
<1> QED BY <1>1, <1>2, <1>3

(* The calls that take or finish a checkpoint leave a restoration alone, and*)
(* one that ends has put everything back.                                   *)
LEMMA FreezingUndo ==
    ASSUME IInv, DataInv, UndoInv, NEW w \in Workers, Freezing(w)
    PROVE  UndoInv'
<1> DEFINE j == job[w]
           here(r) == Way(r, site, control, disk)
           there(r) == Way(r, site', control', disk')
<1>1. ~rival => here(j) /\ Resting(site, disk) BY DEF UndoInv
<1>2. ASSUME NEW r, Ground' = Ground, Moved(w, Quit(j)) \/ Moved(w, r), ~rival => here(r)
      PROVE  UndoInv'
  BY <1>2, UndoStays, UndoQuits DEF Moved
<1>3. UNCHANGED <<site, control, disk>> => Ground' = Ground BY DEF Ground
<1>4. ASSUME NEW r, r = Quit(j) PROVE there(r) /\ r.step \in Outside
  BY <1>4, QuittingFields, Unmindful DEF Outside
<1>5. CASE LoadJournal(w)
  <2> DEFINE r == IF site.stage # "none"
                  THEN [To(w, "protect") EXCEPT !.flag = 1, !.id = site.point]
                  ELSE To(w, "capture")
  <2>1. j.kind = "freeze" /\ j.step = "journal" BY <1>5, Doing DEF LoadJournal, At
  <2>2. /\ UNCHANGED <<site, control, disk>>
        /\ Moved(w, Quit(j)) \/ Moved(w, r)
    BY <1>5 DEF LoadJournal, Load, Access, Same, stores, Become, Frame, Moved, Quit
  <2>3. r.kind = j.kind /\ r.step \in {"protect", "capture"} /\ (r.step = "protect" => r.flag = 1)
    BY GoingFields DEF JobFields
  <2> HIDE DEF r
  <2>4. here(r) BY <2>1, <2>3 DEF Way, Intent
  <2> QED BY <1>2, <1>3, <2>2, <2>4
<1>6. CASE Capture(w)
  <2> DEFINE r == [To(w, "retain") EXCEPT !.taken = Captured, !.todo = Contents(Captured)]
  <2>1. j.kind = "freeze" /\ j.step = "capture" BY <1>6, Doing DEF Capture, At
  <2>2. /\ UNCHANGED <<site, control>> /\ disk' \in {disk, [disk EXCEPT !.versioned = TRUE]}
        /\ Moved(w, Quit(j)) \/ Moved(w, r)
    BY <1>6 DEF Capture, Access, Same, SetDisk, stores, Become, Frame, Moved
  <2>3. Ground' = Ground BY <2>2, DataKnown DEF DiskFields, Ground
  <2>4. r.kind = j.kind /\ r.step = "retain" BY GoingFields DEF JobFields
  <2> HIDE DEF r
  <2>5. here(r) BY <2>1, <2>4 DEF Way, Intent
  <2> QED BY <1>2, <2>2, <2>3, <2>5
<1>7. CASE Retain(w)
  <2> DEFINE r == IF j.todo = <<>> THEN To(w, "shield") ELSE [j EXCEPT !.todo = Tail(@)]
  <2>1. j.kind \in {"freeze", "restore"} /\ j.step = "retain" BY <1>7, Doing DEF Retain, At
  <2>2. /\ UNCHANGED <<site, control>>
        /\ disk' \in {disk, [disk EXCEPT !.objects = @ \cup {Target(w)}]}
        /\ Moved(w, Quit(j)) \/ Moved(w, r)
    BY <1>7 DEF Retain, Touch, Same, SetDisk, stores, Become, Frame, Moved
  <2>3. Ground' = Ground BY <2>2, DataKnown DEF DiskFields, Ground
  <2>4. /\ r.kind = j.kind /\ r.step \in {"retain", "shield"}
        /\ r.seen = j.seen /\ r.taken = j.taken
    BY <2>1, Known DEF JobFields, To
  <2> HIDE DEF r
  <2>5. ~rival => here(r)
    BY <1>1, <2>1, <2>4 DEF Way, Intent, Seeing, Undoing, Shielding
  <2> QED BY <1>2, <2>2, <2>3, <2>5
<1>8. CASE Shield(w)
  <2> DEFINE id == Cardinality(control.protection) + 1
             r == [To(w, "save") EXCEPT !.value = id]
             c == [control EXCEPT !.protection = @ \cup {id}]
  <2>1. j.kind \in {"freeze", "restore"} /\ j.step = "shield" BY <1>8, Doing DEF Shield, At
  <2>2. /\ UNCHANGED <<site, disk>> /\ control' \in {control, c}
        /\ Moved(w, Quit(j)) \/ Moved(w, r)
    BY <1>8 DEF Shield, Access, Same, SetControl, stores, Become, Frame, Moved
  <2>3. c.rules = control.rules BY Known DEF StoresOK, ControlFields
  <2>4. Ground' = Ground BY <2>2, <2>3 DEF Ground
  <2>5. r.kind = j.kind /\ r.step = "save" /\ r.seen = j.seen /\ r.taken = j.taken
    BY Known DEF JobFields, To
  <2> HIDE DEF r
  <2>6. ~rival => here(r)
    BY <1>1, <2>1, <2>5 DEF Way, Intent, Seeing, Undoing, Shielding
  <2> QED BY <1>2, <2>2, <2>4, <2>6
<1>9. CASE Save(w)
  <2> DEFINE s == IF j.kind = "freeze"
                  THEN [Saved(w) EXCEPT !.stage = "preparing", !.point = j.value]
                  ELSE Saved(w)
             go == IF j.kind = "freeze"
                   THEN [To(w, "protect") EXCEPT !.flag = 1, !.id = j.value]
                   ELSE To(w, "restoring")
  <2>1. j.kind \in {"freeze", "restore"} /\ j.step = "save" BY <1>9, Doing DEF Save, At
  <2>2. UNCHANGED <<control, disk>> /\ site' \in {site, s}
    BY <1>9 DEF Save, Store, Access, Same, SetSite, stores
  <2>3. (site' = s /\ Moved(w, go)) \/ Moved(w, Quit(j))
    BY <1>9 DEF Save, Store, Access, Same, SetSite, Become, Frame, Moved, Quit
  <2>4. /\ s.points = With(site.points, j.value, j.taken)
        /\ s.stage = IF j.kind = "freeze" THEN "preparing" ELSE site.stage
        /\ j.kind = "restore" => s.point = site.point
        /\ s.from = site.from /\ s.latest = site.latest /\ s.hidden = site.hidden
    BY Known DEF StoresOK, Saved, SiteFields
  <2>5. /\ go.kind = j.kind /\ (j.kind = "freeze" => go.step = "protect" /\ go.flag = 1)
        /\ j.kind = "restore" => /\ go.step = "restoring" /\ go.value = j.value
                                 /\ go.seen = j.seen /\ go.taken = j.taken
    BY <2>1, Known DEF JobFields, To
  <2>6. j.value \notin DOMAIN site.points /\ SiteData(site, disk, version)
    BY <2>1, DataKnown DEF JobData
  <2> HIDE DEF s, go
  <2>7. ~rival => Resting(site', disk')
    <3>1. CASE site' = site BY <1>1, <2>2, <3>1 DEF Resting
    <3>2. CASE site' = s /\ j.kind = "freeze" BY <2>4, <3>2 DEF Resting
    <3>3. CASE site' = s /\ j.kind = "restore" /\ site.stage = "restoring"
      <4>1. site.point \in DOMAIN site.points /\ site.from \in DOMAIN site.points
        BY <2>6, <3>3 DEF SiteData, Sound
      <4>2. s.points[s.point] = site.points[site.point] /\ s.points[s.from] = site.points[site.from]
        BY <2>4, <2>6, <3>3, <4>1 DEF With
      <4> QED BY <1>1, <2>2, <2>4, <3>3, <4>2 DEF Resting
    <3>4. CASE site' = s /\ j.kind = "restore" /\ site.stage # "restoring"
      BY <2>4, <3>4 DEF Resting
    <3> QED BY <2>1, <2>2, <3>1, <3>2, <3>3, <3>4
  <2>8. CASE Moved(w, Quit(j)) BY <1>4, <2>1, <2>7, <2>8, UndoMoves DEF Exclusive, Outside
  <2>9. CASE site' = s /\ Moved(w, go)
    <3>1. j.kind = "freeze" => there(go) BY <2>5 DEF Way, Intent
    <3>2. s.points[j.value] = j.taken BY <2>4 DEF With
    <3>3. j.kind = "restore" /\ ~rival => there(go)
      BY <1>1, <2>1, <2>5, <2>9, <3>2 DEF Way, Intent, Seeing, Undoing
    <3> QED BY <2>1, <2>7, <2>9, <3>1, <3>3, UndoMoves DEF Exclusive, Outside
  <2> QED BY <2>3, <2>8, <2>9
<1>10. CASE Protect(w)
  <2> DEFINE r == [To(w, "flag") EXCEPT !.guard = TRUE]
  <2>1. j.kind \in Exclusive /\ j.step = "protect" BY <1>10, Doing DEF Protect, At
  <2>2. /\ UNCHANGED <<site, control>> /\ disk' \in {disk, [disk EXCEPT !.blocked = TRUE]}
        /\ Moved(w, Quit(j)) \/ Moved(w, r)
    BY <1>10 DEF Protect, Touch, Same, SetDisk, stores, Become, Frame, Moved
  <2>3. Ground' = Ground BY <2>2, DataKnown DEF DiskFields, Ground
  <2>4. r.kind = j.kind /\ r.step = "flag" /\ r.id = j.id /\ r.flag = j.flag
    BY GoingFields DEF JobFields
  <2> HIDE DEF r
  <2>5. ~rival => here(r)
    BY <1>1, <2>1, <2>4
    DEF Way, Intent, Seeing, Undoing, Shielding, Undone, Awaited, Exclusive
  <2> QED BY <1>2, <2>2, <2>3, <2>5
<1>11. CASE SetFlag(w)
  <2> DEFINE c  == [control EXCEPT !.flag = j.flag]
             ra == To(w, "open")
             rb == [To(w, "open") EXCEPT !.broken = TRUE]
  <2>1. j.kind \in Exclusive /\ j.step = "flag" BY <1>11, Doing DEF SetFlag, At
  <2>2. UNCHANGED <<site, disk>> /\ control' \in {control, c}
    BY <1>11 DEF SetFlag, Access, Same, SetControl, stores
  <2>3. PICK r \in {ra, rb} : Moved(w, r)
    BY <1>11 DEF SetFlag, Access, Same, SetControl, Become, Frame, Moved
  <2>4. r.kind = j.kind /\ r.step = "open" /\ r.id = j.id
    BY GoingFields DEF JobFields
  <2>5. c.rules = control.rules BY Known DEF StoresOK, ControlFields
  <2>6. Ground' = Ground BY <2>2, <2>5 DEF Ground
  <2> HIDE DEF ra, rb, c
  <2>7. ~rival => here(r)
    BY <1>1, <2>1, <2>4
    DEF Way, Intent, Seeing, Undoing, Shielding, Undone, Awaited, Exclusive
  <2> QED BY <1>2, <2>3, <2>6, <2>7
<1>12. CASE Open(w)
  <2> DEFINE stop == Quit([j EXCEPT !.guard = FALSE])
             go == [To(w, IF j.kind = "freeze" THEN "activate" ELSE "finish")
                    EXCEPT !.guard = FALSE]
  <2>1. j.kind \in Exclusive /\ j.step = "open" BY <1>12, Doing DEF Open, At
  <2>2. UNCHANGED <<site, control>> /\ Watched /\ (disk' = disk \/ WritePolicy)
    BY <1>12 DEF Open, WritePolicy, SetDisk, Same, Frame, stores
  <2>3. PICK r \in {stop, go} : job' = [job EXCEPT ![w] = r]
    BY <1>12 DEF Open, Become
  <2>4. stop.step \in {"leave", "return"} BY Known DEF Quit, JobFields
  <2>5. /\ go.kind = j.kind /\ go.id = j.id
        /\ go.step = IF j.kind = "freeze" THEN "activate" ELSE "finish"
    BY GoingFields DEF JobFields
  <2> HIDE DEF stop, go
  <2>6. Ground' = Ground BY <2>2, DataKnown DEF WritePolicy, SetDisk, DiskFields, Ground
  <2>7. here(stop) BY <2>4, Unmindful DEF Outside
  <2>8. ~rival => here(go)
    BY <1>1, <2>1, <2>5
    DEF Way, Intent, Seeing, Undoing, Shielding, Undone, Awaited, Exclusive
  <2> QED BY <2>2, <2>3, <2>6, <2>7, <2>8, UndoStays
<1>13. ASSUME j.kind \in Exclusive, j.step \notin Outside, ~rival => Resting(site', disk'),
              NEW r, Moved(w, Quit(j)) \/ Moved(w, r), ~rival => there(r)
       PROVE  UndoInv'
  BY <1>4, <1>13, UndoMoves
<1>14. CASE Activate(w)
  <2> DEFINE s == Activated(j.id, "frozen")
  <2>1. j.kind = "freeze" /\ j.step = "activate" BY <1>14, Doing DEF Activate, At
  <2>2. UNCHANGED <<control, disk>> /\ site' \in {site, s} /\ Moved(w, Quit(j))
    BY <1>14 DEF Activate, Store, Access, Same, SetSite, stores, Become, Frame, Moved
  <2>3. s.stage = "frozen" BY Known DEF StoresOK, Activated, SiteFields
  <2> HIDE DEF s
  <2>4. ~rival => Resting(site', disk') BY <1>1, <2>2, <2>3 DEF Resting
  <2> QED BY <1>4, <2>1, <2>2, <2>4, UndoMoves DEF Exclusive, Outside
<1>15. CASE Finish(w)
  <2> DEFINE r == [Quit(j) EXCEPT !.done = TRUE]
  <2>1. j.kind \in {"publish", "restore"} /\ j.step = "finish" BY <1>15, Doing DEF Finish, At
  <2>2. /\ UNCHANGED <<control, disk>> /\ site' \in {site, Finished}
        /\ Moved(w, Quit(j)) \/ Moved(w, r)
    BY <1>15 DEF Finish, Store, Access, Same, SetSite, stores, Become, Frame, Moved
  <2>3. Finished.stage = "none" BY Known DEF StoresOK, Finished, SiteFields
  <2>4. ~rival => Resting(site', disk') BY <1>1, <2>2, <2>3 DEF Resting
  <2>5. r.step \in Outside BY QuittingFields DEF JobFields, Outside
  <2> HIDE DEF r
  <2>6. there(r) BY <2>5, Unmindful
  <2> QED BY <1>13, <2>1, <2>2, <2>4, <2>6 DEF Exclusive, Outside
<1>16. ASSUME NEW t, j.kind = "publish", j.step \notin Outside, ~rival => Resting(site', disk'),
              Moved(w, Quit(j)) \/ Moved(w, NextCandidate([j EXCEPT !.todo = t]))
       PROVE  UndoInv'
  <2> DEFINE q == [j EXCEPT !.todo = t]
             r == NextCandidate(q)
  <2>1. DOMAIN q = JobFields BY Known DEF JobFields
  <2> HIDE DEF q
  <2>2. r.step \in {"publishing", "static"} BY <2>1 DEF NextCandidate, JobFields
  <2> HIDE DEF r
  <2>3. there(r) BY <2>2, Unmindful
  <2> QED BY <1>13, <1>16, <2>3 DEF Exclusive, r, q
<1>17. CASE Candidates(w)
  <2> DEFINE t == SetToSeq({p \in Pages : site.page[p] \notin {0, site.live[p]}})
  <2>1. j.kind = "publish" /\ j.step = "candidates" BY <1>17, Doing DEF Candidates, At
  <2>2. /\ UNCHANGED <<site, control, disk>>
        /\ Moved(w, Quit(j)) \/ Moved(w, NextCandidate([j EXCEPT !.todo = t]))
    BY <1>17 DEF Candidates, Load, Access, Same, stores, Become, Frame, Moved
  <2> HIDE DEF t
  <2>3. ~rival => Resting(site', disk') BY <1>1, <2>2 DEF Resting
  <2> QED BY <1>16, <2>1, <2>2, <2>3 DEF Outside
<1>18. CASE CommitPublication(w)
  <2> DEFINE s == [site EXCEPT !.live[Target(w)] = j.value]
             t == Tail(j.todo)
  <2>1. j.kind = "publish" /\ j.step = "commit" BY <1>18 DEF CommitPublication, At
  <2>2. /\ \/ site' = s /\ UNCHANGED <<control, disk>>
           \/ disk' = RolledBack(w) /\ UNCHANGED <<site, control>>
        /\ Moved(w, Quit(j)) \/ Moved(w, NextCandidate([j EXCEPT !.todo = t]))
    BY <1>18 DEF CommitPublication, Commit, SetSite, SetDisk, Become, Frame, Moved
  <2>3. /\ s.stage = site.stage /\ s.point = site.point /\ s.points = site.points
        /\ s.from = site.from /\ s.latest = site.latest /\ s.hidden = site.hidden
    BY Known DEF StoresOK, SiteFields
  <2>4. RolledBack(w).file = disk.file BY DataKnown DEF RolledBack, DiskFields
  <2> HIDE DEF s, t
  <2>5. ~rival => Resting(site', disk')
    <3>1. CASE site' = s /\ disk' = disk BY <1>1, <2>3, <3>1 DEF Resting
    <3>2. CASE site' = site /\ disk' = RolledBack(w) BY <1>1, <2>4, <3>2 DEF Resting
    <3> QED BY <2>2, <3>1, <3>2
  <2> QED BY <1>16, <2>1, <2>2, <2>5 DEF Outside
<1>19. CASE Publishing(w)
  <2> DEFINE r == IF site.stage = "none" THEN [To(w, "protect") EXCEPT !.id = 0]
                  ELSE [To(w, "mark") EXCEPT !.id = site.point]
  <2>1. j.kind = "publish" /\ j.step = "publishing" BY <1>19, Doing DEF Publishing, At
  <2>2. UNCHANGED <<site, control, disk>> /\ (Moved(w, Quit(j)) \/ Moved(w, r))
    BY <1>19 DEF Publishing, Load, Access, Same, stores, Become, Frame, Moved
  <2>3. r.kind = j.kind /\ (IF site.stage = "none" THEN r.step = "protect" ELSE r.step = "mark")
    BY GoingFields DEF JobFields
  <2> HIDE DEF r
  <2>4. here(r) BY <2>1, <2>3 DEF Way, Intent, Shielding
  <2> QED BY <1>2, <1>3, <2>2, <2>4
<1>20. CASE MarkPublishing(w)
  <2> DEFINE s == Activated(j.id, "publishing")
             r == To(w, "protect")
  <2>1. j.kind = "publish" /\ j.step = "mark" BY <1>20, Doing DEF MarkPublishing, At
  <2>2. /\ UNCHANGED <<control, disk>> /\ site' \in {site, s}
        /\ Moved(w, Quit(j)) \/ (Moved(w, r) /\ site' = s)
    BY <1>20 DEF MarkPublishing, Store, Access, Same, SetSite, stores, Become, Frame, Moved
  <2>3. s.stage = "publishing" BY Known DEF StoresOK, Activated, SiteFields
  <2>4. r.kind = j.kind /\ r.step = "protect" BY GoingFields
  <2> HIDE DEF s, r
  <2>5. ~rival => Resting(site', disk') BY <1>1, <2>2, <2>3 DEF Resting
  <2>6. site' = s => there(r) BY <2>1, <2>3, <2>4 DEF Way, Intent
  <2>7. CASE Moved(w, Quit(j)) BY <1>4, <2>1, <2>5, <2>7, UndoMoves DEF Exclusive, Outside
  <2>8. CASE Moved(w, r) /\ site' = s BY <2>1, <2>5, <2>6, <2>8, UndoMoves DEF Exclusive, Outside
  <2> QED BY <2>2, <2>7, <2>8
<1> QED
  BY <1>5, <1>6, <1>7, <1>8, <1>9, <1>10, <1>11, <1>12, <1>14, <1>15, <1>17, <1>18, <1>19, <1>20
  DEF Freezing

(* What is to be put back into files is listed.                             *)
LEMMA FilesAndPagesData ==
    ASSUME NEW point
    PROVE  LET todo == FilesAndPages(point) IN
           /\ todo \in Seq(Pages \cup {"file"})
           /\ point.file # 0 => "file" \in Range(todo)
           /\ \A p \in Pages : point.live[p] # 0 => p \in Range(todo)
<1> DEFINE S == {p \in Pages : point.live[p] # 0}
           f == IF point.file = 0 THEN <<>> ELSE <<"file">>
           g == SetToSeq(S)
           todo == f \o g
<1>1. IsFiniteSet(S) BY FreezeAssumption, FS_Subset
<1>2. g \in Seq(S) /\ Range(g) = S BY <1>1, Listing
<1>3. g \in Seq(Pages \cup {"file"}) BY <1>2, SeqMonotonic
<1>4. f \in Seq(Pages \cup {"file"})
  <2> DEFINE T == Pages \cup {"file"}
  <2>1. "file" \in T OBVIOUS
  <2> HIDE DEF T
  <2>2. <<>> \in Seq(T) /\ <<"file">> \in Seq(T) BY <2>1
  <2> QED BY <2>2 DEF T
<1>5. Len(f) = IF point.file = 0 THEN 0 ELSE 1 OBVIOUS
<1> HIDE DEF f, g
<1>6. /\ todo \in Seq(Pages \cup {"file"}) /\ Len(todo) = Len(f) + Len(g)
      /\ \A i \in 1..Len(todo) : todo[i] = IF i <= Len(f) THEN f[i] ELSE g[i - Len(f)]
  BY <1>3, <1>4, ConcatProperties
<1>7. DOMAIN todo = 1..Len(todo) /\ DOMAIN g = 1..Len(g) /\ Len(g) \in Nat
  BY <1>3, <1>6, LenProperties
<1>8. point.file # 0 => "file" \in Range(todo)
  <2> SUFFICES ASSUME point.file # 0 PROVE "file" \in Range(todo)
    OBVIOUS
  <2>1. Len(f) = 1 /\ f[1] = "file" BY <1>5 DEF f
  <2>2. 1 \in DOMAIN todo /\ todo[1] = "file" BY <1>6, <1>7, <2>1
  <2> QED BY <2>2 DEF Range
<1>9. ASSUME NEW p \in Pages, point.live[p] # 0 PROVE p \in Range(todo)
  <2>1. p \in Range(g) BY <1>2, <1>9
  <2>2. PICK i \in 1..Len(g) : g[i] = p BY <1>7, <2>1 DEF Range
  <2>3. i + Len(f) \in DOMAIN todo /\ todo[i + Len(f)] = p BY <1>5, <1>6, <1>7, <2>2
  <2> QED BY <2>3 DEF Range
<1> QED BY <1>6, <1>8, <1>9 DEF FilesAndPages, f, g

(* Discarding the edits, one thing after the other.                         *)
LEMMA DiscardingUndo ==
    ASSUME IInv, DataInv, GuestInv, Compared, UndoInv, NEW w \in Workers, Discarding(w)
    PROVE  UndoInv'
<1> DEFINE j == job[w]
           here(r) == Way(r, site, control, disk)
           there(r) == Way(r, site', control', disk')
           base == site.points[site.point]
<1>1. ~rival => here(j) /\ Resting(site, disk) BY DEF UndoInv
<1>2. ASSUME NEW r, Ground' = Ground, Moved(w, Quit(j)) \/ Moved(w, r), ~rival => here(r)
      PROVE  UndoInv'
  BY <1>2, UndoStays, UndoQuits DEF Moved
<1>3. UNCHANGED <<site, control, disk>> => Ground' = Ground BY DEF Ground
<1>4. ASSUME NEW r, r = Quit(j) PROVE there(r)
  BY <1>4, QuittingFields, Unmindful DEF Outside
<1>5. ASSUME j.kind = "restore", j.step \notin Outside, ~rival => Resting(site', disk'),
             NEW r, Moved(w, Quit(j)) \/ (Moved(w, r) /\ (~rival => there(r)))
      PROVE  UndoInv'
  BY <1>4, <1>5, UndoMoves DEF Exclusive
<1>6. ASSUME ~rival, j.kind = "restore", j.step \in Undoing
      PROVE  Undone(j, site, control, disk) /\ Base(w) = base
  <2>1. Undone(j, site, control, disk) BY <1>1, <1>6 DEF Way
  <2> QED BY <2>1 DEF Undone, Base
<1>7. CASE Precheck(w)
  <2> DEFINE r == To(w, "admit")
  <2>1. UNCHANGED <<site, control, disk>> /\ (Moved(w, Quit(j)) \/ Moved(w, r))
    BY <1>7 DEF Precheck, Load, Access, Same, stores, Become, Frame, Moved
  <2>2. r.step = "admit" BY GoingFields
  <2> HIDE DEF r
  <2>3. here(r) BY <2>2, Unmindful DEF Outside
  <2> QED BY <1>2, <1>3, <2>1, <2>3
<1>8. CASE Check(w)
  <2> DEFINE taken == site.points[site.from]
             q == [j EXCEPT !.taken = taken]
             r == IF site.stage = "restoring" THEN Restoring(q) ELSE To(w, "compare")
  <2>1. j.kind = "restore" /\ j.step = "check" BY <1>8, Doing DEF Check, At
  <2>2. /\ UNCHANGED <<site, control, disk>>
        /\ Moved(w, Quit(j)) \/ (Moved(w, r) /\ site.point = j.id)
    BY <1>8 DEF Check, Load, Access, Same, stores, Become, Frame, Moved
  <2>3. DOMAIN q = JobFields /\ q.kind = j.kind /\ q.id = j.id /\ q.taken = taken
    BY Known DEF JobFields
  <2> HIDE DEF q
  <2>4. site.stage # "restoring" => r.step = "compare" BY GoingFields
  <2>5. site.stage = "restoring" =>
          /\ r.kind = j.kind /\ r.id = j.id /\ r.taken = taken /\ r.step = "files"
          /\ r.todo = FilesAndPages(site.points[j.id])
    BY <2>3 DEF JobFields, Restoring
  <2> HIDE DEF r
  <2>6. site.stage # "restoring" => here(r) BY <2>4, Unmindful
  <2>7. ASSUME site.stage = "restoring", site.point = j.id PROVE here(r)
    <3>1. Undone(r, site, control, disk)
      BY <2>5, <2>7, FilesAndPagesData DEF Undone, Awaited, Shielding
    <3> QED BY <2>1, <2>5, <2>7, <3>1 DEF Way, Intent, Seeing
  <2>8. CASE Moved(w, Quit(j)) BY <1>3, <2>2, <2>8, UndoQuits
  <2>9. CASE Moved(w, r) /\ site.point = j.id BY <1>2, <1>3, <2>2, <2>6, <2>7, <2>9
  <2> QED BY <2>2, <2>8, <2>9
<1>9. CASE Compare(w)
  <2> DEFINE r == [To(w, "retain") EXCEPT !.taken = Captured, !.todo = FileContents(Captured)]
  <2>1. j.kind = "restore" /\ j.step = "compare" BY <1>9, Doing DEF Compare, At
  <2>2. /\ UNCHANGED <<site, control, disk>>
        /\ Moved(w, Quit(j)) \/ (Moved(w, r) /\ AsPreviewed(j))
    BY <1>9 DEF Compare, Load, Access, Same, stores, Become, Frame, Moved
  <2>3. r.kind = j.kind /\ r.step = "retain" /\ r.taken = Captured /\ r.seen = j.seen
    BY Known DEF JobFields, To
  <2> HIDE DEF r
  <2>4. AsPreviewed(j) => here(r)
    BY <2>1, <2>3 DEF AsPreviewed, Way, Intent, Seeing, Undoing
  <2>5. CASE Moved(w, Quit(j)) BY <1>3, <2>2, <2>5, UndoQuits
  <2>6. CASE Moved(w, r) /\ AsPreviewed(j) BY <1>2, <1>3, <2>2, <2>4, <2>6
  <2> QED BY <2>2, <2>5, <2>6
<1>10. CASE BeginRestoring(w)
  <2> DEFINE s == [Activated(j.id, "restoring") EXCEPT !.from = j.value]
             r == Restoring(j)
  <2>1. j.kind = "restore" /\ j.step = "restoring" BY <1>10, Doing DEF BeginRestoring, At
  <2>2. /\ UNCHANGED <<control, disk>> /\ site' \in {site, s}
        /\ Moved(w, Quit(j)) \/ (Moved(w, r) /\ site' = s)
    BY <1>10 DEF BeginRestoring, Store, Access, Same, SetSite, stores, Become, Frame, Moved
  <2>3. /\ s.stage = "restoring" /\ s.points = site.points /\ s.point = j.id /\ s.from = j.value
        /\ s.latest = site.latest /\ s.hidden = site.hidden
    BY Known DEF StoresOK, Activated, SiteFields
  <2>4. /\ r.kind = j.kind /\ r.id = j.id /\ r.taken = j.taken /\ r.step = "files"
        /\ r.todo = FilesAndPages(site.points[j.id])
    BY Known DEF JobFields, Restoring
  <2> HIDE DEF s, r
  <2>5. ASSUME ~rival PROVE site.points[j.value] = j.taken /\ j.taken = Captured
    <3>1. Intent(j) BY <2>1 DEF Intent, Seeing
    <3>2. j.seen = <<j.taken>> /\ site.points[j.value] = j.taken BY <1>1, <2>1, <2>5, <3>1 DEF Way
    <3>3. j.seen = <<Captured>> BY <3>1 DEF Compared
    <3>4. <<j.taken>>[1] = <<Captured>>[1] BY <3>2, <3>3
    <3> QED BY <3>2, <3>4
  <2>6. ASSUME ~rival, site' = s PROVE Resting(site', disk')
    <3>1. Captured.latest = site.latest
          /\ Captured.file = IF "file" \in site.hidden THEN 0 ELSE disk.file
      BY DEF Captured
    <3> QED BY <2>2, <2>3, <2>5, <2>6, <3>1 DEF Resting
  <2>7. ~rival => Resting(site', disk') BY <1>1, <2>2, <2>6 DEF Resting
  <2>8. ASSUME ~rival, site' = s PROVE there(r)
    <3>1. Undone(r, site', control', disk')
      BY <2>3, <2>4, <2>5, <2>8, FilesAndPagesData DEF Undone, Awaited, Shielding
    <3> QED BY <2>1, <2>4, <3>1 DEF Way, Intent, Seeing
  <2> QED BY <1>5, <2>1, <2>2, <2>7, <2>8 DEF Outside
<1>11. CASE RestoreFiles(w)
  <2> DEFINE t == Target(w)
             v == IF t = "file" THEN Base(w).file ELSE Base(w).live[t]
             d == IF t = "file" THEN [disk EXCEPT !.file = v] ELSE [disk EXCEPT !.static[t] = v]
             ra == To(w, "props")
             rb == [j EXCEPT !.todo = Tail(@)]
  <2>1. j.kind = "restore" /\ j.step = "files" BY <1>11, Doing DEF RestoreFiles, At
  <2>2. /\ UNCHANGED <<site, control>>
        /\ \/ disk' = disk /\ Moved(w, Quit(j))
           \/ disk' = disk /\ j.todo = <<>> /\ Moved(w, ra)
           \/ disk' = d /\ j.todo # <<>> /\ Moved(w, rb)
    BY <1>11 DEF RestoreFiles, Touch, SetDisk, Same, stores, Become, Frame, Moved
  <2>3. /\ ra.kind = j.kind /\ ra.step = "props" /\ ra.id = j.id /\ ra.taken = j.taken
        /\ rb.kind = j.kind /\ rb.step = "files" /\ rb.id = j.id /\ rb.taken = j.taken
        /\ rb.todo = Tail(j.todo)
    BY <2>1, GoingFields, Known DEF JobFields
  <2> HIDE DEF ra, rb
  <2>4. ~rival => Undone(j, site, control, disk) /\ Base(w) = base BY <1>6, <2>1 DEF Undoing
  <2>5. CASE disk' = disk /\ Moved(w, Quit(j)) BY <1>3, <2>2, <2>5, UndoQuits
  <2>6. CASE disk' = disk /\ j.todo = <<>> /\ Moved(w, ra)
    <3>1. Range(j.todo) = {} BY <2>6 DEF Range
    <3>2. ASSUME ~rival PROVE Undone(ra, site, control, disk)
      BY <2>1, <2>3, <2>4, <3>1, <3>2 DEF Undone, Awaited, Shielding
    <3>3. ~rival => here(ra) BY <2>1, <2>3, <3>2 DEF Way, Intent, Seeing
    <3> QED BY <1>2, <1>3, <2>2, <2>6, <3>3
  <2>7. CASE disk' = d /\ j.todo # <<>> /\ Moved(w, rb)
    <3>1. ~rival => /\ t \in Pages \cup {"file"} /\ Tail(j.todo) \in Seq(Pages \cup {"file"})
                    /\ Range(j.todo) \subseteq {t} \cup Range(Tail(j.todo))
      BY <2>1, <2>4, <2>7, Heading DEF Undone, Target
    <3>2. disk.static \in [Pages -> 0..version] /\ DOMAIN disk = DiskFields
      BY DataKnown DEF DiskData
    <3>3. ASSUME ~rival
          PROVE  /\ disk'.file = IF t = "file" THEN base.file ELSE disk.file
                 /\ \A p \in Pages : disk'.static[p] = IF p = t THEN base.live[p] ELSE disk.static[p]
      <4>1. CASE t = "file"
        BY <2>4, <2>7, <3>2, <3>3, <4>1, FreezeAssumption DEF DiskFields
      <4>2. CASE t # "file"
        BY <2>4, <2>7, <3>1, <3>2, <3>3, <4>2 DEF DiskFields
      <4> QED BY <4>1, <4>2
    <3> HIDE DEF t, d
    <3>4. ~rival => Resting(site', disk') BY <1>1, <2>2, <3>3 DEF Resting
    <3>5. ASSUME ~rival PROVE Undone(rb, site', control', disk')
      BY <2>1, <2>2, <2>3, <2>4, <3>1, <3>3, <3>5 DEF Undone, Awaited, Shielding
    <3>6. ~rival => there(rb) BY <2>1, <2>3, <3>5 DEF Way, Intent, Seeing
    <3> QED BY <1>5, <2>1, <2>7, <3>4, <3>6 DEF Outside
  <2> QED BY <2>2, <2>5, <2>6, <2>7
<1>12. CASE RestoreProperties(w)
  <2> DEFINE s == [site EXCEPT !.props = Base(w).props]
             r == To(w, "views")
  <2>1. j.kind = "restore" /\ j.step = "props" BY <1>12, Doing DEF RestoreProperties, At
  <2>2. /\ UNCHANGED <<control, disk>> /\ site' \in {site, s}
        /\ Moved(w, Quit(j)) \/ (Moved(w, r) /\ site' = s)
    BY <1>12 DEF RestoreProperties, Store, Access, Same, SetSite, stores, Become, Frame, Moved
  <2>3. /\ s.stage = site.stage /\ s.points = site.points /\ s.point = site.point
        /\ s.from = site.from /\ s.latest = site.latest /\ s.hidden = site.hidden
        /\ s.props = Base(w).props
    BY Known DEF StoresOK, SiteFields
  <2>4. r.kind = j.kind /\ r.step = "views" /\ r.id = j.id /\ r.taken = j.taken BY GoingFields
  <2> HIDE DEF s, r
  <2>5. ~rival => Undone(j, site, control, disk) /\ Base(w) = base BY <1>6, <2>1 DEF Undoing
  <2>6. ~rival => Resting(site', disk') BY <1>1, <2>2, <2>3 DEF Resting
  <2>7. ASSUME ~rival, site' = s PROVE there(r)
    <3>1. Undone(r, site', control', disk')
      BY <2>1, <2>2, <2>3, <2>4, <2>5, <2>7 DEF Undone, Awaited, Shielding
    <3> QED BY <2>1, <2>4, <3>1 DEF Way, Intent, Seeing
  <2> QED BY <1>5, <2>1, <2>2, <2>6, <2>7 DEF Outside
<1>13. CASE RestoreViews(w)
  <2> DEFINE hidden == ((site.hidden \cup NewPages(Base(w), j.taken)) \ Kept(Base(w)))
                           \cup NewFile(Base(w), j.taken)
             s == [site EXCEPT !.page = Base(w).page, !.live = Base(w).live, !.hidden = hidden]
             r == To(w, "restore_rules")
  <2>1. j.kind = "restore" /\ j.step = "views" BY <1>13, Doing DEF RestoreViews, At
  <2>2. /\ UNCHANGED <<control, disk>> /\ site' \in {site, s}
        /\ Moved(w, Quit(j)) \/ (Moved(w, r) /\ site' = s)
    BY <1>13 DEF RestoreViews, Store, Access, Same, SetSite, stores, Become, Frame, Moved
  <2>3. /\ s.stage = site.stage /\ s.points = site.points /\ s.point = site.point
        /\ s.from = site.from /\ s.latest = site.latest /\ s.props = site.props
        /\ s.page = Base(w).page /\ s.live = Base(w).live /\ s.hidden = hidden
    BY Known DEF StoresOK, SiteFields
  <2>4. r.kind = j.kind /\ r.step = "restore_rules" /\ r.id = j.id BY GoingFields
  <2> HIDE DEF s, r
  <2>5. ~rival => Undone(j, site, control, disk) /\ Base(w) = base BY <1>6, <2>1 DEF Undoing
  <2>6. ASSUME ~rival PROVE j.taken = site.points[site.from] /\ site.stage = "restoring"
    BY <2>1, <2>5, <2>6 DEF Undone
  <2>7. ASSUME ~rival
        PROVE  /\ \A p \in Pages : IF base.live[p] # 0 THEN p \notin hidden
                                   ELSE site.latest[p] # base.latest[p] => p \in hidden
               /\ IF base.file = 0 THEN disk.file = 0 \/ "file" \in hidden ELSE "file" \notin hidden
    <3>1. site.latest = j.taken.latest
          /\ (base.file = 0 => j.taken.file # 0 \/ disk.file = 0 \/ "file" \in site.hidden)
      BY <1>1, <2>6, <2>7 DEF Resting
    <3>2. ASSUME NEW p \in Pages
          PROVE  IF base.live[p] # 0 THEN p \notin hidden
                 ELSE site.latest[p] # base.latest[p] => p \in hidden
      <4>1. p # "file" BY FreezeAssumption
      <4>2. base.live[p] # 0 => p \in Kept(Base(w)) BY <2>5, <2>7 DEF Kept
      <4>3. base.live[p] = 0 => p \notin Kept(Base(w)) BY <2>5, <2>7, <4>1 DEF Kept
      <4>4. base.live[p] = 0 /\ site.latest[p] # base.latest[p] => p \in NewPages(Base(w), j.taken)
        BY <2>5, <2>7, <3>1 DEF NewPages
      <4>5. p \notin NewFile(Base(w), j.taken) BY <4>1 DEF NewFile
      <4> QED BY <4>2, <4>3, <4>4, <4>5
    <3>3. "file" \notin Pages BY FreezeAssumption
    <3>4. base.file = 0 => "file" \notin Kept(Base(w)) BY <2>5, <2>7, <3>3 DEF Kept
    <3>5. base.file = 0 /\ j.taken.file # 0 => "file" \in NewFile(Base(w), j.taken)
      BY <2>5, <2>7 DEF NewFile
    <3>6. base.file # 0 => "file" \in Kept(Base(w)) /\ "file" \notin NewFile(Base(w), j.taken)
      BY <2>5, <2>7 DEF Kept, NewFile
    <3> QED BY <3>1, <3>2, <3>4, <3>5, <3>6
  <2> HIDE DEF hidden
  <2>8. ~rival => Resting(site', disk')
    <3>1. CASE site' = site BY <1>1, <2>2, <3>1 DEF Resting
    <3>2. CASE site' = s
      <4>1. ~rival /\ base.file = 0 => disk.file = 0 \/ "file" \in hidden BY <2>7
      <4> QED BY <1>1, <2>2, <2>3, <3>2, <4>1 DEF Resting
    <3> QED BY <2>2, <3>1, <3>2
  <2>9. ASSUME ~rival, site' = s PROVE there(r)
    <3>1. ViewsBack(base, site', disk') BY <2>2, <2>3, <2>5, <2>7, <2>9 DEF ViewsBack
    <3>2. Undone(r, site', control', disk')
      BY <2>1, <2>2, <2>3, <2>4, <2>5, <2>9, <3>1 DEF Undone, Awaited, Shielding
    <3> QED BY <2>1, <2>4, <3>2 DEF Way, Intent, Seeing
  <2> QED BY <1>5, <2>1, <2>2, <2>8, <2>9 DEF Outside
<1>14. CASE RestoreRules(w)
  <2> DEFINE token == LiveToken(Base(w))
             c == [control EXCEPT !.rules = Base(w).rules, !.token = token]
             r == To(w, "restore_prefix")
  <2>1. j.kind = "restore" /\ j.step = "restore_rules" BY <1>14, Doing DEF RestoreRules, At
  <2>2. /\ UNCHANGED <<site, disk>>
        /\ Moved(w, Quit(j)) \/ (Moved(w, r) /\ control' = c)
    BY <1>14 DEF RestoreRules, Access, Same, SetControl, stores, Become, Frame, Moved
  <2> HIDE DEF token
  <2>3. c.rules = Base(w).rules BY Known DEF StoresOK, ControlFields
  <2>4. r.kind = j.kind /\ r.step = "restore_prefix" /\ r.id = j.id BY GoingFields
  <2> HIDE DEF c, r
  <2>5. ~rival => Undone(j, site, control, disk) /\ Base(w) = base BY <1>6, <2>1 DEF Undoing
  <2>6. ~rival => Resting(site', disk') BY <1>1, <2>2 DEF Resting
  <2>7. ASSUME ~rival, control' = c PROVE there(r)
    <3>1. Undone(r, site', control', disk')
      BY <2>1, <2>2, <2>3, <2>4, <2>5, <2>7 DEF Undone, Awaited, Shielding
    <3> QED BY <2>1, <2>4, <3>1 DEF Way, Intent, Seeing
  <2> QED BY <1>5, <2>1, <2>2, <2>6, <2>7 DEF Outside
<1>15. CASE RestorePrefix(w)
  <2> DEFINE r == [To(w, "protect") EXCEPT !.flag = 0]
             d == [disk EXCEPT !.prefix = Base(w).rules]
  <2>1. j.kind = "restore" /\ j.step = "restore_prefix" BY <1>15, Doing DEF RestorePrefix, At
  <2>2. /\ UNCHANGED <<site, control>> /\ disk' \in {disk, d}
        /\ Moved(w, Quit(j)) \/ (Moved(w, r) /\ disk' = d)
    BY <1>15 DEF RestorePrefix, Touch, SetDisk, Same, stores, Become, Frame, Moved
  <2>3. d.file = disk.file /\ d.static = disk.static /\ d.prefix = Base(w).rules
    BY DataKnown DEF DiskFields
  <2>4. r.kind = j.kind /\ r.step = "protect" /\ r.id = j.id BY GoingFields DEF JobFields
  <2> HIDE DEF d, r
  <2>5. ~rival => Undone(j, site, control, disk) /\ Base(w) = base BY <1>6, <2>1 DEF Undoing
  <2>6. ~rival => Resting(site', disk') BY <1>1, <2>2, <2>3 DEF Resting
  <2>7. ASSUME ~rival, disk' = d PROVE there(r)
    <3>1. Undone(r, site', control', disk')
      BY <2>1, <2>2, <2>3, <2>4, <2>5, <2>7 DEF Undone, Awaited, ViewsBack, Shielding
    <3> QED BY <2>1, <2>4, <3>1 DEF Way, Intent, Seeing
  <2> QED BY <1>5, <2>1, <2>2, <2>6, <2>7 DEF Outside
<1> QED
  BY <1>7, <1>8, <1>9, <1>10, <1>11, <1>12, <1>13, <1>14, <1>15 DEF Discarding

(* Leases say nothing about the stores.                                     *)
LEMMA LeasesUndo ==
    ASSUME IInv, DataInv, UndoInv, NEW w \in Workers,
           Queue(w) \/ Granted(w) \/ Abandon(w) \/ Join(w) \/ Return(w) \/ Leave(w)
    PROVE  UndoInv'
<1> DEFINE j == job[w]
           here(r) == Way(r, site, control, disk)
<1>1. UNCHANGED <<site, control, disk>> => Ground' = Ground BY DEF Ground
<1>2. ASSUME NEW r, r.step \in Outside \/ r.kind \in Edits, Ground' = Ground,
             job' = [job EXCEPT ![w] = r], Watched
      PROVE  UndoInv'
  BY <1>2, UndoStays, Unmindful
<1>3. Ended(w).step \in {"idle", "refresh"} BY DEF Ended, Idle
<1>4. Quit(j).step \in {"leave", "return"} BY QuittingFields
<1>5. CASE Queue(w)
  <2> DEFINE c(v) == [job[v] EXCEPT !.canceled = TRUE]
             r == IF Busy THEN Quit(j) ELSE To(w, "turn")
  <2>1. /\ UNCHANGED <<site, control, disk>> /\ Watched
        /\ \A v \in Workers : job'[v] = IF v = w THEN r
                                        ELSE IF j.kind = "restore" /\ job[v].kind = "import"
                                        THEN c(v) ELSE job[v]
    BY <1>5 DEF Queue, stores, Frame
  <2>2. r.step \in {"leave", "return", "turn"} BY <1>4, GoingFields
  <2> HIDE DEF r
  <2>3. here(r) BY <2>2, Unmindful DEF Outside
  <2>4. \A v \in Workers : c(v).kind = job[v].kind BY Known DEF JobFields
  <2>5. \A v \in Workers : job[v].kind = "import" => here(c(v)) BY <2>4, Unmindful DEF Edits
  <2>6. \A v \in Workers : here(job[v]) => here(job'[v]) BY <2>1, <2>3, <2>5
  <2>7. ~rival' => ~rival BY <2>1, Remembered
  <2> QED BY <1>1, <2>1, <2>6, <2>7, GroundStays DEF UndoInv
<1>6. CASE Granted(w)
  <2> DEFINE r == To(w, CASE j.kind = "freeze"  -> "journal"
                          [] j.kind = "publish" -> "editable"
                          [] j.kind = "restore" -> "check")
  <2>1. /\ job' = [job EXCEPT ![w] = r] /\ UNCHANGED <<site, control, disk>> /\ Watched
        /\ j.step = "turn"
    BY <1>6 DEF Granted, Become, At, stores
  <2>2. j.kind \in Exclusive BY <2>1 DEF IInv, Placed
  <2>3. r.step \in {"journal", "editable", "check"} BY <2>2, GoingFields DEF Exclusive
  <2> HIDE DEF r
  <2>4. here(r) BY <2>3, Unmindful
  <2> QED BY <1>1, <2>1, <2>4, UndoStays
<1>7. CASE Abandon(w)
  <2>1. Moved(w, Quit(j)) /\ UNCHANGED <<site, control, disk>>
    BY <1>7 DEF Abandon, Become, stores, Frame, Moved
  <2> QED BY <1>1, <2>1, UndoQuits
<1>8. CASE Join(w)
  <2> DEFINE r == [To(w, "editable") EXCEPT !.begun = j.kind = "import"]
             q == Quit(j)
  <2>1. /\ j.kind \in Edits /\ UNCHANGED <<site, control, disk>> /\ Watched
        /\ job' = [job EXCEPT ![w] = q] \/ job' = [job EXCEPT ![w] = r]
    BY <1>8 DEF Join, Become, stores
  <2>2. r.kind = j.kind BY GoingFields DEF JobFields
  <2>3. q.step \in Outside BY <1>4 DEF Outside
  <2> HIDE DEF r, q
  <2> QED BY <1>1, <1>2, <2>1, <2>2, <2>3
<1>9. CASE Return(w)
  <2> DEFINE r == IF j.kind \in Edits THEN Ended(w) ELSE To(w, "leave")
  <2>1. job' = [job EXCEPT ![w] = r] /\ UNCHANGED <<site, control, disk>> /\ Watched
    BY <1>9 DEF Return, Become, stores
  <2>2. r.step \in Outside BY <1>3, GoingFields DEF Outside
  <2> HIDE DEF r
  <2> QED BY <1>1, <1>2, <2>1, <2>2
<1>10. CASE Leave(w)
  <2> DEFINE q == [To(w, "return") EXCEPT !.begun = FALSE, !.guard = FALSE]
             r == IF j.kind \in Edits THEN q ELSE Ended(w)
  <2>1. /\ job' = [job EXCEPT ![w] = r] /\ UNCHANGED <<site, control>> /\ Watched
        /\ disk' = disk \/ WritePolicy
    BY <1>10 DEF Leave, PublishPolicy, WritePolicy, SetDisk, Same, stores, Become, Frame
  <2>2. q.step = "return" BY GoingFields DEF JobFields
  <2> HIDE DEF q
  <2>3. r.step \in Outside BY <1>3, <2>2 DEF Outside
  <2> HIDE DEF r
  <2>4. Ground' = Ground BY <2>1, DataKnown DEF WritePolicy, SetDisk, DiskFields, Ground
  <2> QED BY <1>2, <2>1, <2>3, <2>4
<1> QED BY <1>5, <1>6, <1>7, <1>8, <1>9, <1>10

(* Every step leaves a restoration on its way, unless startup had a rival.  *)
LEMMA UndoKeeps == IInv /\ DataInv /\ GuestInv /\ Compared /\ UndoInv /\ [Next]_vars => UndoInv'
<1> SUFFICES ASSUME IInv, DataInv, GuestInv, Compared, UndoInv, [Next]_vars PROVE UndoInv'
  OBVIOUS
<1>1. CASE UNCHANGED vars
  <2>1. UNCHANGED <<site, control, disk, job, rival>> BY <1>1 DEF vars, stores
  <2> QED BY <2>1 DEF UndoInv
<1>2. ASSUME NEW w \in Workers, JobStep(w) PROVE UndoInv'
  BY <1>2, LeasesUndo, EditingUndo, FreezingUndo, DiscardingUndo DEF JobStep, Serving, Editing
<1>3. ASSUME NEW w \in Calls, NEW kind, NEW p, Start(w, kind, p) PROVE UndoInv'
  <2> DEFINE r == Call(kind, p)
  <2>1. w \in Workers /\ job' = [job EXCEPT ![w] = r] /\ Watched
        /\ UNCHANGED <<site, control, disk>>
    BY <1>3 DEF Start, Become, stores, Workers
  <2>2. r.step \in Outside BY DEF Call, Idle, Outside
  <2> HIDE DEF r
  <2>3. Way(r, site, control, disk) BY <2>2, Unmindful
  <2>4. Ground' = Ground BY <2>1 DEF Ground
  <2> QED BY <2>1, <2>3, <2>4, UndoStays
<1>4. CASE Startup
  <2>1. /\ Recovery \in Workers /\ UNCHANGED <<site, control>> /\ Watched
        /\ disk' = disk \/ WritePolicy
    BY <1>4
    DEF Startup, Scan, Refresh, Access, Same, PublishPolicy, WritePolicy, SetDisk, Frame,
        stores, Workers
  <2>2. PICK r \in {Resumed, [Idle EXCEPT !.step = "refresh"], Idle} :
            job' = [job EXCEPT ![Recovery] = r]
    BY <1>4 DEF Startup, Scan, Refresh, Access, Become
  <2>3. Resumed.step \in {"precheck", "publishing", "admit", "refresh"} BY DEF Resumed, Idle
  <2>4. Idle.step = "idle" /\ [Idle EXCEPT !.step = "refresh"].step = "refresh" BY DEF Idle
  <2>5. r.step \in Outside \cup {"publishing"} BY <2>2, <2>3, <2>4 DEF Outside
  <2>6. Way(r, site, control, disk) BY <2>5, Unmindful
  <2>7. Ground' = Ground BY <2>1, DataKnown DEF WritePolicy, SetDisk, DiskFields, Ground
  <2> QED BY <2>1, <2>2, <2>6, <2>7, UndoStays
<1>5. CASE Consume
  <2>1. /\ control' = [control EXCEPT !.token.left = @ - 1] /\ UNCHANGED <<site, disk, job>>
        /\ Watched
    BY <1>5 DEF Consume, SetControl, Frame
  <2>2. control'.rules = control.rules
    <3>1. DOMAIN control = ControlFields BY DEF IInv, Shape
    <3> QED BY <2>1, <3>1 DEF ControlFields
  <2>3. ~rival' => ~rival BY <2>1, Remembered
  <2>4. Ground' = Ground BY <2>1, <2>2 DEF Ground
  <2> QED BY <2>1, <2>3, <2>4, GroundStays DEF UndoInv
<1>6. CASE Crash
  <2>1. /\ UNCHANGED <<site, control, disk>> /\ Watched
        /\ job' = [w \in Workers |-> IF w = Recovery THEN [Idle EXCEPT !.step = "scan"] ELSE Idle]
    BY <1>6 DEF Crash, stores
  <2>2. \A w \in Workers : job'[w].step \in Outside BY <2>1 DEF Idle, Outside
  <2>3. \A w \in Workers : Way(job'[w], site', control', disk') BY <2>2, Unmindful
  <2>4. ~rival' => Resting(site', disk') BY <2>1, Remembered DEF UndoInv
  <2> QED BY <2>3, <2>4 DEF UndoInv
<1> QED BY <1>1, <1>2, <1>3, <1>4, <1>5, <1>6 DEF Next

(* The journal of a restoration ends where the call that did it finishes.   *)
LEMMA OnlyFinishEnds ==
    ASSUME IInv, [Next]_vars, site.stage = "restoring", site'.stage = "none"
    PROVE  \E w \in Workers : Finish(w)
<1>1. StoresOK BY DEF IInv, Shape, StoresOK
<1>2. Next BY DEF vars, stores
<1>3. ~Crash /\ ~Consume /\ ~Startup
  BY DEF Crash, Consume, Startup, Scan, Refresh, Access, PublishPolicy, WritePolicy, SetControl,
         SetDisk, Same, stores
<1>4. ~\E v \in Calls, kind \in DOMAIN left, p \in Pages : Start(v, kind, p)
  BY DEF Start, stores
<1>5. PICK w \in Workers : JobStep(w) BY <1>2, <1>3, <1>4 DEF Next
<1>6. ~Queue(w) /\ ~Granted(w) /\ ~Abandon(w) /\ ~Join(w) /\ ~Return(w) /\ ~Leave(w)
  BY DEF Queue, Granted, Abandon, Join, Return, Leave, PublishPolicy, WritePolicy, SetDisk,
         Same, stores
<1>7. ~Editing(w) /\ ~Editable(w) BY EditingSettles DEF Settled
<1>8. ~LoadJournal(w) /\ ~Capture(w) /\ ~Retain(w) /\ ~Shield(w) /\ ~Protect(w)
      /\ ~SetFlag(w) /\ ~Open(w) /\ ~Candidates(w) /\ ~Publishing(w)
  BY DEF LoadJournal, Capture, Retain, Shield, Protect, SetFlag, Open, Candidates, Publishing,
         Load, Access, Touch, WritePolicy, SetControl, SetDisk, Same, stores
<1>9. ~Save(w) /\ ~Activate(w) /\ ~MarkPublishing(w)
  BY <1>1 DEF Save, Saved, Activate, MarkPublishing, Activated, Store, Access, SetSite, Same,
              stores, StoresOK, SiteFields
<1>10. ~CommitPublication(w)
  BY <1>1 DEF CommitPublication, Commit, SetSite, SetDisk, StoresOK, SiteFields
<1>11. ~Precheck(w) /\ ~Check(w) /\ ~Compare(w) /\ ~RestoreFiles(w) /\ ~RestorePrefix(w)
       /\ ~RestoreRules(w)
  BY DEF Precheck, Check, Compare, RestoreFiles, RestorePrefix, RestoreRules, Load, Access,
         Touch, SetControl, SetDisk, Same, stores
<1>12. ~RestoreProperties(w) /\ ~RestoreViews(w)
  BY <1>1 DEF RestoreProperties, RestoreViews, Store, Access, SetSite, Same, stores, StoresOK,
              SiteFields
<1>13. ~BeginRestoring(w)
  BY <1>1 DEF BeginRestoring, Activated, Store, Access, SetSite, Same, stores, StoresOK,
              SiteFields
<1> QED
  BY <1>5, <1>6, <1>7, <1>8, <1>9, <1>10, <1>11, <1>12, <1>13
  DEF JobStep, Serving, Editing, Freezing, Discarding

(* The flag changes where a call sets it.                                   *)
LEMMA OnlySetFlagUnpins ==
    ASSUME IInv, [Next]_vars, control'.flag # control.flag
    PROVE  \E w \in Workers : SetFlag(w)
<1>1. StoresOK BY DEF IInv, Shape, StoresOK
<1>2. Next BY DEF vars, stores
<1>3. ~Crash /\ ~Startup
  BY DEF Crash, Startup, Scan, Refresh, Access, PublishPolicy, WritePolicy, SetDisk, Same, stores
<1>4. ~Consume BY <1>1 DEF Consume, SetControl, StoresOK, ControlFields
<1>5. ~\E v \in Calls, kind \in DOMAIN left, p \in Pages : Start(v, kind, p)
  BY DEF Start, stores
<1>6. PICK w \in Workers : JobStep(w) BY <1>2, <1>3, <1>4, <1>5 DEF Next
<1>7. ~Queue(w) /\ ~Granted(w) /\ ~Abandon(w) /\ ~Join(w) /\ ~Return(w) /\ ~Leave(w)
  BY DEF Queue, Granted, Abandon, Join, Return, Leave, PublishPolicy, WritePolicy, SetDisk,
         Same, stores
<1>8. ~Editing(w) /\ ~Editable(w) BY EditingSettles DEF Settled
<1>9. ~LoadJournal(w) /\ ~Capture(w) /\ ~Retain(w) /\ ~Save(w) /\ ~Protect(w)
      /\ ~Open(w) /\ ~Activate(w) /\ ~Finish(w) /\ ~Candidates(w) /\ ~Publishing(w)
      /\ ~MarkPublishing(w) /\ ~CommitPublication(w)
  BY DEF LoadJournal, Capture, Retain, Save, Protect, Open, Activate, Finish, Candidates,
         Publishing, MarkPublishing, CommitPublication, Commit, Store, Load, Access, Touch,
         WritePolicy, SetSite, SetDisk, Same, stores
<1>10. ~Shield(w)
  BY <1>1 DEF Shield, Access, SetControl, Same, stores, StoresOK, ControlFields
<1>11. ~Precheck(w) /\ ~Check(w) /\ ~Compare(w) /\ ~BeginRestoring(w) /\ ~RestoreFiles(w)
       /\ ~RestoreProperties(w) /\ ~RestoreViews(w) /\ ~RestorePrefix(w)
  BY DEF Precheck, Check, Compare, BeginRestoring, RestoreFiles, RestoreProperties, RestoreViews,
         RestorePrefix, Store, Load, Access, Touch, SetSite, SetDisk, Same, stores
<1>12. ~RestoreRules(w)
  BY <1>1 DEF RestoreRules, Access, SetControl, Same, stores, StoresOK, ControlFields
<1> QED
  BY <1>6, <1>7, <1>8, <1>9, <1>10, <1>11, <1>12
  DEF JobStep, Serving, Editing, Freezing, Discarding

(* A restoration that ends has put everything back as the checkpoint has it,*)
(* in all three stores, however often it was interrupted, and guests are    *)
(* unpinned only when every file of their publication is back               *)
(* (restoreFreezeCheckpoint, README.md "Reversible site freezing").         *)
THEOREM RestoredIsCheckpointAlways == Spec => RestoredIsCheckpoint
<1> DEFINE Restored == \/ rival'
                       \/ /\ (site.stage = "restoring" /\ site'.stage = "none") => PutBack
                          /\ (Pinned /\ control'.flag = 0) => FilesBack
<1>1. ASSUME IInv, UndoInv, [Next]_vars PROVE Restored
  <2> SUFFICES ASSUME ~rival' PROVE Restored
    OBVIOUS
  <2>1. ASSUME NEW w \in Workers, Finish(w) \/ SetFlag(w) PROVE ~rival
    <3>1. Watched BY <1>1, <2>1, StepsWatch DEF JobStep, Freezing
    <3> QED BY <1>1, <3>1, Remembered
  <2>2. ASSUME site.stage = "restoring", site'.stage = "none" PROVE PutBack
    <3>1. PICK w \in Workers : Finish(w) BY <1>1, <2>2, OnlyFinishEnds
    <3>2. job[w].step = "finish" /\ job[w].kind \in {"publish", "restore"} /\ ~rival
      BY <1>1, <2>1, <3>1, Doing DEF Finish, At
    <3>3. Way(job[w], site, control, disk) BY <1>1, <3>2 DEF UndoInv
    <3>4. job[w].kind = "restore" BY <2>2, <3>2, <3>3 DEF Way, Shielding
    <3>5. Undone(job[w], site, control, disk) BY <3>2, <3>3, <3>4 DEF Way, Undoing
    <3>6. control.flag = 0 BY <1>1, <3>2, <3>4 DEF IInv, InStage
    <3> QED BY <3>2, <3>5, <3>6 DEF PutBack, Undone, Awaited, ViewsBack, Shielding, Point
  <2>3. ASSUME Pinned, control'.flag = 0 PROVE FilesBack
    <3>1. control'.flag # control.flag BY <2>3 DEF Pinned
    <3>2. PICK w \in Workers : SetFlag(w) BY <1>1, <3>1, OnlySetFlagUnpins
    <3>3. job[w].step = "flag" /\ job[w].kind \in Exclusive /\ ~rival
      BY <1>1, <2>1, <3>2, Doing DEF SetFlag, At
    <3>4. Way(job[w], site, control, disk) BY <1>1, <3>3 DEF UndoInv
    <3>5. job[w].flag # 1
      <4>1. StoresOK BY <1>1 DEF IInv, Shape, StoresOK
      <4> QED BY <2>3, <3>1, <3>2, <4>1
              DEF SetFlag, Access, SetControl, Same, stores, StoresOK, ControlFields
    <3>6. job[w].kind = "restore"
      BY <2>3, <3>3, <3>4, <3>5 DEF Way, Shielding, Pinned, Exclusive
    <3>7. Undone(job[w], site, control, disk) BY <3>3, <3>4, <3>6 DEF Way, Undoing
    <3> QED BY <3>3, <3>7 DEF FilesBack, Undone, Awaited, Point
  <2> QED BY <2>2, <2>3
<1>2. Init => UndoInv
  <2> SUFFICES ASSUME Init PROVE UndoInv
    OBVIOUS
  <2>1. \A w \in Workers : job[w] = Idle BY DEF Init
  <2>2. Idle.step = "idle" BY DEF Idle
  <2>3. \A w \in Workers : Way(job[w], site, control, disk)
    BY <2>1, <2>2, Unmindful DEF Outside
  <2>4. site.stage \in {"frozen", "none"} BY DEF Init
  <2> QED BY <2>3, <2>4 DEF UndoInv, Resting
<1>3. Spec => []GuestInv
  BY InitGuests, GuestsKeep, InductiveInvariant, DataInvariant, PTL DEF Spec
<1>4. Spec => []UndoInv
  BY <1>2, <1>3, ComparedAlways, UndoKeeps, InductiveInvariant, DataInvariant, PTL DEF Spec
<1>5. IInv /\ UndoInv /\ [Next]_vars => [Restored]_vars BY <1>1
<1> HIDE DEF Restored
<1>6. Spec => [][Restored]_vars BY <1>4, <1>5, InductiveInvariant, PTL DEF Spec
<1> QED BY <1>6 DEF RestoredIsCheckpoint, Restored
=============================================================================
