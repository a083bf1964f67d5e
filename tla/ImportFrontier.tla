---------------------------- MODULE ImportFrontier ----------------------------
(***************************************************************************)
(* Copying a whole site from another server into one page path: the queue  *)
(* of pkg/crawler/frontier.go and the handlers of sitebrush.go that work   *)
(* it off (importWholeRemoteSite, prepareWholeRemoteSiteImport).           *)
(*                                                                         *)
(* A call of importWholeRemoteSite finds, claims, or discards and creates  *)
(* a run, claims a batch of its pages, follows their links, stores what it *)
(* collected and finishes the run or leaves it partial for a later call.   *)
(* Every access to the site database is a step of its own: calls, and the  *)
(* recovery at startup, interleave between them; an access may fail, a     *)
(* caller may cancel before or after its statement took effect, and the    *)
(* process may die.                                                        *)
(*                                                                         *)
(* Queue bytes are counted in pages; page content is abstracted to whether *)
(* it was stored.                                                          *)
(***************************************************************************)
EXTENDS Naturals, Sequences, FiniteSets, FiniteSetsExt, SequencesExt

CONSTANTS
    Jobs,           \* goroutines that serve calls of importWholeRemoteSite
    Startup,        \* the migration that recovers the site at startup
    Pages,          \* page keys of the remote site
    Sources,        \* source addresses that are copied to the page path
    Batch,          \* wholeSiteImportMaxPages
    FailureLimit,   \* wholeSiteImportConsecutiveFailureLimit
    MaxCalls,
    Setups          \* what is imported, see Setup

(* A setup: the links of each page, the first page of each source, which    *)
(* sources are asked for, who asks (grab: grabPage, whose downloads alone   *)
(* can be cancelled; ai: runAIImport, which repeats; resume: resumeWhole-   *)
(* SiteImport), the queue budget, and how many calls and how many failures  *)
(* are considered.                                                          *)
Setup ==
    [links : [Pages -> Seq(Pages)], root : [Sources -> Pages], sources : SUBSET Sources,
     kinds : SUBSET {"grab", "ai", "resume"}, budget : Nat,
     calls : 0..MaxCalls, faults : Nat]

ASSUME FrontierAssumption ==
    /\ IsFiniteSet(Pages) /\ Startup \notin Jobs
    /\ Batch \in Nat \ {0} /\ FailureLimit \in Nat \ {0} /\ MaxCalls \in Nat
    /\ \A s \in Setups : /\ s.links \in [Pages -> Seq(Pages)]
                         /\ s.root \in [Sources -> Pages]
                         /\ s.sources \subseteq Sources
                         /\ s.kinds \subseteq {"grab", "ai", "resume"}
                         /\ s.calls \in 0..MaxCalls
                         /\ s.budget \in Nat /\ s.faults \in Nat

VARIABLES
    setup,      \* what is imported, which never changes
    phase,      \* the site: down, recovering, up
    run,        \* whole_site_imports: state and source of each import
    rows,       \* whole_site_import_pages of each import, in order of creation
    reserved,   \* import_queue_bytes of domain_storage_usage
    job,        \* what each worker is doing
    calls, faults,
    fate,       \* what became of each page of each import: none, stored in the
                \* site, failed (reported), cut (stored, but a later visit failed),
                \* or skipped (see Visit)
    disturbed   \* ghost: somebody accounted for the queue between the reading
                \* and the writing of another worker, or could not read it

tables == <<run, rows, reserved, fate>>
vars   == <<setup, phase, tables, job, calls, faults, disturbed>>

Links  == setup.links
Root   == setup.root
Budget == setup.budget

Workers == Jobs \cup {Startup}
Imports == 1..MaxCalls

NoSource == "none"
Gone     == [state |-> "gone", source |-> NoSource]

NoProgress == [done |-> 0, cursor |-> 0, left |-> 0]

Idle == [step |-> "idle", kind |-> "none", source |-> NoSource, import |-> 0,
         targets |-> {}, then |-> "end", cleanup |-> FALSE, sum |-> 0,
         queue |-> <<>>, at |-> 1, cursor |-> 0, found |-> 0, misses |-> 0,
         buffer |-> {}, completed |-> <<>>, error |-> FALSE, again |-> FALSE,
         before |-> NoProgress, now |-> NoProgress, first |-> TRUE, cancelled |-> FALSE]

Init ==
    /\ setup \in Setups
    /\ phase = "up"
    /\ run = [i \in Imports |-> [state |-> "unused", source |-> NoSource]]
    /\ rows = [i \in Imports |-> <<>>]
    /\ reserved = 0
    /\ job = [w \in Workers |-> Idle]
    /\ calls = 0 /\ faults = 0
    /\ fate = [i \in Imports |-> [p \in Pages |-> "none"]]
    /\ disturbed = FALSE

-----------------------------------------------------------------------------
(* The tables *)

Entry(p) == [page |-> p, state |-> "pending", cursor |-> 0]

Queued(i)         == {rows[i][k].page : k \in DOMAIN rows[i]}
CursorOf(i, p)    == rows[i][CHOOSE k \in DOMAIN rows[i] : rows[i][k].page = p].cursor
Holding(i, state) == {k \in DOMAIN rows[i] : rows[i][k].state = state}
Unfinished(i)     == Cardinality(DOMAIN rows[i] \ Holding(i, "done"))
QueueRows         == UNION {{i} \X DOMAIN rows[i] : i \in Imports}
Total             == Cardinality(QueueRows)
Landing           == \E i \in Imports, p \in Pages : fate[i][p] \in {"stored", "cut"}
Broken(i)         == {p \in Pages : fate[i][p] \in {"failed", "cut"}}

(* ImportFrontierStatsForRun.                                               *)
Progress(i) == [done |-> Len(rows[i]) - Unfinished(i), left |-> Unfinished(i),
                cursor |-> SumFunction([k \in DOMAIN rows[i] |-> rows[i][k].cursor])]

(* UPDATE of one row, and of every row in a state.                          *)
SetRow(i, p, state, cursor) ==
    /\ rows' = [rows EXCEPT ![i] = [k \in DOMAIN @ |->
                IF @[k].page = p THEN [@[k] EXCEPT !.state = state, !.cursor = cursor]
                ELSE @[k]]]
    /\ UNCHANGED <<run, reserved, fate>>
ToPending(e) == IF e.state = "processing" THEN [e EXCEPT !.state = "pending"] ELSE e
Released(table) == [k \in DOMAIN table |-> ToPending(table[k])]

SetRows(table)   == rows' = table /\ UNCHANGED <<run, reserved, fate>>
SetRun(i, state) == run' = [run EXCEPT ![i].state = state] /\ UNCHANGED <<rows, reserved, fate>>
SetReserved(n)   == reserved' = n /\ UNCHANGED <<run, rows, fate>>

-----------------------------------------------------------------------------
(* One access of worker w: it succeeds, it fails without effect, or the     *)
(* caller cancels while the statement takes effect.  Downloads and the queue*)
(* work beside them use the download context, everything else the context   *)
(* of the call, which grabPage never cancels; cleanup uses neither.         *)

At(w, step) == phase # "down" /\ job[w].step = step
Page(w)     == job[w].queue[job[w].at]

Cancellable(w, context) ==
    /\ w \in Jobs
    /\ \/ context = "download"
       \/ context = "call" /\ job[w].kind # "grab"
Dead(w, context) == Cancellable(w, context) /\ job[w].cancelled
Fault == faults < setup.faults /\ faults' = faults + 1

Become(w, next) == job' = [job EXCEPT ![w] = next]
Access(w, context, effect, then, otherwise) ==
    \/ /\ ~Dead(w, context)
       /\ effect /\ Become(w, then) /\ UNCHANGED faults
    \/ /\ IF Dead(w, context) THEN UNCHANGED faults ELSE Fault
       /\ Become(w, otherwise) /\ UNCHANGED tables
    \/ /\ Cancellable(w, context) /\ ~job[w].cancelled /\ Fault
       /\ effect /\ Become(w, IF otherwise = Idle THEN Idle
                      ELSE [otherwise EXCEPT !.cancelled = TRUE])

Read == UNCHANGED tables

(* Between its reading and its writing a worker relies on the queue.        *)
Accounting(w) == job[w].step \in {"delete_pages", "delete_run", "give_back", "write_up", "insert", "refund"}
Disturbs ==
    \/ \E w \in Workers : /\ Accounting(w) /\ job'[w] = job[w]
                          /\ reserved' # reserved \/ Total' # Total
    \/ \E w \in Jobs : /\ job[w].step = "add_up" /\ job'[w].step = "write_up"
                       /\ job'[w].sum # Total

Frame ==
    /\ disturbed' = (disturbed \/ Disturbs)
    /\ UNCHANGED <<setup, phase, calls>>

To(w, step) == [job[w] EXCEPT !.step = step]

(* What the handler does with an error: a step that sets the run partial,   *)
(* or the return.                                                           *)
ToPartial(r, cleanup) == [r EXCEPT !.step = "partial", !.cleanup = cleanup, !.then = "end"]

-----------------------------------------------------------------------------
(* Which run to work on *)

Start(j, kind) ==
    /\ phase = "up" /\ job[j] = Idle
    /\ calls < setup.calls /\ calls' = calls + 1
    /\ \/ /\ kind # "resume"
          /\ \E s \in setup.sources :
                Become(j, [Idle EXCEPT !.step = "find", !.kind = kind, !.source = s])
       \/ /\ kind = "resume"
          /\ \E i \in Imports :
                /\ run[i].state \in {"partial", "running"}
                /\ Become(j, [Idle EXCEPT !.step = "lookup", !.kind = kind,
                                          !.source = run[i].source, !.import = i])
    /\ UNCHANGED <<setup, phase, tables, faults, disturbed>>

(* FindActiveImportFrontier.                                                *)
Find(w) ==
    /\ At(w, "find")
    /\ LET active == {i \in Imports : run[i] = [state |-> "partial",
                                                source |-> job[w].source]}
       IN \/ /\ active = {}
             /\ Access(w, "call", Read, To(w, "list"), Idle)
          \/ \E i \in active :
                Access(w, "call", Read, [To(w, "claim") EXCEPT !.import = i], Idle)
    /\ Frame

(* FindImportFrontier, for a call that names its import.                    *)
Lookup(w) ==
    /\ At(w, "lookup")
    /\ Access(w, "call", Read,
              IF run[job[w].import].state = "gone" THEN Idle ELSE To(w, "claim"), Idle)
    /\ Frame

ClaimAnyway(i) == run[i].state \in {"partial", "running"}
Claimable(i)   == run[i].state = "partial"
ClaimRun(w) ==
    /\ At(w, "claim")
    /\ LET i == job[w].import
       IN IF Claimable(i)
          THEN Access(w, "call", SetRun(i, "running"), To(w, "select"), Idle)
          ELSE Access(w, "call", Read, Idle, Idle)
    /\ Frame

(* DiscardPartialImportFrontiers; at startup CleanupDiscardedImportFrontiers.*)
Listed(w) == IF w = Startup THEN {"discarding"} ELSE {"partial", "discarding"}
ListDiscarded(w) ==
    /\ At(w, "list")
    /\ LET ids == {i \in Imports : run[i].state \in Listed(w)}
       IN Access(w, "call", Read,
                 [To(w, "discard") EXCEPT !.targets = {<<i, run[i].state>> : i \in ids}],
                 Idle)
    /\ Frame

Discard(w) ==
    /\ At(w, "discard") /\ job[w].targets # {}
    /\ \E target \in job[w].targets :
          LET i     == target[1]
              rest  == [job[w] EXCEPT !.targets = @ \ {target}]
              clean == [rest EXCEPT !.step = "measure", !.import = i, !.then = "discard"]
          IN \/ /\ target[2] = "discarding"
                /\ Become(w, clean) /\ UNCHANGED <<tables, faults>>
             \/ /\ target[2] = "partial" /\ run[i].state = "partial"
                /\ Access(w, "call", SetRun(i, "discarding"), clean, Idle)
             \/ /\ target[2] = "partial" /\ run[i].state # "partial"
                /\ Access(w, "call", Read, rest, Idle)
    /\ Frame

(* CreateImportFrontier, under an identity nobody else has; MaxCalls are    *)
(* enough for every call.                                                   *)
Create(w) ==
    /\ At(w, "discard") /\ job[w].targets = {} /\ w \in Jobs
    /\ LET fresh == {k \in Imports : run[k].state = "unused"}
       IN \E i \in fresh :
             /\ \A k \in fresh : i <= k
             /\ Access(w, "call",
                   /\ run' = [run EXCEPT ![i] = [state |-> "running", source |-> job[w].source]]
                   /\ UNCHANGED <<rows, reserved, fate>>,
                   [To(w, "exists") EXCEPT !.import = i], Idle)
    /\ Frame

-----------------------------------------------------------------------------
(* FinishImportFrontier: four accesses, whose error nobody repairs *)

Measure(w) ==
    /\ At(w, "measure")
    /\ Access(w, "call", Read,
              [To(w, "delete_pages") EXCEPT !.sum = Len(rows[job[w].import])], Idle)
    /\ Frame

DeletePages(w) ==
    /\ At(w, "delete_pages")
    /\ Access(w, "call", SetRows([rows EXCEPT ![job[w].import] = <<>>]),
              To(w, "delete_run"), Idle)
    /\ Frame

DeleteRun(w) ==
    /\ At(w, "delete_run")
    /\ Access(w, "call", run' = [run EXCEPT ![job[w].import] = Gone] /\ UNCHANGED <<rows, reserved, fate>>,
              To(w, "give_back"), Idle)
    /\ Frame

Less(size) == IF reserved > size THEN reserved - size ELSE 0
GiveBack(w) ==
    /\ At(w, "give_back")
    /\ Access(w, "call", SetReserved(Less(job[w].sum)),
              CASE job[w].then = "discard" -> To(w, "discard")
                [] job[w].then = "rebuild" -> [To(w, "add_up") EXCEPT !.again = TRUE]
                [] OTHER -> Idle,
              Idle)
    /\ Frame
-----------------------------------------------------------------------------
(* AddImportFrontierPage: for the first page of a new run, whose error      *)
(* removes the run, and for the links of a page.                            *)

AddsRoot(w) == job[w].queue = <<>>
Context(w)  == IF AddsRoot(w) THEN "call" ELSE "download"
Target(w)   == IF AddsRoot(w) THEN Root[job[w].source]
               ELSE Links[Page(w)][job[w].cursor + 1]

NextPage(r) ==
    IF r.at = Len(r.queue) THEN [r EXCEPT !.step = "release", !.error = FALSE]
    ELSE [r EXCEPT !.at = @ + 1, !.step = "page"]

From(r)     == CursorOf(r.import, r.queue[r.at])
LinkCount(r) == Len(Links[r.queue[r.at]])
LastLinkOfFirst(r) == Min({LinkCount(r), Batch})
LastLink(r)  == Min({LinkCount(r), From(r) + Batch})

FirstLinkNow(r) == r.cursor = 0
FirstVisit(r)   == From(r) = 0

(* The page is kept for the site when it is visited for the first time; it  *)
(* is done unless links of it remain.                                       *)
Conclude(r, paused) ==
    LET kept == [r EXCEPT !.buffer = IF FirstVisit(r) THEN @ \cup {r.queue[r.at]} ELSE @]
    IN IF paused \/ r.cursor < LinkCount(r) THEN [kept EXCEPT !.step = "advance"]
       ELSE NextPage([kept EXCEPT !.completed = Append(@, r.queue[r.at])])

Proceed(r) ==
    IF r.cursor >= LastLink(r) THEN Conclude(r, FALSE)
    ELSE IF r.found >= Batch THEN Conclude(r, TRUE)
    ELSE [r EXCEPT !.step = "exists"]

Refused(w) == IF AddsRoot(w) THEN [To(w, "measure") EXCEPT !.then = "end"]
              ELSE [To(w, "release") EXCEPT !.error = TRUE]
Paused(w)  == IF AddsRoot(w) THEN Refused(w) ELSE Conclude(job[w], TRUE)
Known(w)   == IF AddsRoot(w) THEN To(w, "select")
              ELSE Proceed([job[w] EXCEPT !.cursor = @ + 1])

CheckDuplicate(w) ==
    /\ At(w, "exists")
    /\ Access(w, Context(w), Read,
              IF Target(w) \in Queued(job[w].import) THEN Known(w) ELSE To(w, "reserve"),
              Refused(w))
    /\ Frame

HasRoomForOneMore == reserved <= Budget
HasRoom           == reserved < Budget
Reserve(w) ==
    /\ At(w, "reserve")
    /\ IF HasRoom
       THEN Access(w, Context(w), SetReserved(reserved + 1), To(w, "insert"), Refused(w))
       ELSE Access(w, Context(w), Read, Paused(w), Refused(w))
    /\ Frame

Insert(w) ==
    /\ At(w, "insert")
    /\ Access(w, Context(w),
              SetRows([rows EXCEPT ![job[w].import] = Append(@, Entry(Target(w)))]),
              IF AddsRoot(w) THEN To(w, "select")
              ELSE IF Len(job[w].queue) < Batch
                   THEN [To(w, "adopt") EXCEPT !.found = @ + 1]
                   ELSE Proceed([job[w] EXCEPT !.found = @ + 1, !.cursor = @ + 1]),
              To(w, "refund"))
    /\ Frame

(* The row is not there: nobody else works on this run.                     *)
Refund(w) ==
    /\ At(w, "refund")
    /\ Access(w, Context(w), SetReserved(Less(1)), Refused(w), Refused(w))
    /\ Frame

(* SetImportFrontierPageState: there is room for the page in this batch.    *)
Adopt(w) ==
    /\ At(w, "adopt")
    /\ Access(w, "download", SetRow(job[w].import, Target(w), "processing", 0),
              Proceed([job[w] EXCEPT !.queue = Append(@, Target(w)), !.cursor = @ + 1]),
              Refused(w))
    /\ Frame

-----------------------------------------------------------------------------
(* prepareWholeRemoteSiteImport *)

Taken(r) ==
    IF r.at <= Len(r.queue) THEN [r EXCEPT !.step = "take"]
    ELSE IF r.queue = <<>> THEN [r EXCEPT !.step = "release", !.error = TRUE]
    ELSE [r EXCEPT !.step = "page", !.at = 1]

(* ClaimImportFrontierPages, the oldest pending rows first; its errors      *)
(* return before the release of the claimed pages is deferred.              *)
Oldest(S, n) == {k \in S : Cardinality({l \in S : l < k}) < n}
InOrder(S)   == {f \in [1..Cardinality(S) -> S] :
                    \A m, n \in 1..Cardinality(S) : m < n => f[m] < f[n]}
Select(w) ==
    /\ At(w, "select")
    /\ LET i == job[w].import
       IN \E first \in InOrder(Oldest(Holding(i, "pending"), Batch)) :
             Access(w, "download", Read,
                    Taken([job[w] EXCEPT !.at = 1,
                               !.queue = [n \in DOMAIN first |-> rows[i][first[n]].page]]),
                    ToPartial(job[w], TRUE))
    /\ Frame

Take(w) ==
    /\ At(w, "take")
    /\ LET i       == job[w].import
           p       == Page(w)
           pending == {rows[i][k].page : k \in Holding(i, "pending")}
       IN \/ /\ p \in pending
             /\ Access(w, "download", SetRow(i, p, "processing", CursorOf(i, p)),
                       Taken([job[w] EXCEPT !.at = @ + 1]), ToPartial(job[w], TRUE))
          \/ /\ p \notin pending
             /\ Access(w, "download", Read,
                       Taken([job[w] EXCEPT !.queue = Remove(@, p)]),
                       ToPartial(job[w], TRUE))
    /\ Frame

(* The page is downloaded, or came with the call.  A page visited again at  *)
(* a later link whose content was never stored is not stored any more.      *)
CameAlong(w) == job[w].kind # "resume" /\ Page(w) = Root[job[w].source]
                /\ CursorOf(job[w].import, Page(w)) = 0
GivesUp(w)   == job[w].cancelled \/ job[w].misses >= FailureLimit

Visit(w) ==
    /\ At(w, "page")
    /\ LET i == job[w].import
           p == Page(w)
       IN \/ /\ GivesUp(w)
             /\ Become(w, [To(w, "release") EXCEPT !.error = FALSE])
             /\ UNCHANGED <<tables, faults>>
          \/ /\ ~GivesUp(w)
             /\ Become(w, Proceed([job[w] EXCEPT !.misses = 0, !.cursor = CursorOf(i, p)]))
             /\ fate' = IF CursorOf(i, p) > 0 /\ fate[i][p] = "none"
                        THEN [fate EXCEPT ![i][p] = "skipped"] ELSE fate
             /\ UNCHANGED <<run, rows, reserved, faults>>
          \/ /\ ~GivesUp(w) /\ ~CameAlong(w) /\ Fault
             /\ Become(w, [To(w, "give_up") EXCEPT !.misses = @ + 1])
             /\ UNCHANGED tables
    /\ Frame

GiveUp(w) ==
    /\ At(w, "give_up")
    /\ LET i == job[w].import
       IN Access(w, "download",
                 /\ rows' = [rows EXCEPT ![i] = [k \in DOMAIN @ |->
                       IF @[k].page = Page(w) THEN [@[k] EXCEPT !.state = "done"] ELSE @[k]]]
                 /\ fate' = [fate EXCEPT ![i][Page(w)] = IF @ = "stored" THEN "cut" ELSE "failed"]
                 /\ UNCHANGED <<run, reserved>>,
                 NextPage(job[w]), NextPage(job[w]))
    /\ Frame

ReachedNext(r) == r.cursor + 1
Reached(r)     == r.cursor
Advance(w) ==
    /\ At(w, "advance")
    /\ Access(w, "download",
              SetRow(job[w].import, Page(w), "pending", Reached(job[w])),
              NextPage(job[w]), NextPage(job[w]))
    /\ Frame

(* The deferred release, and the return to importWholeRemoteSite.           *)
Prepared(w) ==
    IF job[w].error \/ job[w].cancelled THEN ToPartial(job[w], TRUE)
    ELSE IF job[w].kind = "ai" /\ Root[job[w].source] \in job[w].buffer
         THEN To(w, "services") ELSE To(w, "persist")
Release(w) ==
    /\ At(w, "release")
    /\ Access(w, "cleanup",
              SetRows([rows EXCEPT ![job[w].import] = Released(@)]),
              Prepared(w), Prepared(w))
    /\ Frame

-----------------------------------------------------------------------------
(* The rest of importWholeRemoteSite *)

(* availableDraftServicePages, whose error leaves the run as it is.         *)
ReadServicePages(w) ==
    /\ At(w, "services")
    /\ Access(w, "call", Read, To(w, "persist"), Idle)
    /\ Frame

Marked(r) == IF r.at > Len(r.completed) THEN [r EXCEPT !.step = "stats"]
             ELSE [r EXCEPT !.step = "mark"]

(* persistImportedPages: one transaction of the site.                       *)
Persist(w) ==
    /\ At(w, "persist")
    /\ Access(w, "call",
              /\ fate' = [fate EXCEPT ![job[w].import] = [p \in Pages |->
                             IF p \in job[w].buffer THEN "stored" ELSE @[p]]]
              /\ UNCHANGED <<run, rows, reserved>>,
              Marked([job[w] EXCEPT !.at = 1]), ToPartial(job[w], FALSE))
    /\ Frame

Mark(w) ==
    /\ At(w, "mark")
    /\ Access(w, "call",
              SetRow(job[w].import, job[w].completed[job[w].at], "done", 0),
              Marked([job[w] EXCEPT !.at = @ + 1]), ToPartial(job[w], FALSE))
    /\ Frame

ReadStats(w) ==
    /\ At(w, "stats")
    /\ LET seen == Progress(job[w].import)
           next == [job[w] EXCEPT !.now = seen, !.then = "rebuild", !.cleanup = FALSE]
       IN Access(w, "call", Read,
                 CASE seen.left > 0 -> [next EXCEPT !.step = "partial"]
                   [] seen.left = 0 /\ job[w].kind = "ai" -> [next EXCEPT !.step = "measure"]
                   [] OTHER -> [next EXCEPT !.step = "detect"],
                 ToPartial(job[w], FALSE))
    /\ Frame

(* Detection of templates over all imported pages; preserveWholeSiteImport- *)
(* ForResume when it fails.                                                 *)
DetectTemplates(w) ==
    /\ At(w, "detect")
    /\ Access(w, "call", Read, To(w, "measure"),
              IF job[w].completed = <<>> THEN ToPartial(job[w], TRUE) ELSE To(w, "preserve"))
    /\ Frame

Preserve(w) ==
    /\ At(w, "preserve")
    /\ Access(w, "cleanup", SetRow(job[w].import, job[w].completed[1], "pending", 0),
              ToPartial(job[w], TRUE), ToPartial(job[w], TRUE))
    /\ Frame

SetPartial(w) ==
    /\ At(w, "partial")
    /\ LET next == IF job[w].then = "end" THEN Idle
                   ELSE [To(w, "add_up") EXCEPT !.again = FALSE]
       IN Access(w, IF job[w].cleanup THEN "cleanup" ELSE "call",
                 SetRun(job[w].import, "partial"), next, next)
    /\ Frame

(* rebuildDomainStorageUsage, run twice after a finished import.            *)
AddUp(w) ==
    /\ At(w, "add_up")
    /\ Access(w, "call", Read, [To(w, "write_up") EXCEPT !.sum = Total],
              [To(w, "write_up") EXCEPT !.sum = 0])
    /\ Frame

(* runAIImport continues while pages remain and the last call got further.  *)
FurtherOrEqual(r) == r.now.done >= r.before.done
Further(r)   == r.now.done > r.before.done \/ r.now.cursor > r.before.cursor
Continues(r) == /\ r.kind = "ai" /\ r.now.left > 0 /\ ~r.cancelled
                /\ r.first \/ Further(r)
                /\ Landing
Ended(r) ==
    IF Continues(r)
    THEN [Idle EXCEPT !.step = "lookup", !.kind = r.kind, !.source = r.source,
                      !.import = r.import, !.first = FALSE, !.before = r.now]
    ELSE Idle

WriteUp(w) ==
    /\ At(w, "write_up")
    /\ LET next == IF job[w].again THEN [To(w, "add_up") EXCEPT !.again = FALSE]
                   ELSE Ended(job[w])
       IN Access(w, "call", SetReserved(job[w].sum), next, next)
    /\ Frame

-----------------------------------------------------------------------------
(* The process and its restart *)

Cancel(j) ==
    /\ job[j] # Idle /\ ~job[j].cancelled /\ Fault
    /\ Become(j, [job[j] EXCEPT !.cancelled = TRUE])
    /\ UNCHANGED <<setup, phase, tables, calls, disturbed>>

Crash ==
    /\ phase # "down" /\ Fault
    /\ phase' = "down" /\ job' = [w \in Workers |-> Idle]
    /\ UNCHANGED <<setup, tables, calls, disturbed>>

Boot ==
    /\ phase = "down"
    /\ phase' = "recovering" /\ Become(Startup, [Idle EXCEPT !.step = "recover_runs"])
    /\ UNCHANGED <<setup, tables, calls, faults, disturbed>>

(* RecoverImportFrontiers: runs, pages, then the interrupted discards.      *)
Interrupted(i) == run[i].state = "running"
RecoverRuns ==
    /\ At(Startup, "recover_runs")
    /\ Access(Startup, "call",
              /\ run' = [i \in Imports |->
                           IF Interrupted(i) THEN [run[i] EXCEPT !.state = "partial"] ELSE run[i]]
              /\ UNCHANGED <<rows, reserved, fate>>,
              To(Startup, "recover_pages"), Idle)
    /\ Frame

RecoverPages ==
    /\ At(Startup, "recover_pages")
    /\ Access(Startup, "call", SetRows([i \in Imports |-> Released(rows[i])]),
              To(Startup, "list"), Idle)
    /\ Frame

(* The site opens, or stays closed until the next start.                    *)
Recovered ==
    /\ phase = "recovering"
    /\ \/ job[Startup].step = "discard" /\ job[Startup].targets = {} /\ phase' = "up"
       \/ job[Startup] = Idle /\ phase' = "down"
    /\ Become(Startup, Idle)
    /\ UNCHANGED <<setup, tables, calls, faults, disturbed>>

-----------------------------------------------------------------------------

Opening(w)    == Find(w) \/ Lookup(w) \/ ClaimRun(w) \/ ListDiscarded(w) \/ Discard(w) \/ Create(w)
Finishing(w)  == Measure(w) \/ DeletePages(w) \/ DeleteRun(w) \/ GiveBack(w)
Enqueuing(w)  == CheckDuplicate(w) \/ Reserve(w) \/ Insert(w) \/ Refund(w) \/ Adopt(w)
Preparing(w)  == Select(w) \/ Take(w) \/ Visit(w) \/ GiveUp(w) \/ Advance(w) \/ Release(w)
Concluding(w) == ReadServicePages(w) \/ Persist(w) \/ Mark(w) \/ ReadStats(w)
                 \/ DetectTemplates(w) \/ Preserve(w) \/ SetPartial(w) \/ AddUp(w) \/ WriteUp(w)
JobStep(w) == Opening(w) \/ Finishing(w) \/ Enqueuing(w) \/ Preparing(w) \/ Concluding(w)

StartupStep == Boot \/ RecoverRuns \/ RecoverPages \/ Recovered
Outside == \/ \E j \in Jobs : Cancel(j) \/ \E kind \in setup.kinds : Start(j, kind)
           \/ Crash

Next ==
    \/ \E w \in Workers : JobStep(w)
    \/ StartupStep
    \/ Outside

Spec == Init /\ [][Next]_vars

(* Goroutines are scheduled and every access returns; the site is started.  *)
Fairness ==
    /\ \A w \in Workers : WF_vars(JobStep(w))
    /\ WF_vars(StartupStep)
FairSpec == Spec /\ Fairness

-----------------------------------------------------------------------------
(* Properties *)

(* Types: the tables and the worker's record stay within what the code can  *)
(* store; the cursor of a row never passes the last link of its page.       *)
TypeOK ==
    /\ phase \in {"down", "recovering", "up"}
    /\ \A i \in Imports :
          /\ run[i].state \in {"unused", "partial", "running", "discarding", "gone"}
          /\ \A k \in DOMAIN rows[i] :
                /\ rows[i][k].page \in Pages
                /\ rows[i][k].state \in {"pending", "processing", "done"}
                /\ rows[i][k].cursor \in 0..Len(Links[rows[i][k].page])
          /\ Cardinality(Queued(i)) = Len(rows[i])
    /\ reserved \in Nat
    /\ \A w \in Workers : job[w].import \in Imports \cup {0}

Owns(w) == w \in Jobs /\ job[w].step \in
    {"exists", "reserve", "insert", "refund", "adopt", "select", "take", "page", "give_up",
     "advance", "release", "services", "persist", "mark", "stats", "detect", "preserve",
     "partial"}

(* A run that a call works on is running, and no other call works on it: a  *)
(* resumption, a second import of the same source, a discard of an older    *)
(* one and a restart never take it away.                                    *)
OneOwner ==
    \A w \in Workers : Owns(w) =>
        /\ run[job[w].import].state = "running"
        /\ \A v \in Workers \ {w} : Owns(v) => job[v].import # job[w].import

(* The queue is well formed, no page is in it twice, and no discovered link *)
(* is lost, wherever an import is interrupted: behind a page that is done   *)
(* lie all its links, behind a cursor those before it.                      *)
DiscoveredNotLost ==
    /\ TypeOK
    /\ \A i \in Imports : \A k \in DOMAIN rows[i] :
        LET e == rows[i][k]
            n == IF e.state # "done" THEN e.cursor
                 ELSE IF e.page \in Broken(i) THEN 0 ELSE Len(Links[e.page])
        IN \A x \in 1..n : Links[e.page][x] \in Queued(i)

(* The pages a visitor of the source can reach over pages that loaded.      *)
Reachable(i) ==
    {p \in Pages : \A S \in SUBSET Pages :
        (/\ Root[run[i].source] \in S
         /\ \A q \in S : q \notin Broken(i) => Range(Links[q]) \subseteq S) => p \in S}
Completing(w) == job[w].step = "measure" /\ job[w].then = "rebuild"

(* An import that is finished has stored every reachable page or reported   *)
(* it as failed, except those whose cursor moved before they were stored.   *)
FinishedIsComplete ==
    \A w \in Jobs : Completing(w) =>
        \A p \in Reachable(job[w].import) : fate[job[w].import][p] # "none"

(* What the tests of resumed imports ask: a finished import has stored every*)
(* reachable page that did not fail.                                        *)
EveryPageStored ==
    \A w \in Jobs : Completing(w) =>
        \A p \in Reachable(job[w].import) : fate[job[w].import][p] \in {"stored", "cut", "failed"}

(* The quota covers the queue and stays within the budget, through failures,*)
(* cancellations, crashes and repeated discards, as long as no two workers  *)
(* account for it between each other's reading and writing.                 *)
QueueIsCovered == ~disturbed => Total <= reserved /\ reserved <= Budget

(* Every call ends, also that of an AI import, which repeats itself.        *)
CallsEnd == \A j \in Jobs : (job[j] # Idle) ~> (job[j] = Idle)

(* An AI import with room for its queue that meets no failure finishes,     *)
(* whatever other imports of the same page path do.                         *)
UndisturbedImportFinishes ==
    (setup.faults = 0 /\ setup.kinds = {"ai"} /\ Budget >= MaxCalls * Cardinality(Pages)) =>
        \A i \in Imports : (run[i].state = "running") ~> (run[i].state = "gone")
=============================================================================
