-------------------------- MODULE ImportFrontierProofs --------------------------
(* Who works on an import, that its queue loses no page, and that what is   *)
(* queued is accounted for: for every number of calls, pages, sources and   *)
(* failures of ImportFrontier.                                              *)
EXTENDS ImportFrontier, SequenceTheorems, FiniteSetTheorems, TLAPS

Owning   == {"exists", "reserve", "insert", "refund", "adopt", "select", "take", "page",
             "give_up", "advance", "release", "services", "persist", "mark", "stats",
             "detect", "preserve", "partial"}
Settling == {"measure", "delete_pages", "delete_run"}

Fields == {"step", "kind", "source", "import", "targets", "then", "cleanup", "sum", "queue",
           "at", "cursor", "found", "misses", "buffer", "completed", "error", "again",
           "before", "now", "first", "cancelled"}

(* Workers are records of their fields, imports have a state, and a worker  *)
(* that needs an import names one.                                          *)
Shape ==
    /\ DOMAIN job = Workers /\ \A w \in Workers : DOMAIN job[w] = Fields
    /\ DOMAIN run = Imports /\ \A i \in Imports : DOMAIN run[i] = {"state", "source"}
    /\ \A w \in Workers :
          job[w].step \in Owning \cup Settling \cup
              {"lookup", "claim", "give_back", "add_up", "write_up"}
                  => job[w].import \in Imports

(* Nobody works while the process is down, only the recovery before the site*)
(* opens; and the recovery takes part in nothing but discarding.            *)
Serving ==
    /\ phase \in {"down", "recovering", "up"}
    /\ phase # "up" => \A j \in Jobs : job[j] = Idle
    /\ phase = "up" => job[Startup] = Idle
    /\ job[Startup].step \in Settling \cup
          {"idle", "recover_runs", "recover_pages", "list", "discard", "give_back"}
    /\ job[Startup].step \in Settling \cup {"give_back"} => job[Startup].then = "discard"

(* An import that was seen while it was discarded is never taken up again.  *)
Discarded ==
    \A w \in Workers : \A t \in job[w].targets :
        /\ t[1] \in Imports
        /\ t[2] = "discarding" => run[t[1]].state \in {"discarding", "gone"}

(* An import that is being removed is nobody else's.                        *)
Removed ==
    \A w \in Workers : job[w].step \in Settling =>
        /\ run[job[w].import].state \in {"running", "discarding", "gone"}
        /\ \A v \in Workers \ {w} : Owns(v) => job[v].import # job[w].import

IInv == Shape /\ Serving /\ Discarded /\ Removed /\ OneOwner

-----------------------------------------------------------------------------
(* A worker that goes on with its own import, or leaves it alone.           *)
GoesOn(r, next) ==
    /\ DOMAIN next = Fields /\ next.targets \in {r.targets, {}}
    /\ next.import = r.import /\ next.step \in Owning \cup Settling \cup {"add_up"}

(* The record every worker starts from.                                     *)
LEMMA IdleShape == DOMAIN Idle = Fields /\ Idle.step = "idle" /\ Idle.targets = {}
                   /\ Idle.import = 0
BY DEF Idle, Fields

(* What follows a page, a link, a batch or an error stays with the import.  *)
LEMMA NextPageGoesOn ==
    ASSUME NEW r, DOMAIN r = Fields PROVE GoesOn(r, NextPage(r))
BY DEF NextPage, GoesOn, Fields, Owning

(* A page that is concluded keeps the run with its owner.                   *)
LEMMA ConcludeGoesOn ==
    ASSUME NEW r, DOMAIN r = Fields, NEW paused PROVE GoesOn(r, Conclude(r, paused))
<1> DEFINE kept == [r EXCEPT !.buffer = IF FirstVisit(r) THEN @ \cup {r.queue[r.at]} ELSE @]
           ended == [kept EXCEPT !.completed = Append(@, r.queue[r.at])]
<1>1. DOMAIN kept = Fields /\ kept.import = r.import /\ kept.targets = r.targets
  BY DEF Fields
<1>2. DOMAIN ended = Fields /\ ended.import = r.import /\ ended.targets = r.targets
  BY <1>1 DEF Fields
<1>3. GoesOn(r, [kept EXCEPT !.step = "advance"])
  BY <1>1 DEF GoesOn, Fields, Owning
<1>4. GoesOn(r, NextPage(ended))
  <2> HIDE DEF ended
  <2> QED
    BY <1>2, NextPageGoesOn DEF GoesOn
<1> QED
  BY <1>3, <1>4 DEF Conclude

(* So does going on to the next page.                                       *)
LEMMA ProceedGoesOn ==
    ASSUME NEW r, DOMAIN r = Fields PROVE GoesOn(r, Proceed(r))
<1>1. GoesOn(r, [r EXCEPT !.step = "exists"])
  BY DEF GoesOn, Fields, Owning
<1> QED
  BY <1>1, ConcludeGoesOn DEF Proceed

(* So do the ends of a run and its plain steps.                             *)
LEMMA OthersGoOn ==
    ASSUME NEW r, DOMAIN r = Fields, NEW cleanup \in BOOLEAN
    PROVE  /\ GoesOn(r, ToPartial(r, cleanup)) /\ GoesOn(r, Marked(r)) /\ GoesOn(r, Taken(r))
           /\ \A step \in Owning \cup Settling : GoesOn(r, [r EXCEPT !.step = step])
BY DEF ToPartial, Marked, Taken, GoesOn, Fields, Owning, Settling

(* So does a handler that answers.                                          *)
LEMMA HandlerGoesOn ==
    ASSUME NEW w \in Workers, DOMAIN job[w] = Fields
    PROVE  GoesOn(job[w], Refused(w)) /\ GoesOn(job[w], Paused(w))
           /\ GoesOn(job[w], Known(w)) /\ GoesOn(job[w], Prepared(w))
<1>1. GoesOn(job[w], Refused(w))
  BY DEF Refused, To, GoesOn, Fields, Owning, Settling
<1>2. GoesOn(job[w], Paused(w))
  BY <1>1, ConcludeGoesOn DEF Paused
<1>3. GoesOn(job[w], Known(w))
  <2> DEFINE r == [job[w] EXCEPT !.cursor = @ + 1]
  <2>1. DOMAIN r = Fields /\ r.import = job[w].import /\ r.targets = job[w].targets
    BY DEF Fields
  <2>2. GoesOn(job[w], Proceed(r))
    <3> HIDE DEF r
    <3> QED
      BY <2>1, ProceedGoesOn DEF GoesOn
  <2>3. GoesOn(job[w], To(w, "select"))
    BY DEF To, GoesOn, Fields, Owning
  <2> QED
    BY <2>2, <2>3 DEF Known
<1>4. GoesOn(job[w], Prepared(w))
  BY OthersGoOn DEF Prepared, To, Owning
<1> QED
  BY <1>1, <1>2, <1>3, <1>4

-----------------------------------------------------------------------------
(* An access leads to one of its two continuations.                         *)
Either(w, then, otherwise) ==
    \/ job' = [job EXCEPT ![w] = then] \/ job' = [job EXCEPT ![w] = otherwise]
    \/ job' = [job EXCEPT ![w] = Idle]
    \/ /\ w \in Jobs /\ otherwise # Idle
       /\ job' = [job EXCEPT ![w] = [otherwise EXCEPT !.cancelled = TRUE]]

(* Who works on his own import may go on with it, and keeps it to himself.  *)
LEMMA OwnerKeeps ==
    ASSUME IInv, NEW w \in Workers, At(w, job[w].step), job[w].step \in Owning,
           UNCHANGED setup, UNCHANGED phase, UNCHANGED run,
           NEW then, NEW otherwise, Either(w, then, otherwise),
           then = Idle \/ GoesOn(job[w], then), otherwise = Idle \/ GoesOn(job[w], otherwise)
    PROVE  IInv'
<1>1. /\ w \in Jobs /\ w # Startup /\ phase = "up" /\ Owns(w)
      /\ run[job[w].import].state = "running"
  BY IdleShape, FrontierAssumption DEF IInv, Serving, Workers, Owns, At, Owning, Settling, OneOwner
<1>2. PICK next : job' = [job EXCEPT ![w] = next] /\ (next = Idle \/ GoesOn(job[w], next))
  <2>1. GoesOn(job[w], otherwise) => GoesOn(job[w], [otherwise EXCEPT !.cancelled = TRUE])
    BY DEF GoesOn, Fields
  <2> QED
    BY <2>1 DEF Either
<1>3. /\ \A v \in Workers \ {w} : job'[v] = job[v]
      /\ job'[w] = next /\ DOMAIN job' = Workers /\ DOMAIN next = Fields
      /\ next.targets \in {job[w].targets, {}}
      /\ next.step \in Owning \cup Settling \cup {"add_up", "idle"}
      /\ next = Idle \/ next.import = job[w].import
      /\ next.step # "idle" => next # Idle
  BY <1>2, IdleShape DEF IInv, Shape, GoesOn
<1>4. Shape'
  <2>1. job[w].import \in Imports
    BY DEF IInv, Shape
  <2> QED
    BY <1>3, <2>1, IdleShape DEF IInv, Shape, Owning, Settling
<1>5. Serving'
  BY <1>1, <1>3 DEF IInv, Serving, Workers
<1>6. Discarded'
  BY <1>3 DEF IInv, Discarded
<1>7. \A v \in Workers : Owns(v)' => Owns(v) /\ job'[v].import = job[v].import
  BY <1>1, <1>3, IdleShape DEF Owns
<1>8. OneOwner'
  BY <1>7 DEF IInv, OneOwner
<1>9. Removed'
  <2> SUFFICES ASSUME NEW v \in Workers, job'[v].step \in Settling
               PROVE  /\ run[job'[v].import].state \in {"running", "discarding", "gone"}
                      /\ \A u \in Workers \ {v} : Owns(u)' => job'[u].import # job'[v].import
    BY DEF Removed
  <2>1. CASE v = w
    <3>1. job'[v].import = job[v].import
      BY <1>3, <2>1, IdleShape DEF Settling
    <3> QED
      BY <1>1, <1>3, <1>7, <2>1, <3>1 DEF IInv, OneOwner
  <2>2. CASE v # w
    BY <1>3, <1>7, <2>2 DEF IInv, Removed
  <2> QED
    BY <2>1, <2>2
<1> QED
  BY <1>4, <1>5, <1>6, <1>8, <1>9 DEF IInv

(* A link: checked, accounted for, stored and adopted into the batch.       *)
LEMMA EnqueuingKeeps ==
    ASSUME IInv, NEW w \in Workers, Enqueuing(w) PROVE IInv'
<1> DEFINE r == job[w]
           next == [r EXCEPT !.found = @ + 1, !.cursor = @ + 1]
           more == [r EXCEPT !.queue = Append(@, Target(w)), !.cursor = @ + 1]
           kept == [To(w, "adopt") EXCEPT !.found = @ + 1]
<1>1. DOMAIN job[w] = Fields
  BY DEF IInv, Shape
<1>2. GoesOn(r, Proceed(next)) /\ GoesOn(r, Proceed(more)) /\ GoesOn(r, kept)
  <2>1. /\ DOMAIN next = Fields /\ next.import = r.import /\ next.targets = r.targets
        /\ DOMAIN more = Fields /\ more.import = r.import /\ more.targets = r.targets
    BY <1>1 DEF Fields
  <2>2. GoesOn(r, kept)
    BY <1>1 DEF To, GoesOn, Fields, Owning
  <2> HIDE DEF next, more, r, kept
  <2>3. GoesOn(r, Proceed(next)) /\ GoesOn(r, Proceed(more))
    BY <2>1, ProceedGoesOn DEF GoesOn
  <2> QED
    BY <2>2, <2>3
<1>3. \A step \in Owning \cup Settling : GoesOn(r, To(w, step))
  BY <1>1, OthersGoOn DEF To
<1>4. Enqueuing(w) => /\ UNCHANGED setup /\ UNCHANGED phase /\ UNCHANGED run
                      /\ At(w, r.step) /\ r.step \in Owning
  BY DEF Enqueuing, CheckDuplicate, Reserve, Insert, Refund, Adopt, Access, Frame, tables, At,
         SetReserved, SetRows, SetRow, Read, Owning
<1>5. PICK then, otherwise : /\ Either(w, then, otherwise)
                             /\ GoesOn(r, then) /\ GoesOn(r, otherwise)
  <2>1. GoesOn(r, Refused(w)) /\ GoesOn(r, Paused(w)) /\ GoesOn(r, Known(w))
    BY <1>1, HandlerGoesOn
  <2>2. CASE CheckDuplicate(w)
    <3>1. Either(w, IF Target(w) \in Queued(r.import) THEN Known(w) ELSE To(w, "reserve"), Refused(w))
      BY <2>2 DEF CheckDuplicate, Access, Become, Cancellable, Either
    <3> QED
      BY <3>1, <2>1, <1>3 DEF Owning
  <2>3. CASE Reserve(w)
    <3>1. Either(w, To(w, "insert"), Refused(w)) \/ Either(w, Paused(w), Refused(w))
      BY <2>3 DEF Reserve, Access, Become, Cancellable, Either
    <3> QED
      BY <3>1, <2>1, <1>3 DEF Owning
  <2>4. CASE Insert(w)
    <3>1. \/ Either(w, To(w, "select"), To(w, "refund")) \/ Either(w, kept, To(w, "refund"))
          \/ Either(w, Proceed(next), To(w, "refund"))
      BY <2>4 DEF Insert, Access, Become, Cancellable, Either
    <3> QED
      BY <3>1, <1>2, <1>3 DEF Owning
  <2>5. CASE Refund(w)
    <3>1. Either(w, Refused(w), Refused(w))
      BY <2>5 DEF Refund, Access, Become, Cancellable, Either
    <3> QED
      BY <3>1, <2>1
  <2>6. CASE Adopt(w)
    <3>1. Either(w, Proceed(more), Refused(w))
      BY <2>6 DEF Adopt, Access, Become, Cancellable, Either
    <3> QED
      BY <3>1, <2>1, <1>2
  <2> QED
    BY <2>2, <2>3, <2>4, <2>5, <2>6 DEF Enqueuing
<1> HIDE DEF r
<1> QED
  BY <1>4, <1>5, OwnerKeeps DEF r

(* A batch: claimed, visited page by page, and released.                    *)
LEMMA PreparingKeeps ==
    ASSUME IInv, NEW w \in Workers, Preparing(w) PROVE IInv'
<1> DEFINE r == job[w]
           Same(next) == DOMAIN next = Fields /\ next.import = r.import
                         /\ next.targets = r.targets
           Batched(queue) == [r EXCEPT !.at = 1, !.queue = queue]
           next == [r EXCEPT !.at = @ + 1]
           without == [r EXCEPT !.queue = Remove(@, Page(w))]
           visiting == [r EXCEPT !.misses = 0, !.cursor = CursorOf(r.import, Page(w))]
           leaving == [To(w, "release") EXCEPT !.error = FALSE]
           missing == [To(w, "give_up") EXCEPT !.misses = @ + 1]
<1>1. DOMAIN job[w] = Fields
  BY DEF IInv, Shape
<1>2. /\ \A queue : Same(Batched(queue)) /\ Same(next) /\ Same(without) /\ Same(visiting)
      /\ GoesOn(r, leaving) /\ GoesOn(r, missing)
  BY <1>1 DEF Fields, To, GoesOn, Owning
<1>3. /\ \A queue : GoesOn(r, Taken(Batched(queue)))
      /\ GoesOn(r, Taken(next)) /\ GoesOn(r, Taken(without)) /\ GoesOn(r, Proceed(visiting))
      /\ GoesOn(r, NextPage(r)) /\ GoesOn(r, Prepared(w)) /\ GoesOn(r, ToPartial(r, TRUE))
  <2> HIDE DEF Batched, next, without, visiting, r
  <2>1. \A x : Same(x) => GoesOn(r, Taken(x)) /\ GoesOn(r, Proceed(x))
    BY OthersGoOn, ProceedGoesOn DEF GoesOn
  <2>2. GoesOn(r, NextPage(r)) /\ GoesOn(r, Prepared(w)) /\ GoesOn(r, ToPartial(r, TRUE))
    BY <1>1, NextPageGoesOn, HandlerGoesOn, OthersGoOn DEF r
  <2> QED
    BY <1>2, <2>1, <2>2
<1>4. /\ UNCHANGED setup /\ UNCHANGED phase /\ UNCHANGED run
      /\ At(w, r.step) /\ r.step \in Owning
  BY DEF Preparing, Select, Take, Visit, GiveUp, Advance, Release, Access, Frame, tables, At,
         SetRows, SetRow, Read, Owning
<1>5. PICK then, otherwise : /\ Either(w, then, otherwise)
                             /\ GoesOn(r, then) /\ GoesOn(r, otherwise)
  <2>1. CASE Select(w)
    <3>1. PICK queue : Either(w, Taken(Batched(queue)), ToPartial(r, TRUE))
      BY <2>1 DEF Select, Access, Become, Cancellable, Either
    <3> QED
      BY <3>1, <1>3
  <2>2. CASE Take(w)
    <3>1. \/ Either(w, Taken(next), ToPartial(r, TRUE))
          \/ Either(w, Taken(without), ToPartial(r, TRUE))
      BY <2>2 DEF Take, Access, Become, Cancellable, Either
    <3> QED
      BY <3>1, <1>3
  <2>3. CASE Visit(w)
    <3>1. \/ Either(w, leaving, leaving) \/ Either(w, Proceed(visiting), Proceed(visiting))
          \/ Either(w, missing, missing)
      BY <2>3 DEF Visit, Become, Either
    <3> QED
      BY <3>1, <1>2, <1>3
  <2>4. CASE GiveUp(w) \/ Advance(w)
    <3>1. Either(w, NextPage(r), NextPage(r))
      BY <2>4 DEF GiveUp, Advance, Access, Become, Cancellable, Either
    <3> QED
      BY <3>1, <1>3
  <2>5. CASE Release(w)
    <3>1. Either(w, Prepared(w), Prepared(w))
      BY <2>5 DEF Release, Access, Become, Cancellable, Either
    <3> QED
      BY <3>1, <1>3
  <2> QED
    BY <2>1, <2>2, <2>3, <2>4, <2>5 DEF Preparing
<1> HIDE DEF r
<1> QED
  BY <1>4, <1>5, OwnerKeeps DEF r

(* The end of a batch: the site is written, and the run finished or not.    *)
LEMMA WritingKeeps ==
    ASSUME IInv, NEW w \in Workers,
           \/ ReadServicePages(w) \/ Persist(w) \/ Mark(w) \/ ReadStats(w)
           \/ DetectTemplates(w) \/ Preserve(w)
    PROVE  IInv'
<1> DEFINE r == job[w]
           Same(next) == DOMAIN next = Fields /\ next.import = r.import
                         /\ next.targets = r.targets
           start == [r EXCEPT !.at = 1]
           next == [r EXCEPT !.at = @ + 1]
           known == [r EXCEPT !.now = Progress(r.import), !.then = "rebuild", !.cleanup = FALSE]
           AsKnown(step) == [known EXCEPT !.step = step]
<1>1. DOMAIN job[w] = Fields
  BY DEF IInv, Shape
<1>2. Same(start) /\ Same(next) /\ Same(known)
  BY <1>1 DEF Fields
<1>3. /\ GoesOn(r, Marked(start)) /\ GoesOn(r, Marked(next))
      /\ \A step \in Owning \cup Settling : GoesOn(r, AsKnown(step)) /\ GoesOn(r, To(w, step))
      /\ GoesOn(r, ToPartial(r, TRUE)) /\ GoesOn(r, ToPartial(r, FALSE))
  <2> HIDE DEF start, next, known, r
  <2>1. \A x : Same(x) => /\ GoesOn(r, Marked(x))
                          /\ \A step \in Owning \cup Settling : GoesOn(r, [x EXCEPT !.step = step])
    BY OthersGoOn DEF GoesOn
  <2>2. /\ \A step \in Owning \cup Settling : GoesOn(r, To(w, step))
        /\ GoesOn(r, ToPartial(r, TRUE)) /\ GoesOn(r, ToPartial(r, FALSE))
    BY <1>1, OthersGoOn DEF r, To
  <2> QED
    BY <1>2, <2>1, <2>2
<1>4. /\ UNCHANGED setup /\ UNCHANGED phase /\ UNCHANGED run
      /\ At(w, r.step) /\ r.step \in Owning
  BY DEF ReadServicePages, Persist, Mark, ReadStats, DetectTemplates, Preserve, Access, Frame,
         tables, At, SetRow, Read, Owning
<1>5. PICK then, otherwise : /\ Either(w, then, otherwise)
                             /\ (then = Idle \/ GoesOn(r, then))
                             /\ (otherwise = Idle \/ GoesOn(r, otherwise))
  <2>1. CASE ReadServicePages(w)
    <3>1. Either(w, To(w, "persist"), Idle)
      BY <2>1 DEF ReadServicePages, Access, Become, Cancellable, Either
    <3> QED
      BY <3>1, <1>3 DEF Owning
  <2>2. CASE Persist(w) \/ Mark(w)
    <3>1. \/ Either(w, Marked(start), ToPartial(r, FALSE))
          \/ Either(w, Marked(next), ToPartial(r, FALSE))
      BY <2>2 DEF Persist, Mark, Access, Become, Cancellable, Either
    <3> QED
      BY <3>1, <1>3
  <2>3. CASE ReadStats(w)
    <3>1. \E step \in {"partial", "measure", "detect"} : Either(w, AsKnown(step), ToPartial(r, FALSE))
      BY <2>3 DEF ReadStats, Access, Become, Cancellable, Either
    <3> QED
      BY <3>1, <1>3 DEF Owning, Settling
  <2>4. CASE DetectTemplates(w)
    <3>1. \/ Either(w, To(w, "measure"), ToPartial(r, TRUE))
          \/ Either(w, To(w, "measure"), To(w, "preserve"))
      BY <2>4 DEF DetectTemplates, Access, Become, Cancellable, Either
    <3> QED
      BY <3>1, <1>3 DEF Owning, Settling
  <2>5. CASE Preserve(w)
    <3>1. Either(w, ToPartial(r, TRUE), ToPartial(r, TRUE))
      BY <2>5 DEF Preserve, Access, Become, Cancellable, Either
    <3> QED
      BY <3>1, <1>3
  <2> QED
    BY <2>1, <2>2, <2>3, <2>4, <2>5
<1> HIDE DEF r
<1> QED
  BY <1>4, <1>5, OwnerKeeps DEF r

-----------------------------------------------------------------------------
(* What a step of worker w must respect, whatever else it does: others keep *)
(* the imports they own, nothing that is removed comes back, and what w     *)
(* takes up nobody else has.                                                *)
Respects(w, next) ==
    /\ job' = [job EXCEPT ![w] = next] /\ DOMAIN next = Fields
    /\ DOMAIN run' = Imports /\ \A i \in Imports : DOMAIN run'[i] = {"state", "source"}
    /\ next.step \in Owning \cup Settling \cup
           {"lookup", "claim", "give_back", "add_up", "write_up"} => next.import \in Imports
    /\ \A t \in next.targets :
          t[1] \in Imports /\ (t[2] = "discarding" => run'[t[1]].state \in {"discarding", "gone"})
    /\ w = Startup =>
          /\ next.step \in Settling \cup
                {"idle", "recover_runs", "recover_pages", "list", "discard", "give_back"}
          /\ next.step \in Settling \cup {"give_back"} => next.then = "discard"
    /\ \A i \in Imports : run[i].state \in {"discarding", "gone"}
                             => run'[i].state \in {"discarding", "gone"}
    /\ \A v \in Workers \ {w} :
          /\ Owns(v) => run'[job[v].import].state = "running"
          /\ job[v].step \in Settling
                => run'[job[v].import].state \in {"running", "discarding", "gone"}
    /\ w \in Jobs /\ next.step \in Owning =>
          /\ run'[next.import].state = "running"
          /\ \A v \in Workers \ {w} :
                Owns(v) \/ job[v].step \in Settling => job[v].import # next.import
    /\ next.step \in Settling =>
          /\ run'[next.import].state \in {"running", "discarding", "gone"}
          /\ \A v \in Workers \ {w} : Owns(v) => job[v].import # next.import

(* A step of one worker that respects what the others hold.                 *)
LEMMA RespectfulKeeps ==
    ASSUME IInv, UNCHANGED phase, NEW w \in Workers, NEW next, Respects(w, next),
           w \in Jobs <=> phase = "up"
    PROVE  IInv'
<1>1. /\ \A v \in Workers \ {w} : job'[v] = job[v]
      /\ job'[w] = next /\ DOMAIN job' = Workers
  BY DEF IInv, Shape, Respects
<1>2. Shape'
  BY <1>1 DEF IInv, Shape, Respects
<1>3. Serving'
  <2>1. phase' # "up" => \A j \in Jobs : job'[j] = Idle
    BY <1>1 DEF IInv, Serving, Workers
  <2>2. CASE w = Startup
    BY <1>1, <2>1, <2>2, FrontierAssumption DEF IInv, Serving, Respects
  <2>3. CASE w # Startup
    <3>1. job'[Startup] = job[Startup]
      BY <1>1, <2>3 DEF Workers
    <3> QED
      BY <2>1, <3>1 DEF IInv, Serving
  <2> QED
    BY <2>2, <2>3
<1>4. Discarded'
  BY <1>1 DEF IInv, Discarded, Respects
<1>5. \A v \in Workers \ {w} : /\ Owns(v)' <=> Owns(v)
                               /\ job'[v].step \in Settling <=> job[v].step \in Settling
  BY <1>1 DEF Owns
<1>6. Owns(w)' <=> w \in Jobs /\ next.step \in Owning
  BY <1>1 DEF Owns, Owning
<1>7. OneOwner'
  <2> SUFFICES ASSUME NEW v \in Workers, Owns(v)'
               PROVE  /\ run'[job'[v].import].state = "running"
                      /\ \A u \in Workers \ {v} : Owns(u)' => job'[u].import # job'[v].import
    BY DEF OneOwner
  <2>1. CASE v = w
    BY <1>1, <1>5, <1>6, <2>1 DEF Respects
  <2>2. CASE v # w
    BY <1>1, <1>5, <1>6, <2>2 DEF IInv, OneOwner, Respects
  <2> QED
    BY <2>1, <2>2
<1>8. Removed'
  <2> SUFFICES ASSUME NEW v \in Workers, job'[v].step \in Settling
               PROVE  /\ run'[job'[v].import].state \in {"running", "discarding", "gone"}
                      /\ \A u \in Workers \ {v} : Owns(u)' => job'[u].import # job'[v].import
    BY DEF Removed
  <2>1. CASE v = w
    BY <1>1, <1>5, <2>1 DEF Respects
  <2>2. CASE v # w
    BY <1>1, <1>5, <1>6, <2>2 DEF IInv, Removed, Respects
  <2> QED
    BY <2>1, <2>2
<1> QED
  BY <1>2, <1>3, <1>4, <1>7, <1>8 DEF IInv

(* A worker that takes up no import and leaves every run as it is.          *)
LEMMA QuietRespects ==
    ASSUME IInv, UNCHANGED run, NEW w \in Workers, NEW next, DOMAIN next = Fields,
           job' = [job EXCEPT ![w] = next], next.step \notin Owning \cup Settling,
           next.step \in {"lookup", "claim", "give_back", "add_up", "write_up"}
               => next.import \in Imports,
           \/ next.targets \subseteq job[w].targets
           \/ next.targets \subseteq {<<i, run[i].state>> : i \in Imports},
           w = Startup =>
               /\ next.step \in {"idle", "recover_runs", "recover_pages", "list", "discard", "give_back"}
               /\ next.step = "give_back" => next.then = "discard"
    PROVE  Respects(w, next)
<1>1. \A t \in next.targets :
          t[1] \in Imports /\ (t[2] = "discarding" => run[t[1]].state \in {"discarding", "gone"})
  BY DEF IInv, Discarded
<1>2. \A v \in Workers \ {w} :
          /\ Owns(v) => run'[job[v].import].state = "running"
          /\ job[v].step \in Settling
                => run'[job[v].import].state \in {"running", "discarding", "gone"}
  BY DEF IInv, OneOwner, Removed
<1> QED
  BY <1>1, <1>2 DEF IInv, Shape, Respects

(* Jobs at work find the site open.                                         *)
LEMMA AtWork ==
    ASSUME IInv, NEW w \in Workers, job[w].step # "idle"
    PROVE  w \in Jobs <=> phase = "up"
BY IdleShape, FrontierAssumption DEF IInv, Serving, Workers

-----------------------------------------------------------------------------
(* The run is set partial only by the worker that owns it; what follows     *)
(* adds up the quota.                                                       *)
LEMMA AddingUpKeeps ==
    ASSUME IInv, NEW w \in Workers, SetPartial(w) \/ AddUp(w) \/ WriteUp(w) PROVE IInv'
<1> DEFINE adding == [To(w, "add_up") EXCEPT !.again = FALSE]
           cut == [adding EXCEPT !.cancelled = TRUE]
<1>1. DOMAIN job[w] = Fields /\ w \in Jobs /\ w # Startup /\ job[w].import \in Imports
      /\ UNCHANGED phase /\ job[w].step \in {"partial", "add_up", "write_up"}
  BY FrontierAssumption DEF IInv, Shape, Serving, SetPartial, AddUp, WriteUp, At, Workers, Owning,
     Settling, Frame
<1>2. phase = "up"
  BY <1>1, AtWork
<1>3. /\ DOMAIN adding = Fields /\ adding.step = "add_up" /\ adding.import = job[w].import
      /\ adding.targets = job[w].targets
      /\ DOMAIN cut = Fields /\ cut.step = "add_up" /\ cut.import = job[w].import
      /\ cut.targets = job[w].targets
  BY <1>1 DEF To, Fields
<1>4. CASE SetPartial(w)
  <2>1. PICK next \in {Idle, adding, cut} : job' = [job EXCEPT ![w] = next]
    BY <1>4 DEF SetPartial, Access, Become, Cancellable
  <2>2. run' = run \/ run' = [run EXCEPT ![job[w].import].state = "partial"]
    BY <1>4 DEF SetPartial, Access, SetRun, tables
  <2>3. DOMAIN next = Fields /\ next.step \in {"idle", "add_up"} /\ next.targets \in {{}, job[w].targets}
        /\ (next.step = "add_up" => next.import = job[w].import)
    BY <1>3, IdleShape
  <2>4. Owns(w) /\ run[job[w].import].state = "running"
    BY <1>1, <1>4 DEF SetPartial, At, Owns, IInv, OneOwner
  <2>5. \A v \in Workers \ {w} : Owns(v) \/ job[v].step \in Settling => job[v].import # job[w].import
    BY <2>4 DEF IInv, OneOwner, Removed
  <2>6. /\ DOMAIN run' = Imports /\ \A i \in Imports : DOMAIN run'[i] = {"state", "source"}
        /\ \A i \in Imports \ {job[w].import} : run'[i] = run[i]
    BY <2>2 DEF IInv, Shape
  <2>7. \A v \in Workers \ {w} :
            /\ Owns(v) => run'[job[v].import].state = "running"
            /\ job[v].step \in Settling
                  => run'[job[v].import].state \in {"running", "discarding", "gone"}
    <3> SUFFICES ASSUME NEW v \in Workers \ {w}, Owns(v) \/ job[v].step \in Settling
                 PROVE  run'[job[v].import] = run[job[v].import]
      BY DEF IInv, OneOwner, Removed
    <3>1. job[v].import \in Imports
      BY DEF IInv, Shape, Owns, Owning
    <3> QED
      BY <2>5, <2>6, <3>1
  <2>8. \A t \in next.targets :
            t[1] \in Imports /\ (t[2] = "discarding" => run'[t[1]].state \in {"discarding", "gone"})
    BY <2>3, <2>4, <2>6 DEF IInv, Discarded
  <2>9. Respects(w, next)
    BY <1>1, <2>1, <2>3, <2>4, <2>6, <2>7, <2>8 DEF Respects, Owning, Settling
  <2> QED
    BY <1>1, <1>2, <2>9, RespectfulKeeps
<1>5. CASE AddUp(w) \/ WriteUp(w)
  <2>1. PICK next : /\ job' = [job EXCEPT ![w] = next] /\ DOMAIN next = Fields
                    /\ next.step \in {"idle", "add_up", "write_up", "lookup"}
                    /\ next.step # "idle" => next.import = job[w].import
                    /\ next.targets \in {{}, job[w].targets}
    <3>1. CASE AddUp(w)
      <4> DEFINE sum == [To(w, "write_up") EXCEPT !.sum = Total]
                 zero == [To(w, "write_up") EXCEPT !.sum = 0]
                 late == [zero EXCEPT !.cancelled = TRUE]
      <4>1. \E next \in {sum, zero, late, Idle} : job' = [job EXCEPT ![w] = next]
        BY <3>1 DEF AddUp, Access, Become, Cancellable
      <4>2. \A x \in {sum, zero, late} : DOMAIN x = Fields /\ x.step = "write_up"
                 /\ x.import = job[w].import /\ x.targets = job[w].targets
        <5> DEFINE up == To(w, "write_up")
        <5>1. DOMAIN up = Fields /\ up.step = "write_up"
              /\ up.import = job[w].import /\ up.targets = job[w].targets
          BY <1>1 DEF To, Fields
        <5> HIDE DEF up
        <5>2. \A x : LET y == [up EXCEPT !.sum = x] IN
                 DOMAIN y = Fields /\ y.step = up.step /\ y.import = up.import
                 /\ y.targets = up.targets
          BY <5>1 DEF Fields
        <5>3. LET y == [[up EXCEPT !.sum = 0] EXCEPT !.cancelled = TRUE] IN
                 DOMAIN y = Fields /\ y.step = up.step /\ y.import = up.import
                 /\ y.targets = up.targets
          BY <5>1 DEF Fields
        <5> QED
          BY <5>1, <5>2, <5>3 DEF up
      <4> HIDE DEF sum, zero, late
      <4> QED
        BY <4>1, <4>2, IdleShape
    <3>2. CASE WriteUp(w)
      <4> DEFINE repeat == [Idle EXCEPT !.step = "lookup", !.kind = job[w].kind,
                               !.source = job[w].source, !.import = job[w].import,
                               !.first = FALSE, !.before = job[w].now]
                 laterepeat == [repeat EXCEPT !.cancelled = TRUE]
      <4>1. \E next \in {adding, cut, repeat, laterepeat, Idle} : job' = [job EXCEPT ![w] = next]
        BY <3>2 DEF WriteUp, Access, Become, Cancellable, Ended
      <4>2. \A x \in {repeat, laterepeat} : DOMAIN x = Fields /\ x.step = "lookup"
                 /\ x.import = job[w].import /\ x.targets = {}
        <5>1. DOMAIN repeat = Fields /\ repeat.step = "lookup"
              /\ repeat.import = job[w].import /\ repeat.targets = {}
          BY IdleShape DEF Fields
        <5> HIDE DEF repeat
        <5>2. DOMAIN laterepeat = Fields /\ laterepeat.step = "lookup"
              /\ laterepeat.import = job[w].import /\ laterepeat.targets = {}
          BY <5>1 DEF Fields
        <5> QED
          BY <5>1, <5>2
      <4> HIDE DEF repeat, laterepeat, adding, cut
      <4> QED
        BY <1>3, <4>1, <4>2, IdleShape
    <3> QED
      BY <1>5, <3>1, <3>2
  <2>2. UNCHANGED run
    BY <1>5 DEF AddUp, WriteUp, Access, tables, Read, SetReserved
  <2>3. Respects(w, next)
    BY <1>1, <2>1, <2>2, QuietRespects DEF Owning, Settling
  <2> QED
    BY <1>1, <1>2, <2>3, RespectfulKeeps
<1> QED
  BY <1>4, <1>5

-----------------------------------------------------------------------------
(* A call looks for a run, and lists what it discards.                      *)
LEMMA LookingKeeps ==
    ASSUME IInv, NEW w \in Workers, Find(w) \/ Lookup(w) \/ ListDiscarded(w) PROVE IInv'
<1>1. DOMAIN job[w] = Fields /\ UNCHANGED run /\ UNCHANGED phase
      /\ job[w].step \in {"find", "lookup", "list"}
  BY DEF IInv, Shape, Find, Lookup, ListDiscarded, Access, Read, tables, Frame, At
<1>2. w \in Jobs <=> phase = "up"
  BY <1>1, AtWork
<1>3. PICK next : /\ job' = [job EXCEPT ![w] = next] /\ DOMAIN next = Fields
                  /\ \/ next.step = "idle"
                     \/ w # Startup /\ next.step = "list"
                     \/ w # Startup /\ next.step = "claim" /\ next.import \in Imports
                     \/ next.step = "discard"
                  /\ \/ next.targets \subseteq job[w].targets
                     \/ next.targets \subseteq {<<i, run[i].state>> : i \in Imports}
  <2>1. CASE Find(w)
    <3> DEFINE claim(i) == [To(w, "claim") EXCEPT !.import = i]
    <3>1. w # Startup
      BY <2>1 DEF Find, At, IInv, Serving, Settling
    <3>2. \/ \E next \in {To(w, "list"), Idle} : job' = [job EXCEPT ![w] = next]
          \/ \E i \in Imports : job' = [job EXCEPT ![w] = claim(i)]
      BY <2>1 DEF Find, Access, Become, Cancellable
    <3>3. /\ DOMAIN To(w, "list") = Fields /\ To(w, "list").step = "list"
          /\ To(w, "list").targets = job[w].targets
          /\ \A i : DOMAIN claim(i) = Fields /\ claim(i).step = "claim" /\ claim(i).import = i
                    /\ claim(i).targets = job[w].targets
      BY <1>1 DEF To, Fields
    <3> HIDE DEF claim
    <3> QED
      BY <3>1, <3>2, <3>3, IdleShape
  <2>2. CASE Lookup(w)
    <3>1. w # Startup /\ job[w].import \in Imports
      BY <2>2 DEF Lookup, At, IInv, Serving, Shape, Settling
    <3>2. \E next \in {To(w, "claim"), Idle} : job' = [job EXCEPT ![w] = next]
      BY <2>2 DEF Lookup, Access, Become, Cancellable
    <3>3. /\ DOMAIN To(w, "claim") = Fields /\ To(w, "claim").step = "claim"
          /\ To(w, "claim").targets = job[w].targets /\ To(w, "claim").import = job[w].import
      BY <1>1 DEF To, Fields
    <3> QED
      BY <3>1, <3>2, <3>3, IdleShape
  <2>3. CASE ListDiscarded(w)
    <3> DEFINE ids == {i \in Imports : run[i].state \in Listed(w)}
               listed == [To(w, "discard") EXCEPT !.targets = {<<i, run[i].state>> : i \in ids}]
    <3>1. \E next \in {listed, Idle} : job' = [job EXCEPT ![w] = next]
      BY <2>3 DEF ListDiscarded, Access, Become, Cancellable
    <3>2. DOMAIN listed = Fields /\ listed.step = "discard"
          /\ listed.targets = {<<i, run[i].state>> : i \in ids}
      BY <1>1 DEF To, Fields
    <3>3. {<<i, run[i].state>> : i \in ids} \subseteq {<<i, run[i].state>> : i \in Imports}
      OBVIOUS
    <3> HIDE DEF listed
    <3> QED
      BY <3>1, <3>2, <3>3, IdleShape
  <2> QED
    BY <2>1, <2>2, <2>3 DEF Find, Lookup, ListDiscarded
<1>4. Respects(w, next)
  BY <1>1, <1>3, QuietRespects DEF Owning, Settling
<1> QED
  BY <1>1, <1>2, <1>4, RespectfulKeeps

(* A run changes hands: it is claimed when nobody works on it, or created.  *)
LEMMA TakingKeeps ==
    ASSUME IInv, NEW w \in Workers, ClaimRun(w) \/ Create(w) PROVE IInv'
<1>1. DOMAIN job[w] = Fields /\ UNCHANGED phase /\ w # Startup
      /\ job[w].step \in {"claim", "discard"}
  BY FrontierAssumption DEF IInv, Shape, Serving, ClaimRun, Create, Frame, At, Settling
<1>2. w \in Jobs /\ phase = "up"
  BY <1>1, AtWork DEF Workers
<1>3. CASE job' = [job EXCEPT ![w] = Idle] /\ UNCHANGED run
  <2>1. Respects(w, Idle)
    BY <1>1, <1>3, IdleShape, QuietRespects DEF Owning, Settling
  <2> QED
    BY <1>1, <1>2, <2>1, RespectfulKeeps
<1>4. ASSUME NEW i \in Imports, run[i].state \in {"partial", "unused"},
             run'[i].state = "running", DOMAIN run'[i] = {"state", "source"},
             DOMAIN run' = Imports, \A k \in Imports \ {i} : run'[k] = run[k],
             NEW next, DOMAIN next = Fields, next.step \in {"select", "exists"},
             next.import = i, next.targets = job[w].targets,
             job' = [job EXCEPT ![w] = next]
      PROVE  IInv'
  <2>1. \A v \in Workers \ {w} : Owns(v) \/ job[v].step \in Settling => job[v].import # i
    BY <1>4 DEF IInv, OneOwner, Removed
  <2>2. \A v \in Workers \ {w} :
            /\ Owns(v) => run'[job[v].import].state = "running"
            /\ job[v].step \in Settling
                  => run'[job[v].import].state \in {"running", "discarding", "gone"}
    <3> SUFFICES ASSUME NEW v \in Workers \ {w}, Owns(v) \/ job[v].step \in Settling
                 PROVE  run'[job[v].import] = run[job[v].import]
      BY DEF IInv, OneOwner, Removed
    <3>1. job[v].import \in Imports
      BY DEF IInv, Shape, Owns, Owning
    <3> QED
      BY <1>4, <2>1, <3>1
  <2>3. \A t \in next.targets :
            t[1] \in Imports /\ (t[2] = "discarding" => run'[t[1]].state \in {"discarding", "gone"})
    BY <1>4 DEF IInv, Discarded
  <2>4. Respects(w, next)
    BY <1>1, <1>4, <2>1, <2>2, <2>3 DEF Respects, Owning, Settling, IInv, Shape
  <2> QED
    BY <1>1, <1>2, <2>4, RespectfulKeeps
<1>5. CASE job' = [job EXCEPT ![w] = Idle] /\ ~UNCHANGED run
  <2>1. PICK i \in Imports : /\ run[i].state \in {"partial", "unused"}
                             /\ run'[i].state = "running" /\ DOMAIN run'[i] = {"state", "source"}
                             /\ DOMAIN run' = Imports
                             /\ \A k \in Imports \ {i} : run'[k] = run[k]
    <3>1. CASE ClaimRun(w)
      <4>1. run' = [run EXCEPT ![job[w].import].state = "running"] /\ Claimable(job[w].import)
        BY <1>5, <3>1 DEF ClaimRun, Access, Read, SetRun, tables
      <4>2. job[w].import \in Imports
        BY <3>1 DEF ClaimRun, At, IInv, Shape
      <4> QED
        BY <4>1, <4>2 DEF Claimable, IInv, Shape
    <3>2. CASE Create(w)
      <4>1. \E i \in Imports :
               /\ run[i].state = "unused"
               /\ run' = [run EXCEPT ![i] = [state |-> "running", source |-> job[w].source]]
        BY <1>5, <3>2 DEF Create, Access, tables
      <4> QED
        BY <4>1 DEF IInv, Shape
    <3> QED
      BY <3>1, <3>2
  <2>2. \A v \in Workers : Owns(v) \/ job[v].step \in Settling => job[v].import # i
    BY <2>1 DEF IInv, OneOwner, Removed
  <2>3. \A v \in Workers \ {w} :
            /\ Owns(v) => run'[job[v].import].state = "running"
            /\ job[v].step \in Settling
                  => run'[job[v].import].state \in {"running", "discarding", "gone"}
    <3> SUFFICES ASSUME NEW v \in Workers \ {w}, Owns(v) \/ job[v].step \in Settling
                 PROVE  run'[job[v].import] = run[job[v].import]
      BY DEF IInv, OneOwner, Removed
    <3>1. job[v].import \in Imports
      BY DEF IInv, Shape, Owns, Owning
    <3> QED
      BY <2>1, <2>2, <3>1
  <2>4. Respects(w, Idle)
    BY <1>1, <1>5, <2>1, <2>3, IdleShape DEF Respects, Owning, Settling, IInv, Shape
  <2> QED
    BY <1>1, <1>2, <2>4, RespectfulKeeps
<1>6. CASE ClaimRun(w)
  <2> DEFINE next == To(w, "select")
  <2>1. DOMAIN next = Fields /\ next.step = "select" /\ next.import = job[w].import
        /\ next.targets = job[w].targets /\ job[w].import \in Imports
    BY <1>1, <1>6 DEF To, Fields, IInv, Shape, ClaimRun, At
  <2>2. \/ job' = [job EXCEPT ![w] = Idle]
        \/ /\ job' = [job EXCEPT ![w] = next] /\ Claimable(job[w].import)
           /\ run' = [run EXCEPT ![job[w].import].state = "running"]
    BY <1>6 DEF ClaimRun, Access, Become, Cancellable, SetRun
  <2> HIDE DEF next
  <2> QED
    BY <1>3, <1>4, <1>5, <2>1, <2>2 DEF Claimable, IInv, Shape
<1>7. CASE Create(w)
  <2> DEFINE next(i) == [To(w, "exists") EXCEPT !.import = i]
  <2>1. \A i : DOMAIN next(i) = Fields /\ next(i).step = "exists" /\ next(i).import = i
               /\ next(i).targets = job[w].targets
    BY <1>1 DEF To, Fields
  <2>2. \/ job' = [job EXCEPT ![w] = Idle]
        \/ \E i \in Imports :
              /\ job' = [job EXCEPT ![w] = next(i)] /\ run[i].state = "unused"
              /\ run' = [run EXCEPT ![i] = [state |-> "running", source |-> job[w].source]]
    <3>1. PICK i \in Imports :
             /\ run[i].state = "unused"
             /\ \/ /\ job' = [job EXCEPT ![w] = next(i)]
                   /\ run' = [run EXCEPT ![i] = [state |-> "running", source |-> job[w].source]]
                \/ job' = [job EXCEPT ![w] = Idle]
      BY <1>7, SMTT(20) DEF Create, Access, Become
    <3> HIDE DEF next
    <3> QED
      BY <3>1
  <2> HIDE DEF next
  <2>3. ASSUME NEW i \in Imports, job' = [job EXCEPT ![w] = next(i)], run[i].state = "unused",
               run' = [run EXCEPT ![i] = [state |-> "running", source |-> job[w].source]]
        PROVE  IInv'
    <3>1. run'[i].state = "running" /\ DOMAIN run'[i] = {"state", "source"} /\ DOMAIN run' = Imports
          /\ \A k \in Imports \ {i} : run'[k] = run[k]
      BY <2>3 DEF IInv, Shape
    <3>2. PICK n : n = next(i)
      OBVIOUS
    <3>3. DOMAIN n = Fields /\ n.step \in {"select", "exists"} /\ n.import = i
          /\ n.targets = job[w].targets
      BY <2>1, <3>2
    <3>4. job' = [job EXCEPT ![w] = n] /\ run[i].state \in {"partial", "unused"}
      BY <2>3, <3>2
    <3> QED
      BY <1>4, <3>1, <3>3, <3>4
  <2> QED
    BY <1>3, <1>5, <2>2, <2>3
<1> QED
  BY <1>6, <1>7

(* A worker that leaves every run alone but one, which nobody else works on.*)
LEMMA OthersUntouched ==
    ASSUME IInv, NEW i \in Imports, NEW w \in Workers,
           DOMAIN run' = Imports, DOMAIN run'[i] = {"state", "source"},
           \A k \in Imports \ {i} : run'[k] = run[k],
           run'[i].state \in {"discarding", "gone"},
           \A v \in Workers \ {w} : Owns(v) => job[v].import # i
    PROVE  /\ \A k \in Imports : DOMAIN run'[k] = {"state", "source"}
           /\ \A k \in Imports : run[k].state \in {"discarding", "gone"}
                                    => run'[k].state \in {"discarding", "gone"}
           /\ \A v \in Workers \ {w} :
                 /\ Owns(v) => run'[job[v].import].state = "running"
                 /\ job[v].step \in Settling
                       => run'[job[v].import].state \in {"running", "discarding", "gone"}
           /\ \A v \in Workers : \A t \in job[v].targets :
                 /\ t[1] \in Imports
                 /\ t[2] = "discarding" => run'[t[1]].state \in {"discarding", "gone"}
<1>1. \A k \in Imports : /\ DOMAIN run'[k] = {"state", "source"}
                         /\ run[k].state \in {"discarding", "gone"}
                                => run'[k].state \in {"discarding", "gone"}
  BY DEF IInv, Shape
<1>2. ASSUME NEW v \in Workers \ {w}, Owns(v)
      PROVE  run'[job[v].import].state = "running"
  <2>1. job[v].import \in Imports \ {i}
    BY <1>2 DEF IInv, Shape, Owns, Owning
  <2> QED
    BY <1>2, <2>1 DEF IInv, OneOwner
<1>3. ASSUME NEW v \in Workers \ {w}, job[v].step \in Settling
      PROVE  run'[job[v].import].state \in {"running", "discarding", "gone"}
  <2>1. job[v].import \in Imports
    BY <1>3 DEF IInv, Shape
  <2> QED
    BY <1>3, <2>1 DEF IInv, Removed
<1> QED
  BY <1>1, <1>2, <1>3 DEF IInv, Discarded

(* A listed run is discarded unless somebody took it up since.              *)
LEMMA DiscardKeeps ==
    ASSUME IInv, NEW w \in Workers, Discard(w) PROVE IInv'
<1>1. DOMAIN job[w] = Fields /\ UNCHANGED phase /\ job[w].step = "discard"
  BY DEF IInv, Shape, Discard, Frame, At
<1>2. w \in Jobs <=> phase = "up"
  BY <1>1, AtWork
<1> DEFINE rest(t) == [job[w] EXCEPT !.targets = @ \ {t}]
           clean(t) == [rest(t) EXCEPT !.step = "measure", !.import = t[1], !.then = "discard"]
           Changes(t) == /\ run[t[1]].state = "partial"
                         /\ run' = [run EXCEPT ![t[1]].state = "discarding"]
<1>3. PICK t \in job[w].targets :
          \/ t[2] = "discarding" /\ job' = [job EXCEPT ![w] = clean(t)] /\ UNCHANGED run
          \/ Changes(t) /\ job' = [job EXCEPT ![w] = clean(t)]
          \/ Changes(t) /\ job' = [job EXCEPT ![w] = Idle]
          \/ job' = [job EXCEPT ![w] = Idle] /\ UNCHANGED run
          \/ job' = [job EXCEPT ![w] = rest(t)] /\ UNCHANGED run
  BY DEF Discard, Access, Become, Cancellable, SetRun, Read, tables
<1>4. /\ DOMAIN rest(t) = Fields /\ rest(t).targets \subseteq job[w].targets
      /\ rest(t).step = "discard"
      /\ DOMAIN clean(t) = Fields /\ clean(t).targets \subseteq job[w].targets
      /\ clean(t).step = "measure" /\ clean(t).import = t[1] /\ clean(t).then = "discard"
      /\ t[1] \in Imports
  BY <1>1 DEF Fields, IInv, Discarded
<1> HIDE DEF rest, clean
<1>5. CASE t[2] = "discarding" /\ job' = [job EXCEPT ![w] = clean(t)] /\ UNCHANGED run
  <2>1. run[t[1]].state \in {"discarding", "gone"}
    BY <1>5 DEF IInv, Discarded
  <2>2. \A v \in Workers \ {w} : Owns(v) => job[v].import # t[1]
    BY <2>1 DEF IInv, OneOwner
  <2>3. DOMAIN run' = Imports /\ DOMAIN run'[t[1]] = {"state", "source"}
        /\ \A k \in Imports : run'[k] = run[k]
    BY <1>4, <1>5 DEF IInv, Shape
  <2>4. Respects(w, clean(t))
    BY <1>1, <1>4, <1>5, <2>1, <2>2, <2>3, OthersUntouched DEF Respects, Owning, Settling
  <2> QED
    BY <1>1, <1>2, <2>4, RespectfulKeeps
<1>6. ASSUME Changes(t), NEW next \in {clean(t), Idle}, job' = [job EXCEPT ![w] = next]
      PROVE  IInv'
  <2>1. /\ DOMAIN run' = Imports /\ DOMAIN run'[t[1]] = {"state", "source"}
        /\ \A k \in Imports \ {t[1]} : run'[k] = run[k]
        /\ run'[t[1]].state = "discarding"
    BY <1>4, <1>6 DEF IInv, Shape
  <2>2. \A v \in Workers \ {w} : Owns(v) => job[v].import # t[1]
    BY <1>6 DEF IInv, OneOwner
  <2>3. /\ DOMAIN next = Fields /\ next.targets \subseteq job[w].targets
        /\ \/ next.step = "idle"
           \/ next.step = "measure" /\ next.import = t[1] /\ next.then = "discard"
    BY <1>4, IdleShape
  <2>4. Respects(w, next)
    BY <1>1, <1>4, <1>6, <2>1, <2>2, <2>3, OthersUntouched DEF Respects, Owning, Settling
  <2> QED
    BY <1>1, <1>2, <2>4, RespectfulKeeps
<1>7. ASSUME NEW next \in {rest(t), Idle}, job' = [job EXCEPT ![w] = next], UNCHANGED run
      PROVE  IInv'
  <2>1. /\ DOMAIN next = Fields /\ next.targets \subseteq job[w].targets
        /\ next.step \in {"idle", "discard"}
    BY <1>4, IdleShape
  <2>2. Respects(w, next)
    BY <1>7, <2>1, QuietRespects DEF Owning, Settling
  <2> QED
    BY <1>1, <1>2, <2>2, RespectfulKeeps
<1> QED
  BY <1>3, <1>5, <1>6, <1>7

(* FinishImportFrontier: nobody else owns the run that it removes.          *)
LEMMA FinishingKeeps ==
    ASSUME IInv, NEW w \in Workers, Finishing(w) PROVE IInv'
<1>1. DOMAIN job[w] = Fields /\ UNCHANGED phase /\ job[w].step \in Settling \cup {"give_back"}
  BY DEF IInv, Shape, Finishing, Measure, DeletePages, DeleteRun, GiveBack, Frame, At, Settling
<1>2. w \in Jobs <=> phase = "up"
  BY <1>1, AtWork DEF Settling
<1>3. job[w].import \in Imports /\ (w = Startup => job[w].then = "discard")
  BY <1>1 DEF IInv, Shape, Serving
<1>4. \A step \in {"delete_run", "give_back", "discard"} :
          /\ DOMAIN To(w, step) = Fields /\ To(w, step).step = step
          /\ To(w, step).import = job[w].import /\ To(w, step).targets = job[w].targets
          /\ To(w, step).then = job[w].then
  BY <1>1 DEF To, Fields
<1>5. CASE Measure(w) \/ DeletePages(w)
  <2> DEFINE measured == [To(w, "delete_pages") EXCEPT !.sum = Len(rows[job[w].import])]
  <2>1. PICK next : job' = [job EXCEPT ![w] = next] /\ next \in {measured, To(w, "delete_run"), Idle}
    BY <1>5 DEF Measure, DeletePages, Access, Become, Cancellable
  <2>2. /\ DOMAIN measured = Fields /\ measured.step = "delete_pages"
        /\ measured.import = job[w].import /\ measured.targets = job[w].targets
        /\ measured.then = job[w].then
    BY <1>1 DEF To, Fields
  <2> HIDE DEF measured
  <2>3. /\ DOMAIN next = Fields /\ next.targets \subseteq job[w].targets
        /\ \/ next.step = "idle"
           \/ /\ next.step \in Settling /\ next.import = job[w].import
              /\ next.then = job[w].then
    BY <1>4, <2>1, <2>2, IdleShape DEF Settling
  <2>4. UNCHANGED run /\ job[w].step \in Settling
    BY <1>5 DEF Measure, DeletePages, Access, Read, SetRows, tables, At, Settling
  <2>5. /\ run[job[w].import].state \in {"running", "discarding", "gone"}
        /\ \A v \in Workers \ {w} : Owns(v) => job[v].import # job[w].import
    BY <2>4 DEF IInv, Removed
  <2>6. CASE next.step = "idle"
    <3>1. Respects(w, next)
      BY <2>1, <2>3, <2>4, <2>6, QuietRespects DEF Owning, Settling
    <3> QED
      BY <1>1, <1>2, <3>1, RespectfulKeeps
  <2>7. CASE next.step # "idle"
    <3>1. /\ DOMAIN run' = Imports /\ \A i \in Imports : DOMAIN run'[i] = {"state", "source"}
          /\ \A t \in next.targets :
                /\ t[1] \in Imports
                /\ t[2] = "discarding" => run'[t[1]].state \in {"discarding", "gone"}
          /\ \A v \in Workers \ {w} :
                /\ Owns(v) => run'[job[v].import].state = "running"
                /\ job[v].step \in Settling
                      => run'[job[v].import].state \in {"running", "discarding", "gone"}
      BY <2>3, <2>4 DEF IInv, Shape, Discarded, OneOwner, Removed
    <3>2. Respects(w, next)
      BY <1>3, <2>1, <2>3, <2>4, <2>5, <2>7, <3>1 DEF Respects, Owning, Settling
    <3> QED
      BY <1>1, <1>2, <3>2, RespectfulKeeps
  <2> QED
    BY <2>6, <2>7
<1>6. CASE DeleteRun(w)
  <2>1. PICK next \in {To(w, "give_back"), Idle} : job' = [job EXCEPT ![w] = next]
    BY <1>6 DEF DeleteRun, Access, Become, Cancellable
  <2>2. UNCHANGED run \/ run' = [run EXCEPT ![job[w].import] = Gone]
    BY <1>6 DEF DeleteRun, Access, tables
  <2>3. /\ DOMAIN next = Fields /\ next.targets \subseteq job[w].targets
        /\ \/ next.step = "idle"
           \/ /\ next.step = "give_back" /\ next.import = job[w].import
              /\ next.then = job[w].then
    BY <1>4, IdleShape
  <2>4. CASE UNCHANGED run
    <3>1. Respects(w, next)
      BY <1>3, <2>1, <2>3, <2>4, QuietRespects DEF Owning, Settling
    <3> QED
      BY <1>1, <1>2, <3>1, RespectfulKeeps
  <2>5. CASE run' = [run EXCEPT ![job[w].import] = Gone]
    <3>1. /\ DOMAIN run' = Imports /\ DOMAIN run'[job[w].import] = {"state", "source"}
          /\ \A k \in Imports \ {job[w].import} : run'[k] = run[k]
          /\ run'[job[w].import].state = "gone"
      BY <1>3, <2>5 DEF IInv, Shape, Gone
    <3>2. \A v \in Workers \ {w} : Owns(v) => job[v].import # job[w].import
      BY <1>6 DEF IInv, Removed, DeleteRun, At, Settling
    <3>3. Respects(w, next)
      BY <1>3, <2>1, <2>3, <3>1, <3>2, OthersUntouched DEF Respects, Owning, Settling
    <3> QED
      BY <1>1, <1>2, <3>3, RespectfulKeeps
  <2> QED
    BY <2>2, <2>4, <2>5
<1>7. CASE GiveBack(w)
  <2> DEFINE adding == [To(w, "add_up") EXCEPT !.again = TRUE]
  <2>1. PICK next : /\ job' = [job EXCEPT ![w] = next]
                    /\ \/ next \in {To(w, "discard"), Idle}
                       \/ next = adding /\ job[w].then = "rebuild"
    BY <1>7 DEF GiveBack, Access, Become, Cancellable
  <2>2. DOMAIN adding = Fields /\ adding.step = "add_up"
        /\ adding.import = job[w].import /\ adding.targets = job[w].targets
    BY <1>1 DEF To, Fields
  <2> HIDE DEF adding
  <2>3. /\ DOMAIN next = Fields /\ next.targets \subseteq job[w].targets
        /\ \/ next.step \in {"idle", "discard"}
           \/ next.step = "add_up" /\ next.import = job[w].import /\ w # Startup
    BY <1>3, <1>4, <2>1, <2>2, IdleShape
  <2>4. UNCHANGED run
    BY <1>7 DEF GiveBack, Access, SetReserved, tables
  <2>5. Respects(w, next)
    BY <1>3, <2>1, <2>3, <2>4, QuietRespects DEF Owning, Settling
  <2> QED
    BY <1>1, <1>2, <2>5, RespectfulKeeps
<1> QED
  BY <1>5, <1>6, <1>7 DEF Finishing

-----------------------------------------------------------------------------
(* Calls come and are cancelled; the process dies and starts again.         *)
LEMMA CallsKeep ==
    ASSUME IInv, NEW j \in Jobs, Cancel(j) \/ \E kind \in setup.kinds : Start(j, kind)
    PROVE  IInv'
<1>1. j \in Workers /\ UNCHANGED run /\ UNCHANGED phase /\ DOMAIN job[j] = Fields /\ j # Startup
  BY FrontierAssumption DEF Cancel, Start, tables, Workers, IInv, Shape
<1>2. phase = "up"
  BY DEF Cancel, Start, IInv, Serving
<1>3. ASSUME Cancel(j) PROVE IInv'
  <2> DEFINE next == [job[j] EXCEPT !.cancelled = TRUE]
  <2>1. /\ job' = [job EXCEPT ![j] = next] /\ DOMAIN next = Fields
        /\ next.step = job[j].step /\ next.import = job[j].import
        /\ next.targets = job[j].targets
    BY <1>1, <1>3 DEF Cancel, Become, Fields
  <2> HIDE DEF next
  <2>2. next.step \in Owning => Owns(j)
    BY <2>1 DEF Owns, Owning
  <2>3. /\ DOMAIN run' = Imports /\ \A i \in Imports : DOMAIN run'[i] = {"state", "source"}
        /\ \A t \in next.targets :
              /\ t[1] \in Imports
              /\ t[2] = "discarding" => run'[t[1]].state \in {"discarding", "gone"}
        /\ \A v \in Workers :
              /\ Owns(v) => run'[job[v].import].state = "running"
              /\ job[v].step \in Settling
                    => run'[job[v].import].state \in {"running", "discarding", "gone"}
    BY <1>1, <2>1 DEF IInv, Shape, Discarded, OneOwner, Removed
  <2>4. Owns(j) => \A v \in Workers \ {j} :
            Owns(v) \/ job[v].step \in Settling => job[v].import # job[j].import
    BY <1>1 DEF IInv, OneOwner, Removed
  <2>5. job[j].step \in Settling =>
            \A v \in Workers \ {j} : Owns(v) => job[v].import # job[j].import
    BY <1>1 DEF IInv, Removed
  <2>6. next.step \in Owning \cup Settling \cup
            {"lookup", "claim", "give_back", "add_up", "write_up"} => next.import \in Imports
    BY <1>1, <2>1 DEF IInv, Shape
  <2>7. Respects(j, next)
    BY <1>1, <2>1, <2>2, <2>3, <2>4, <2>5, <2>6 DEF Respects
  <2> QED
    BY <1>1, <1>2, <2>7, RespectfulKeeps
<1>4. ASSUME NEW kind, Start(j, kind) PROVE IInv'
  <2> DEFINE find(s) == [Idle EXCEPT !.step = "find", !.kind = kind, !.source = s]
             lookup(i) == [Idle EXCEPT !.step = "lookup", !.kind = kind,
                                       !.source = run[i].source, !.import = i]
  <2>1. \/ \E s : job' = [job EXCEPT ![j] = find(s)]
        \/ \E i \in Imports : job' = [job EXCEPT ![j] = lookup(i)]
    BY <1>4 DEF Start, Become
  <2>2. /\ \A s : DOMAIN find(s) = Fields /\ find(s).step = "find" /\ find(s).targets = {}
        /\ \A i : DOMAIN lookup(i) = Fields /\ lookup(i).step = "lookup"
                  /\ lookup(i).targets = {} /\ lookup(i).import = i
    BY IdleShape DEF Fields
  <2> HIDE DEF find, lookup
  <2>3. PICK next : /\ job' = [job EXCEPT ![j] = next] /\ DOMAIN next = Fields
                    /\ next.targets = {}
                    /\ next.step = "find" \/ (next.step = "lookup" /\ next.import \in Imports)
    BY <2>1, <2>2
  <2>4. Respects(j, next)
    BY <1>1, <2>3, QuietRespects DEF Owning, Settling
  <2> QED
    BY <1>1, <1>2, <2>4, RespectfulKeeps
<1> QED
  BY <1>3, <1>4

(* While nobody but the recovery is at work, nobody owns anything.          *)
LEMMA AloneKeeps ==
    ASSUME Serving', DOMAIN job' = Workers, \A w \in Workers : DOMAIN job'[w] = Fields,
           DOMAIN run' = Imports, \A i \in Imports : DOMAIN run'[i] = {"state", "source"},
           \A j \in Jobs : job'[j] = Idle,
           job'[Startup].step \in {"idle", "recover_runs", "recover_pages", "list"},
           \A t \in job'[Startup].targets :
               t[1] \in Imports /\ (t[2] = "discarding" => run'[t[1]].state \in {"discarding", "gone"})
    PROVE  IInv'
<1>1. \A w \in Workers :
          /\ job'[w].step \in {"idle", "recover_runs", "recover_pages", "list"}
          /\ ~Owns(w)'
          /\ \A t \in job'[w].targets :
                t[1] \in Imports /\ (t[2] = "discarding" => run'[t[1]].state \in {"discarding", "gone"})
  BY IdleShape DEF Workers, Owns
<1>2. Shape' /\ Discarded' /\ Removed' /\ OneOwner'
  BY <1>1 DEF Shape, Discarded, Removed, OneOwner, Owning, Settling
<1> QED
  BY <1>2 DEF IInv

(* After a crash nobody works; the recovery finds every run to itself and   *)
(* opens the site when it has nothing left to do.                           *)
LEMMA ProcessKeeps ==
    ASSUME IInv, Crash \/ Boot \/ Recovered \/ RecoverRuns \/ RecoverPages PROVE IInv'
<1>1. Startup \in Workers /\ Startup \notin Jobs /\ DOMAIN job = Workers
      /\ \A w \in Workers : DOMAIN job[w] = Fields
  BY FrontierAssumption DEF Workers, IInv, Shape
<1>2. CASE Crash
  <2>1. \A w \in Workers : job'[w] = Idle
    BY <1>2 DEF Crash
  <2>2. DOMAIN job' = Workers /\ UNCHANGED run /\ phase' = "down"
    BY <1>2 DEF Crash, tables
  <2>3. Serving'
    BY <1>1, <2>1, <2>2, IdleShape DEF Serving, Workers, Settling
  <2> QED
    BY <1>1, <2>1, <2>2, <2>3, IdleShape, AloneKeeps DEF IInv, Shape, Workers
<1>3. CASE Boot
  <2> DEFINE next == [Idle EXCEPT !.step = "recover_runs"]
  <2>1. job' = [job EXCEPT ![Startup] = next] /\ UNCHANGED run
        /\ phase = "down" /\ phase' = "recovering"
    BY <1>3 DEF Boot, Become, tables
  <2>2. DOMAIN next = Fields /\ next.step = "recover_runs" /\ next.targets = {}
    BY IdleShape DEF Fields
  <2> HIDE DEF next
  <2>3. \A j \in Jobs : job'[j] = Idle
    BY <1>1, <2>1 DEF IInv, Serving, Workers
  <2>4. Serving'
    BY <1>1, <2>1, <2>2, <2>3 DEF Serving, Settling
  <2> QED
    BY <1>1, <2>1, <2>2, <2>3, <2>4, IdleShape, AloneKeeps DEF IInv, Shape
<1>4. CASE Recovered
  <2>1. job' = [job EXCEPT ![Startup] = Idle] /\ UNCHANGED run /\ phase = "recovering"
        /\ phase' \in {"up", "down"}
    BY <1>4 DEF Recovered, Become, tables
  <2>2. \A w \in Workers : job'[w] = Idle
    BY <1>1, <2>1 DEF IInv, Serving, Workers
  <2>3. Serving'
    BY <1>1, <2>1, <2>2, IdleShape DEF Serving, Settling, Workers
  <2> QED
    BY <1>1, <2>1, <2>2, <2>3, IdleShape, AloneKeeps DEF IInv, Shape, Workers
<1>5. CASE RecoverRuns \/ RecoverPages
  <2>1. /\ UNCHANGED phase /\ phase = "recovering"
        /\ job[Startup].step \in {"recover_runs", "recover_pages"}
    <3>1. job[Startup].step \in {"recover_runs", "recover_pages"} /\ phase # "down"
      BY <1>5 DEF RecoverRuns, RecoverPages, At
    <3>2. phase # "up"
      BY <3>1, IdleShape DEF IInv, Serving
    <3> QED
      BY <1>5, <3>1, <3>2 DEF RecoverRuns, RecoverPages, Frame, IInv, Serving
  <2>2. PICK next \in {To(Startup, "recover_pages"), To(Startup, "list"), Idle} :
            job' = [job EXCEPT ![Startup] = next]
    BY <1>1, <1>5 DEF RecoverRuns, RecoverPages, Access, Become, Cancellable
  <2>3. /\ DOMAIN next = Fields /\ next.step \in {"idle", "recover_pages", "list"}
        /\ next.targets \in {{}, job[Startup].targets}
    BY <1>1, IdleShape DEF To, Fields
  <2>4. /\ DOMAIN run' = Imports
        /\ \A i \in Imports : /\ DOMAIN run'[i] = {"state", "source"}
                              /\ run[i].state \in {"discarding", "gone"} => run'[i] = run[i]
    <3>1. UNCHANGED run \/ run' = [i \in Imports |->
              IF Interrupted(i) THEN [run[i] EXCEPT !.state = "partial"] ELSE run[i]]
      BY <1>5 DEF RecoverRuns, RecoverPages, Access, SetRows, tables
    <3> QED
      BY <3>1 DEF Interrupted, IInv, Shape
  <2>5. \A j \in Jobs : job'[j] = Idle
    BY <1>1, <2>1, <2>2 DEF IInv, Serving, Workers
  <2>6. Serving'
    BY <1>1, <2>1, <2>2, <2>3, <2>5 DEF Serving, Settling
  <2>7. \A t \in next.targets :
            t[1] \in Imports /\ (t[2] = "discarding" => run'[t[1]].state \in {"discarding", "gone"})
    BY <1>1, <2>3, <2>4 DEF IInv, Discarded
  <2> QED
    BY <1>1, <2>2, <2>3, <2>4, <2>5, <2>6, <2>7, IdleShape, AloneKeeps
<1> QED
  BY <1>2, <1>3, <1>4, <1>5

-----------------------------------------------------------------------------
(* Nobody owns anything at first.                                           *)
LEMMA InitIInv == Init => IInv
<1> SUFFICES ASSUME Init PROVE IInv
    OBVIOUS
<1>1. \A w \in Workers : job[w] = Idle
  BY DEF Init
<1>2. Startup \in Workers
  BY DEF Workers
<1>3. Shape
  BY <1>1, IdleShape DEF Init, Shape, Owning, Settling
<1>4. Serving
  BY <1>1, <1>2, IdleShape DEF Init, Serving, Settling, Workers
<1>5. Discarded /\ Removed /\ OneOwner
  BY <1>1, IdleShape DEF Discarded, Removed, OneOwner, Owns, Settling
<1> QED
  BY <1>3, <1>4, <1>5 DEF IInv

(* Every step of every worker keeps the invariant.                          *)
LEMMA NextIInv == IInv /\ [Next]_vars => IInv'
<1> SUFFICES ASSUME IInv, [Next]_vars PROVE IInv'
    OBVIOUS
<1>1. ASSUME NEW w \in Workers, JobStep(w) PROVE IInv'
  BY <1>1, LookingKeeps, TakingKeeps, DiscardKeeps, FinishingKeeps, EnqueuingKeeps,
     PreparingKeeps, WritingKeeps, AddingUpKeeps DEF JobStep, Opening, Concluding
<1>2. CASE StartupStep \/ Outside
  BY <1>2, ProcessKeeps, CallsKeep DEF StartupStep, Outside
<1>3. CASE UNCHANGED vars
  <2>1. UNCHANGED run /\ UNCHANGED job /\ UNCHANGED phase
    BY <1>3 DEF vars, tables
  <2>2. \A w \in Workers : Owns(w)' = Owns(w)
    BY <2>1 DEF Owns
  <2>3. Shape' /\ Serving' /\ Discarded'
    BY <2>1 DEF IInv, Shape, Serving, Discarded
  <2>4. Removed' /\ OneOwner'
    BY <2>1, <2>2 DEF IInv, Removed, OneOwner
  <2> QED
    BY <2>3, <2>4 DEF IInv
<1> QED
  BY <1>1, <1>2, <1>3 DEF Next

(* The inductive invariant of importing: who holds which run, from its claim*)
(* or creation to its removal, and what the recovery may meet.              *)
THEOREM InductiveInvariant == Spec => []IInv
<1>1. Init => IInv
  BY InitIInv
<1>2. IInv /\ [Next]_vars => IInv'
  BY NextIInv
<1> QED
  BY <1>1, <1>2, PTL DEF Spec

(* No two calls ever work on the same run, whatever is resumed, discarded,  *)
(* cancelled or recovered (ClaimImportFrontier, DiscardPartialImportFrontiers,*)
(* FinishImportFrontier, RecoverImportFrontiers).                           *)
THEOREM OneOwnerAlways == Spec => []OneOwner
<1>1. IInv => OneOwner
  BY DEF IInv
<1> QED
  BY <1>1, InductiveInvariant, PTL

-----------------------------------------------------------------------------
(* What the queue of an import holds *)

States == {"pending", "processing", "done"}
Fates  == {"none", "stored", "failed", "cut", "skipped"}
Row    == [page : Pages, state : States, cursor : Nat]

(* The pages of a table, those whose visit failed, and whether the links of *)
(* a page up to the n-th are in the table.                                  *)
Paged(t) == {t[k].page : k \in DOMAIN t}
Cut(f)   == {p \in Pages : f[p] \in {"failed", "cut"}}
Covers(t, L, p, n) == \A x \in 1..n : L[p][x] \in Paged(t)
AllDone(t) == t # <<>> /\ \A k \in DOMAIN t : t[k].state = "done"

(* A row, in a table t of an import whose pages have the fates f and the    *)
(* links L: a page that is done has a fate, one whose visit failed is done. *)
RowOK(e, t, f, L) ==
    /\ e.cursor <= Len(L[e.page])
    /\ e.state # "done" => Covers(t, L, e.page, e.cursor)
    /\ e.state = "done" => /\ f[e.page] # "none"
                           /\ e.page \in Cut(f) \/ Covers(t, L, e.page, Len(L[e.page]))
    /\ e.page \in Cut(f) => e.state = "done"
Table(t, f, L) ==
    /\ t \in Seq(Row) /\ f \in [Pages -> Fates]
    /\ \A k, l \in DOMAIN t : t[k].page = t[l].page => k = l
    /\ \A k \in DOMAIN t : RowOK(t[k], t, f, L)
    /\ t = <<>> \/ Cut(f) \subseteq Paged(t)

Linking  == {"exists", "reserve", "insert", "refund"}
Visiting == Linking \cup {"page", "adopt", "give_up", "advance"}
Written  == {"mark", "stats", "detect", "preserve"}
Writing  == {"services", "persist"} \cup Written
Collected(r) == r.buffer \cup Range(r.completed)

(* The batch of a call: pages of the table, each once; what is completed has*)
(* all its links in the table, and is stored or about to be.                *)
BatchOK(r, t, f, L) ==
    /\ r.at \in Nat /\ r.cursor \in Nat /\ r.buffer \subseteq Pages
    /\ r.queue \in Seq(Pages) /\ r.completed \in Seq(Pages)
    /\ Range(r.queue) \subseteq Paged(t)
    /\ \A m, n \in DOMAIN r.queue : r.queue[m] = r.queue[n] => m = n
    /\ Collected(r) \cap Cut(f) = {}
    /\ \A p \in Range(r.completed) : Covers(t, L, p, Len(L[p])) /\ (p \in r.buffer \/ f[p] # "none")
    /\ Collected(r) \subseteq Range(r.queue)

(* The pages of the batch that are still to be visited did not fail.        *)
Ahead(r, f) ==
    /\ r.at \in DOMAIN r.queue
    /\ \A k \in r.at..Len(r.queue) :
          /\ r.queue[k] \notin Cut(f)
          /\ r.queue[k] \in Collected(r) => k = r.at /\ r.step = "advance"

(* A page that is visited: the links before the cursor are in the table.    *)
LinkOK(r, t, f, L) ==
    LET p == r.queue[r.at] IN
    /\ r.cursor <= Len(L[p]) /\ Covers(t, L, p, r.cursor)
    /\ \A k \in DOMAIN t : t[k].page = p => t[k].cursor = 0 \/ f[p] # "none"
    /\ r.step \in Linking \cup {"adopt"} => r.cursor < Len(L[p])
    /\ r.step \in {"reserve", "insert"} => L[p][r.cursor + 1] \notin Paged(t)
    /\ r.step = "adopt" => L[p][r.cursor + 1] \in Paged(t) \ (Range(r.queue) \cup Cut(f))

(* What a call relies on while it owns an import.                           *)
Works(r, t, f, L) ==
    /\ BatchOK(r, t, f, L)
    /\ r.step = "select" => r.queue = <<>>
    /\ r.step = "take" => /\ r.at \in DOMAIN r.queue /\ Collected(r) = {}
                          /\ Range(r.queue) \cap Cut(f) = {}
                          /\ \A k \in r.at..Len(r.queue) : \E l \in DOMAIN t :
                                t[l].page = r.queue[k] /\ t[l].state = "pending"
    /\ r.step \in Linking \ {"refund"} /\ r.queue = <<>> => t = <<>> /\ Cut(f) = {}
    /\ r.step \in Visiting \ Linking => r.queue # <<>>
    /\ r.step \in Visiting /\ r.queue # <<>> => Ahead(r, f)
    /\ r.step \in Linking \cup {"adopt", "advance"} /\ r.queue # <<>> => LinkOK(r, t, f, L)
    /\ r.step = "release" => r.error \/ r.queue # <<>>
    /\ r.step \in Writing => r.queue # <<>>
    /\ r.step \in Written => \A p \in Range(r.completed) : f[p] # "none"
    /\ r.step = "mark" => r.at \in DOMAIN r.completed
    /\ r.step = "preserve" => r.completed # <<>>
    /\ r.step = "detect" => AllDone(t) /\ r.then = "rebuild"

(* Before it owns an import a call has no batch.                            *)
Blank(r) == r.queue = <<>> /\ r.buffer = {} /\ r.completed = <<>> /\ r.cursor = 0 /\ r.at = 1
Opens(r) ==
    \/ r.step \in {"find", "list", "discard", "lookup", "claim", "recover_runs", "recover_pages"}
    \/ r.step \in Settling \cup {"give_back"} /\ r.then = "discard"
Summed     == {"delete_pages", "delete_run", "give_back", "write_up"}
RunStates  == {"unused", "partial", "running", "discarding", "gone"}
Rooting(r) == r.queue = <<>> /\ r.step \in Linking

(* An import x with table t and fates f, in setup s.                        *)
ImportFine(x, t, f, s) ==
    /\ Table(t, f, s.links) /\ x.state \in RunStates
    /\ x.state = "unused" => t = <<>> /\ Cut(f) = {}
    /\ x.state \notin {"unused", "gone"} =>
          x.source \in Sources /\ (t = <<>> \/ s.root[x.source] \in Paged(t))

(* A worker with record r, whose import is x.                               *)
JobFine(w, r, x, t, f, s) ==
    /\ w \in Jobs => r.step = "idle" \/ r.source \in Sources
    /\ Opens(r) => Blank(r)
    /\ w \in Jobs /\ r.step \in Owning => /\ Works(r, t, f, s.links)
                                          /\ Rooting(r) => x.source = r.source
    /\ r.step \in Settling => IF r.then = "discard" THEN x.state \in {"discarding", "gone"}
                              ELSE x.state = "running"
    /\ r.step = "measure" /\ r.then = "rebuild" => AllDone(t)
    /\ r.import \in Imports \cup {0} /\ (r.step \in Summed => r.sum \in Nat)

(* A run that is finished is removed by one worker only.                    *)
Finisher(r)   == r.step \in Settling /\ r.then # "discard"
Apart(r, q)   == (Finisher(r) /\ q.step \in Settling) \/ (Finisher(q) /\ r.step \in Settling)
                     => r.import # q.import
Finishers     == \A v, w \in Workers : v # w => Apart(job[v], job[w])

TableInv ==
    /\ setup \in Setups /\ DOMAIN rows = Imports /\ DOMAIN fate = Imports
    /\ \A i \in Imports : ImportFine(run[i], rows[i], fate[i], setup)
    /\ \A w \in Workers :
          LET i == job[w].import IN JobFine(w, job[w], run[i], rows[i], fate[i], setup)
    /\ Finishers

-----------------------------------------------------------------------------
(* What a table becomes *)

Linked(L) == L \in [Pages -> Seq(Pages)]

(* A page with no row gets one.                                             *)
LEMMA Appending ==
    ASSUME NEW L, Linked(L), NEW t, NEW f, Table(t, f, L), NEW p \in Pages, p \notin Paged(t),
           t = <<>> => Cut(f) = {}
    PROVE  LET u == Append(t, Entry(p)) IN
           Table(u, f, L) /\ Paged(u) = Paged(t) \cup {p} /\ u # <<>>
                          /\ DOMAIN u = 1..(Len(t) + 1)
                          /\ \A k \in DOMAIN t : u[k] = t[k]
<1> DEFINE e == Entry(p)
           u == Append(t, e)
<1>1. e \in Row /\ e.page = p /\ e.state = "pending" /\ e.cursor = 0
  BY DEF Entry, Row, States
<1> HIDE DEF e
<1>2. t \in Seq(Row) BY DEF Table
<1>3. /\ u \in Seq(Row) /\ DOMAIN u = 1..(Len(t) + 1) /\ DOMAIN t = 1..Len(t) /\ Len(t) \in Nat
      /\ u[Len(t) + 1] = e /\ \A k \in DOMAIN t : u[k] = t[k] /\ k \in DOMAIN u
      /\ u # <<>>
  BY <1>1, <1>2, AppendProperties, LenProperties
<1>4. \A k \in DOMAIN u : (k \in DOMAIN t /\ u[k] = t[k]) \/ (k = Len(t) + 1 /\ u[k] = e)
  BY <1>3
<1> HIDE DEF u
<1>5. Paged(u) = Paged(t) \cup {p}
  BY <1>1, <1>3, <1>4 DEF Paged
<1>6. \A k, l \in DOMAIN u : u[k].page = u[l].page => k = l
  BY <1>1, <1>3, <1>4 DEF Paged, Table
<1>7. \A k \in DOMAIN u : RowOK(u[k], u, f, L)
  <2> SUFFICES ASSUME NEW k \in DOMAIN u PROVE RowOK(u[k], u, f, L) OBVIOUS
  <2>1. CASE k \in DOMAIN t /\ u[k] = t[k]
    BY <1>5, <2>1 DEF Table, RowOK, Covers
  <2>2. CASE u[k] = e
    <3>1. p \notin Cut(f) BY DEF Table
    <3>2. Len(L[p]) \in Nat BY LenProperties DEF Linked
    <3> QED BY <1>1, <2>2, <3>1, <3>2 DEF RowOK, Covers
  <2> QED BY <1>4, <2>1, <2>2
<1>8. Cut(f) \subseteq Paged(u) BY <1>5 DEF Table
<1>9. Table(u, f, L) BY <1>3, <1>6, <1>7, <1>8 DEF Table
<1> QED BY <1>3, <1>5, <1>9 DEF u, e

(* A table whose rows are rewritten, each for the same page.                *)
LEMMA Rewriting ==
    ASSUME NEW L, NEW t, NEW f, Table(t, f, L), NEW u, u = [k \in DOMAIN t |-> u[k]],
           NEW g, g \in [Pages -> Fates], t = <<>> \/ Cut(g) \subseteq Paged(t),
           \A k \in DOMAIN t : u[k] \in Row /\ u[k].page = t[k].page /\ RowOK(u[k], t, g, L)
    PROVE  /\ Table(u, g, L) /\ Paged(u) = Paged(t) /\ DOMAIN u = DOMAIN t
           /\ t # <<>> => u # <<>>
<1>1. t \in Seq(Row) /\ DOMAIN t = 1..Len(t) /\ Len(t) \in Nat
  BY LenProperties DEF Table
<1>2. DOMAIN u = DOMAIN t OBVIOUS
<1>3. u \in [1..Len(t) -> Row] BY <1>1
<1>4. u \in Seq(Row) BY <1>1, <1>3, SeqDef
<1>5. Paged(u) = Paged(t) BY <1>2 DEF Paged
<1>6. t = <<>> => u = <<>> BY <1>1, <1>2, <1>4, LenProperties, EmptySeq
<1>7. t # <<>> => u # <<>> BY <1>1, <1>2, <1>4, LenProperties, EmptySeq
<1>8. \A k \in DOMAIN u : RowOK(u[k], u, g, L) BY <1>2, <1>5 DEF RowOK, Covers
<1>9. \A k, l \in DOMAIN u : u[k].page = u[l].page => k = l BY <1>2 DEF Table
<1> QED BY <1>2, <1>4, <1>5, <1>6, <1>7, <1>8, <1>9 DEF Table

(* The row of a page is written.                                            *)
RowSet(t, p, s, c) == [k \in DOMAIN t |-> IF t[k].page = p
                          THEN [t[k] EXCEPT !.state = s, !.cursor = c] ELSE t[k]]
(* A row that is written keeps the table in order.                          *)
LEMMA SettingRow ==
    ASSUME NEW L, NEW t, NEW f, Table(t, f, L), NEW p \in Pages, NEW s \in States, NEW c \in Nat,
           c <= Len(L[p]),
           s # "done" => Covers(t, L, p, c) /\ p \notin Cut(f),
           s = "done" => f[p] # "none" /\ Covers(t, L, p, Len(L[p]))
    PROVE  LET u == RowSet(t, p, s, c) IN
           /\ Table(u, f, L) /\ Paged(u) = Paged(t) /\ DOMAIN u = DOMAIN t /\ (t # <<>> => u # <<>>)
           /\ \A k \in DOMAIN t : IF t[k].page = p
                 THEN u[k].page = p /\ u[k].state = s /\ u[k].cursor = c ELSE u[k] = t[k]
<1> DEFINE u == RowSet(t, p, s, c)
<1>1. \A k \in DOMAIN t : t[k] \in Row
  BY ElementOfSeq, LenProperties DEF Table
<1>2. u = [k \in DOMAIN t |-> u[k]] BY DEF RowSet
<1>3. \A k \in DOMAIN t : IF t[k].page = p
         THEN u[k].page = p /\ u[k].state = s /\ u[k].cursor = c /\ u[k] \in Row ELSE u[k] = t[k]
  BY <1>1 DEF RowSet, Row
<1> HIDE DEF u
<1>4. \A k \in DOMAIN t : u[k] \in Row /\ u[k].page = t[k].page /\ RowOK(u[k], t, f, L)
  BY <1>1, <1>3 DEF RowOK, Table, Covers, Cut
<1>5. t = <<>> \/ Cut(f) \subseteq Paged(t) BY DEF Table
<1>6. f \in [Pages -> Fates] BY DEF Table
<1>7. Table(u, f, L) /\ Paged(u) = Paged(t) /\ DOMAIN u = DOMAIN t /\ (t # <<>> => u # <<>>)
  BY <1>2, <1>4, <1>5, <1>6, Rewriting
<1> QED BY <1>3, <1>7 DEF u

(* A page is given up.                                                      *)
RowDone(t, p) == [k \in DOMAIN t |-> IF t[k].page = p THEN [t[k] EXCEPT !.state = "done"] ELSE t[k]]
(* So does a page that is given up, which is cut off from then on.          *)
LEMMA GivingUp ==
    ASSUME NEW L, NEW t, NEW f, Table(t, f, L), NEW p \in Paged(t), p \in Pages,
           NEW u, u = RowDone(t, p), NEW g, g \in [Pages -> Fates], g[p] \in {"failed", "cut"},
           \A q \in Pages \ {p} : g[q] = f[q]
    PROVE  /\ Table(u, g, L) /\ Paged(u) = Paged(t) /\ DOMAIN u = DOMAIN t /\ (t # <<>> => u # <<>>)
           /\ Cut(g) = Cut(f) \cup {p} /\ \A q \in Pages : g[q] = "none" => f[q] = "none"
           /\ \A k \in DOMAIN t : u[k].page = t[k].page /\ u[k].cursor = t[k].cursor
<1>1. \A k \in DOMAIN t : t[k] \in Row
  BY ElementOfSeq, LenProperties DEF Table
<1>2. u = [k \in DOMAIN t |-> u[k]] BY DEF RowDone
<1>3. \A k \in DOMAIN t : IF t[k].page = p
         THEN u[k].page = p /\ u[k].state = "done" /\ u[k].cursor = t[k].cursor /\ u[k] \in Row
         ELSE u[k] = t[k]
  BY <1>1 DEF RowDone, Row, States
<1>6. Cut(g) = Cut(f) \cup {p} BY DEF Cut
<1>7. \A k \in DOMAIN t : u[k] \in Row /\ u[k].page = t[k].page /\ RowOK(u[k], t, g, L)
  <2> SUFFICES ASSUME NEW k \in DOMAIN t
               PROVE  u[k] \in Row /\ u[k].page = t[k].page /\ RowOK(u[k], t, g, L) OBVIOUS
  <2>1. RowOK(t[k], t, f, L) /\ t[k].page \in Pages BY <1>1 DEF Table, Row
  <2>2. CASE t[k].page = p BY <1>1, <1>3, <1>6, <2>1, <2>2 DEF RowOK
  <2>3. CASE t[k].page # p BY <1>1, <1>3, <1>6, <2>1, <2>3 DEF RowOK
  <2> QED BY <2>2, <2>3
<1>8. t = <<>> \/ Cut(g) \subseteq Paged(t) BY <1>6 DEF Table
<1>9. Table(u, g, L) /\ Paged(u) = Paged(t) /\ DOMAIN u = DOMAIN t /\ (t # <<>> => u # <<>>)
  <2> QED BY <1>2, <1>7, <1>8, Rewriting
<1>10. \A q \in Pages : g[q] = "none" => f[q] = "none" OBVIOUS
<1> QED BY <1>3, <1>6, <1>7, <1>9, <1>10

(* Pages get a better fate: none of them failed, and none is without one.   *)
LEMMA Faring ==
    ASSUME NEW L, NEW t, NEW f, Table(t, f, L), NEW g, g \in [Pages -> Fates], Cut(g) = Cut(f),
           \A q \in Pages : g[q] = "none" => f[q] = "none"
    PROVE  Table(t, g, L)
<1>1. \A k \in DOMAIN t : t[k] \in Row
  BY ElementOfSeq, LenProperties DEF Table
<1>2. \A k \in DOMAIN t : RowOK(t[k], t, g, L) BY <1>1 DEF Table, RowOK, Row
<1> QED BY <1>2 DEF Table

(* Claimed rows are released.                                               *)
LEMMA Releasing ==
    ASSUME NEW L, NEW t, NEW f, Table(t, f, L)
    PROVE  /\ Table(Released(t), f, L) /\ Paged(Released(t)) = Paged(t)
           /\ t # <<>> => Released(t) # <<>>
<1> DEFINE u == Released(t)
<1>1. \A k \in DOMAIN t : t[k] \in Row
  BY ElementOfSeq, LenProperties DEF Table
<1>2. u = [k \in DOMAIN t |-> u[k]] BY DEF Released
<1>3. \A k \in DOMAIN t :
          /\ u[k] \in Row /\ u[k].page = t[k].page /\ u[k].cursor = t[k].cursor
          /\ u[k].state = "done" <=> t[k].state = "done"
  BY <1>1 DEF Released, ToPending, Row, States
<1> HIDE DEF u
<1>4. \A k \in DOMAIN t : RowOK(u[k], t, f, L) BY <1>3 DEF RowOK, Table
<1>5. (t = <<>> \/ Cut(f) \subseteq Paged(t)) /\ f \in [Pages -> Fates] BY DEF Table
<1>6. Table(u, f, L) /\ Paged(u) = Paged(t) /\ (t # <<>> => u # <<>>)
  BY <1>2, <1>3, <1>4, <1>5, Rewriting
<1> QED BY <1>6 DEF u

-----------------------------------------------------------------------------
(* What a call goes on with *)

(* What may follow the record r of a call that owns an import: nothing, more*)
(* work on the import, its removal, or the addition of the quota.           *)
Suits(r, next, t, f, L) ==
    \/ next = Idle
    \/ /\ DOMAIN next = Fields /\ next.import = r.import /\ next.source = r.source
       /\ \/ next.step \in Owning /\ Works(next, t, f, L) /\ (Rooting(next) => Rooting(r))
          \/ /\ next.step = "measure" /\ next.then \in {"end", "rebuild"}
             /\ next.then = "rebuild" => AllDone(t)
          \/ next.step = "add_up"

(* A call in the middle of its batch, at a page whose links before the      *)
(* cursor are in the table.                                                 *)
Visits(r, t, f, L) ==
    LET p == r.queue[r.at] IN
    /\ DOMAIN r = Fields /\ BatchOK(r, t, f, L) /\ r.at \in DOMAIN r.queue
    /\ \A k \in r.at..Len(r.queue) : r.queue[k] \notin Cut(f) /\ r.queue[k] \notin Collected(r)
    /\ r.cursor <= Len(L[p]) /\ Covers(t, L, p, r.cursor)
    /\ \A k \in DOMAIN t : t[k].page = p => t[k].cursor = 0 \/ f[p] # "none"

(* What a batch relies on stays true while the table grows.                 *)
LEMMA BatchGrows ==
    ASSUME NEW L, NEW r, NEW t, NEW f, BatchOK(r, t, f, L), NEW u, Paged(t) \subseteq Paged(u),
           NEW g, Collected(r) \cap Cut(g) = {}, \A q \in Pages : g[q] = "none" => f[q] = "none"
    PROVE  BatchOK(r, u, g, L)
<1>1. Range(r.completed) \subseteq Pages
  BY RangeOfSeq DEF BatchOK
<1> QED BY <1>1 DEF BatchOK, Covers

(* The elements of a sequence.                                              *)
LEMMA Elements ==
    ASSUME NEW S, NEW q \in Seq(S)
    PROVE  /\ DOMAIN q = 1..Len(q) /\ Len(q) \in Nat /\ Range(q) = {q[k] : k \in DOMAIN q}
           /\ \A k \in DOMAIN q : q[k] \in S
           /\ q = <<>> <=> DOMAIN q = {}
           /\ q # <<>> <=> Len(q) # 0
BY LenProperties, ElementOfSeq, EmptySeq DEF Range

(* The next page of the batch, or the end of it.                            *)
LEMMA NextPageSuits ==
    ASSUME NEW L, NEW t, NEW f, NEW r, DOMAIN r = Fields, BatchOK(r, t, f, L),
           r.at \in DOMAIN r.queue,
           \A k \in (r.at + 1)..Len(r.queue) :
               r.queue[k] \notin Cut(f) /\ r.queue[k] \notin Collected(r)
    PROVE  Suits(r, NextPage(r), t, f, L)
<1> DEFINE ended == [r EXCEPT !.step = "release", !.error = FALSE]
           next == [r EXCEPT !.at = @ + 1, !.step = "page"]
<1>1. /\ DOMAIN r.queue = 1..Len(r.queue) /\ Len(r.queue) \in Nat /\ r.queue # <<>>
      /\ r.at \in 1..Len(r.queue)
  BY Elements DEF BatchOK
<1>2. CASE r.at = Len(r.queue)
  <2>1. NextPage(r) = ended BY <1>2 DEF NextPage
  <2>2. /\ DOMAIN ended = Fields /\ ended.import = r.import /\ ended.source = r.source
        /\ ended.step = "release" /\ ended.at = r.at /\ ended.cursor = r.cursor
        /\ ended.buffer = r.buffer /\ ended.queue = r.queue /\ ended.completed = r.completed
    BY DEF Fields
  <2> HIDE DEF ended
  <2>3. BatchOK(ended, t, f, L) BY <2>2 DEF BatchOK, Collected
  <2>4. Works(ended, t, f, L)
    BY <1>1, <2>2, <2>3 DEF Works, Linking, Visiting, Writing, Written
  <2> QED BY <2>1, <2>2, <2>4 DEF Suits, Owning, Rooting, Linking
<1>3. CASE r.at # Len(r.queue)
  <2>1. NextPage(r) = next BY <1>3 DEF NextPage
  <2>2. /\ DOMAIN next = Fields /\ next.import = r.import /\ next.source = r.source
        /\ next.step = "page" /\ next.at = r.at + 1 /\ next.cursor = r.cursor
        /\ next.buffer = r.buffer /\ next.queue = r.queue /\ next.completed = r.completed
    BY DEF Fields
  <2> HIDE DEF next
  <2>3. r.at + 1 \in DOMAIN r.queue BY <1>1, <1>3
  <2>4. BatchOK(next, t, f, L) BY <2>2, <2>3 DEF BatchOK, Collected
  <2>5. Ahead(next, f) BY <2>2, <2>3 DEF Ahead, Collected
  <2>6. Works(next, t, f, L)
    BY <1>1, <2>2, <2>4, <2>5 DEF Works, Linking, Visiting, Writing, Written
  <2> QED BY <2>1, <2>2, <2>6 DEF Suits, Owning, Rooting, Linking
<1> QED BY <1>2, <1>3

(* What suits a record that differs in the batch suits the one before.      *)
LEMMA SuitsBefore ==
    ASSUME NEW L, NEW t, NEW f, NEW r, NEW q, q.import = r.import, q.source = r.source,
           Rooting(q) => Rooting(r), NEW next, Suits(q, next, t, f, L)
    PROVE  Suits(r, next, t, f, L)
BY DEF Suits

(* A page is concluded: done when its last link is behind the cursor.       *)
LEMMA ConcludeSuits ==
    ASSUME NEW L, NEW t, NEW f, NEW r, Visits(r, t, f, L), NEW paused \in BOOLEAN, Linked(L),
           LinkCount(r) = Len(L[r.queue[r.at]]), FirstVisit(r) \/ f[r.queue[r.at]] # "none"
    PROVE  Suits(r, Conclude(r, paused), t, f, L)
<1> DEFINE p == r.queue[r.at]
           kept == [r EXCEPT !.buffer = IF FirstVisit(r) THEN @ \cup {p} ELSE @]
           advancing == [kept EXCEPT !.step = "advance"]
           ended == [kept EXCEPT !.completed = Append(@, p)]
<1>1. /\ DOMAIN r = Fields /\ BatchOK(r, t, f, L) /\ r.at \in DOMAIN r.queue
      /\ r.queue \in Seq(Pages) /\ r.completed \in Seq(Pages) /\ r.cursor \in Nat
  BY DEF Visits, BatchOK
<1>2. /\ DOMAIN r.queue = 1..Len(r.queue) /\ Len(r.queue) \in Nat /\ r.queue # <<>>
      /\ r.at \in 1..Len(r.queue) /\ p \in Pages /\ p \in Range(r.queue)
  BY <1>1, Elements
<1>3. Len(L[p]) \in Nat BY <1>2, LenProperties DEF Linked
<1>4. /\ DOMAIN kept = Fields /\ kept.import = r.import /\ kept.source = r.source
      /\ kept.step = r.step /\ kept.at = r.at /\ kept.cursor = r.cursor
      /\ kept.buffer = (IF FirstVisit(r) THEN r.buffer \cup {p} ELSE r.buffer)
      /\ kept.queue = r.queue /\ kept.completed = r.completed
  BY <1>1 DEF Fields
<1> HIDE DEF kept
<1>5. Conclude(r, paused) = IF paused \/ r.cursor < Len(L[p]) THEN advancing ELSE NextPage(ended)
  BY DEF Conclude, kept
<1>6. p \notin Cut(f) BY <1>2 DEF Visits
<1>7. \A k \in (r.at + 1)..Len(r.queue) : /\ r.queue[k] \notin Cut(f)
                                          /\ r.queue[k] \notin Collected(r) /\ r.queue[k] # p
  <2> SUFFICES ASSUME NEW k \in (r.at + 1)..Len(r.queue)
               PROVE  r.queue[k] \notin Cut(f) /\ r.queue[k] \notin Collected(r) /\ r.queue[k] # p
    OBVIOUS
  <2>1. k \in r.at..Len(r.queue) /\ k \in DOMAIN r.queue /\ k # r.at BY <1>2
  <2> QED BY <1>1, <2>1 DEF Visits, BatchOK
<1>8. Suits(r, advancing, t, f, L)
  <2>1. /\ DOMAIN advancing = Fields /\ advancing.import = r.import /\ advancing.source = r.source
        /\ advancing.step = "advance" /\ advancing.at = r.at /\ advancing.cursor = r.cursor
        /\ advancing.buffer = kept.buffer /\ advancing.queue = r.queue
        /\ advancing.completed = r.completed
    BY <1>4 DEF Fields
  <2> HIDE DEF advancing
  <2>2. BatchOK(advancing, t, f, L)
    BY SMTT(30), <1>1, <1>2, <1>4, <1>6, <2>1 DEF BatchOK, Collected
  <2>3. Ahead(advancing, f)
    <3> SUFFICES ASSUME NEW k \in r.at..Len(r.queue)
                 PROVE  /\ r.queue[k] \notin Cut(f)
                        /\ r.queue[k] \in Collected(advancing) => k = r.at
      BY <1>1, <2>1 DEF Ahead
    <3>1. CASE k = r.at BY <1>6, <3>1
    <3>2. CASE k # r.at
      <4>1. k \in (r.at + 1)..Len(r.queue) BY <1>2, <3>2
      <4> QED BY <1>4, <1>7, <2>1, <4>1 DEF Collected
    <3> QED BY <3>1, <3>2
  <2>4. LinkOK(advancing, t, f, L) BY <2>1 DEF LinkOK, Visits, Linking
  <2>5. Works(advancing, t, f, L)
    BY <1>2, <2>1, <2>2, <2>3, <2>4 DEF Works, Linking, Visiting, Writing, Written
  <2> QED BY <2>1, <2>5 DEF Suits, Owning, Rooting, Linking
<1>9. ~paused /\ ~(r.cursor < Len(L[p])) => Suits(r, NextPage(ended), t, f, L)
  <2> SUFFICES ASSUME ~(r.cursor < Len(L[p])) PROVE Suits(r, NextPage(ended), t, f, L) OBVIOUS
  <2>1. Covers(t, L, p, Len(L[p]))
    <3>1. r.cursor = Len(L[p]) BY <1>1, <1>3 DEF Visits
    <3> QED BY <3>1 DEF Visits
  <2>2. /\ DOMAIN ended = Fields /\ ended.import = r.import /\ ended.source = r.source
        /\ ended.step = r.step /\ ended.at = r.at /\ ended.cursor = r.cursor
        /\ ended.buffer = kept.buffer /\ ended.queue = r.queue
        /\ ended.completed = Append(r.completed, p)
    BY <1>4 DEF Fields
  <2> HIDE DEF ended
  <2>3. ended.completed \in Seq(Pages) /\ Range(ended.completed) = Range(r.completed) \cup {p}
    <3>1. ended.completed = r.completed \o <<p>> BY <1>1, <1>2, <2>2, AppendIsConcat
    <3>2. ended.completed \in Seq(Pages) BY <1>1, <1>2, <2>2, AppendProperties
    <3>3. /\ DOMAIN ended.completed = 1..(Len(r.completed) + 1)
          /\ DOMAIN r.completed = 1..Len(r.completed) /\ Len(r.completed) \in Nat
          /\ \A k \in 1..Len(r.completed) : ended.completed[k] = r.completed[k]
          /\ ended.completed[Len(r.completed) + 1] = p
      BY <1>1, <1>2, <2>2, AppendProperties, LenProperties
    <3>4. Range(ended.completed) = Range(r.completed) \cup {p}
      BY SMTT(30), <3>3 DEF Range
    <3> QED BY <3>2, <3>4
  <2>4. BatchOK(ended, t, f, L)
    <3>1. /\ ended.at \in Nat /\ ended.cursor \in Nat /\ ended.buffer \subseteq Pages
          /\ ended.queue \in Seq(Pages) /\ Range(ended.queue) \subseteq Paged(t)
          /\ \A m, n \in DOMAIN ended.queue : ended.queue[m] = ended.queue[n] => m = n
          /\ ended.queue # <<>>
      BY <1>1, <1>2, <1>4, <2>2 DEF BatchOK
    <3>2. Collected(ended) \cap Cut(f) = {}
      BY <1>1, <1>4, <1>6, <2>2, <2>3 DEF BatchOK, Collected
    <3>3. \A q \in Range(ended.completed) : Covers(t, L, q, Len(L[q])) /\ (q \in ended.buffer \/ f[q] # "none")
      BY <1>1, <1>4, <2>1, <2>2, <2>3 DEF BatchOK
    <3>4. Collected(ended) \subseteq Range(ended.queue)
      BY <1>1, <1>2, <1>4, <2>2, <2>3 DEF BatchOK, Collected
    <3> QED BY <2>3, <3>1, <3>2, <3>3, <3>4 DEF BatchOK
  <2>5. \A k \in (ended.at + 1)..Len(ended.queue) :
            ended.queue[k] \notin Cut(f) /\ ended.queue[k] \notin Collected(ended)
    BY <1>4, <1>7, <2>2, <2>3 DEF Collected
  <2>6. Suits(ended, NextPage(ended), t, f, L) BY <1>1, <2>2, <2>4, <2>5, NextPageSuits
  <2>7. Rooting(ended) => Rooting(r) BY <2>2 DEF Rooting
  <2> QED BY <2>2, <2>6, <2>7, SuitsBefore
<1> QED BY <1>5, <1>8, <1>9

(* The smaller of two numbers.                                              *)
LEMMA Smaller ==
    ASSUME NEW a \in Nat, NEW b \in Nat
    PROVE  Min({a, b}) \in {a, b} /\ Min({a, b}) <= a /\ Min({a, b}) <= b
<1>1. \E x \in {a, b} : \A y \in {a, b} : x <= y OBVIOUS
<1> QED BY <1>1 DEF Min

(* A visited page goes on with its next link, or is concluded.              *)
LEMMA ProceedSuits ==
    ASSUME NEW t, NEW f, NEW r, Linked(Links), Visits(r, t, f, Links), Batch \in Nat,
           From(r) \in Nat, From(r) = 0 \/ f[r.queue[r.at]] # "none",
           r.step # "advance"
    PROVE  Suits(r, Proceed(r), t, f, Links)
<1> DEFINE p == r.queue[r.at]
           next == [r EXCEPT !.step = "exists"]
<1>1. /\ DOMAIN r = Fields /\ BatchOK(r, t, f, Links) /\ r.at \in DOMAIN r.queue
      /\ r.queue \in Seq(Pages) /\ r.cursor \in Nat
  BY DEF Visits, BatchOK
<1>2. r.queue # <<>> /\ p \in Pages /\ LinkCount(r) = Len(Links[p]) /\ LinkCount(r) \in Nat
  BY <1>1, Elements, LenProperties DEF Linked, LinkCount
<1>3. \A paused \in BOOLEAN : Suits(r, Conclude(r, paused), t, f, Links)
  BY <1>2, ConcludeSuits DEF FirstVisit
<1>4. LastLink(r) <= LinkCount(r) /\ LastLink(r) \in Nat
  <2> DEFINE b == From(r) + Batch
  <2>1. b \in Nat OBVIOUS
  <2>2. LastLink(r) = Min({LinkCount(r), b}) BY DEF LastLink
  <2> HIDE DEF b
  <2> QED BY <1>2, <2>1, <2>2, Smaller
<1>5. CASE ~(r.cursor >= LastLink(r))
  <2>1. r.cursor < Len(Links[p]) BY <1>1, <1>2, <1>4, <1>5
  <2>2. /\ DOMAIN next = Fields /\ next.import = r.import /\ next.source = r.source
        /\ next.step = "exists" /\ next.at = r.at /\ next.cursor = r.cursor
        /\ next.buffer = r.buffer /\ next.queue = r.queue /\ next.completed = r.completed
    BY <1>1 DEF Fields
  <2> HIDE DEF next
  <2>3. BatchOK(next, t, f, Links) BY <1>1, <2>2 DEF BatchOK, Collected
  <2>4. Ahead(next, f) BY <2>2 DEF Ahead, Visits, Collected
  <2>5. LinkOK(next, t, f, Links) BY <2>1, <2>2 DEF LinkOK, Visits
  <2>6. Works(next, t, f, Links)
    BY <1>2, <2>2, <2>3, <2>4, <2>5 DEF Works, Linking, Visiting, Writing, Written
  <2>7. Suits(r, next, t, f, Links) BY <1>2, <2>2, <2>6 DEF Suits, Owning, Rooting
  <2> QED BY <1>3, <1>5, <2>7 DEF Proceed, next
<1> QED BY <1>3, <1>5 DEF Proceed

(* Who checks, reserves, inserts or adopts a link is at a page.             *)
LEMMA AtPage ==
    ASSUME NEW L, NEW t, NEW f, NEW r, DOMAIN r = Fields, Works(r, t, f, L),
           r.step \in Linking \cup {"adopt"}, r.queue # <<>>
    PROVE  /\ Visits(r, t, f, L) /\ r.cursor \in Nat /\ r.cursor < Len(L[r.queue[r.at]])
           /\ r.queue[r.at] \in Pages /\ r.queue[r.at] \in Paged(t)
<1>1. BatchOK(r, t, f, L) /\ Ahead(r, f) /\ LinkOK(r, t, f, L)
  BY DEF Works, Linking, Visiting
<1>2. r.at \in DOMAIN r.queue /\ r.queue \in Seq(Pages) BY <1>1 DEF Ahead, BatchOK
<1>3. r.queue[r.at] \in Pages /\ r.queue[r.at] \in Range(r.queue)
  BY <1>2, Elements
<1>4. r.queue[r.at] \in Paged(t) BY <1>1, <1>3 DEF BatchOK
<1>5. r.step # "advance" BY DEF Linking
<1> QED BY <1>1, <1>3, <1>4, <1>5 DEF Visits, Ahead, LinkOK, BatchOK

(* A visit goes on: with another cursor, in a table that has grown.         *)
LEMMA VisitGoesOn ==
    ASSUME NEW L, NEW t, NEW f, NEW r, Visits(r, t, f, L),
           NEW q, DOMAIN q = Fields, q.queue = r.queue, q.at = r.at, q.buffer = r.buffer,
           q.completed = r.completed, q.cursor \in Nat,
           NEW u, Paged(t) \subseteq Paged(u), NEW g, Cut(g) = Cut(f),
           \A x \in Pages : g[x] = "none" => f[x] = "none",
           q.cursor <= Len(L[r.queue[r.at]]), Covers(u, L, r.queue[r.at], q.cursor),
           \A k \in DOMAIN u : u[k].page = r.queue[r.at] => u[k].cursor = 0 \/ g[u[k].page] # "none"
    PROVE  Visits(q, u, g, L)
<1>1. Collected(r) \cap Cut(g) = {} BY DEF Visits, BatchOK
<1>2. BatchOK(r, u, g, L)
  <2>1. Range(r.completed) \subseteq Pages BY RangeOfSeq DEF BatchOK, Visits
  <2> QED BY <1>1, <2>1 DEF BatchOK, Covers, Visits
<1>3. BatchOK(q, u, g, L) BY <1>2 DEF BatchOK, Collected
<1> QED BY <1>3 DEF Visits, Collected

(* Where a page has a row, its cursor is a number of links.                 *)
LEMMA CursorIs ==
    ASSUME NEW i, NEW L, NEW f, Table(rows[i], f, L), NEW p \in Paged(rows[i])
    PROVE  \E k \in DOMAIN rows[i] : /\ rows[i][k].page = p /\ CursorOf(i, p) = rows[i][k].cursor
                                     /\ CursorOf(i, p) \in Nat /\ p \in Pages
                                     /\ rows[i][k] \in Row /\ RowOK(rows[i][k], rows[i], f, L)
<1>1. \E k \in DOMAIN rows[i] : rows[i][k].page = p BY DEF Paged
<1>2. PICK k \in DOMAIN rows[i] :
          k = (CHOOSE x \in DOMAIN rows[i] : rows[i][x].page = p) /\ rows[i][k].page = p
  BY <1>1
<1>3. rows[i][k] \in Row BY ElementOfSeq, LenProperties DEF Table
<1> QED BY <1>2, <1>3 DEF CursorOf, Row, Table

-----------------------------------------------------------------------------
(* What the steps of one worker leave to the others *)

(* A step that touches the import i, and leaves every other as it is.       *)
Elsewhere(i) == \A k \in Imports \ {i} :
                    rows'[k] = rows[k] /\ fate'[k] = fate[k] /\ run'[k] = run[k]

(* A step of one worker, on an import that nobody else needs.               *)
LEMMA StepKeeps ==
    ASSUME IInv, TableInv, UNCHANGED setup, NEW w \in Workers, NEW next,
           job' = [job EXCEPT ![w] = next],
           DOMAIN rows' = Imports, DOMAIN fate' = Imports,
           NEW i, Elsewhere(i),
           i \in Imports => ImportFine(run'[i], rows'[i], fate'[i], setup),
           JobFine(w, next, run'[next.import], rows'[next.import], fate'[next.import], setup),
           \A v \in Workers \ {w} :
              /\ Owns(v) \/ Finisher(job[v]) => job[v].import # i
              /\ job[v].step \in Settling /\ job[v].import = i => run'[i].state \in {"discarding", "gone"}
              /\ Apart(job[v], next)
    PROVE  TableInv'
<1>1. \A v \in Workers : job'[v] = IF v = w THEN next ELSE job[v]
  BY DEF IInv, Shape
<1>2. \A k \in Imports : ImportFine(run'[k], rows'[k], fate'[k], setup)
  <2> SUFFICES ASSUME NEW k \in Imports, k # i PROVE ImportFine(run'[k], rows'[k], fate'[k], setup)
    OBVIOUS
  <2> QED BY DEF TableInv, Elsewhere
<1>3. \A v \in Workers : LET k == job'[v].import IN
          JobFine(v, job'[v], run'[k], rows'[k], fate'[k], setup)
  <2> SUFFICES ASSUME NEW v \in Workers \ {w}
               PROVE  LET k == job[v].import IN
                      JobFine(v, job[v], run'[k], rows'[k], fate'[k], setup)
    BY <1>1
  <2> DEFINE k == job[v].import
             r == job[v]
  <2>1. JobFine(v, r, run[k], rows[k], fate[k], setup) BY DEF TableInv
  <2>2. r.step \in Owning \cup Settling => k \in Imports BY DEF IInv, Shape
  <2>3. r.step \in Owning \cup Settling /\ k # i
            => run'[k] = run[k] /\ rows'[k] = rows[k] /\ fate'[k] = fate[k]
    BY <2>2 DEF Elsewhere
  <2>4. v \in Jobs /\ r.step \in Owning => Owns(v) BY DEF Owns, Owning
  <2>5. r.step \in Settling => r.then = "discard" \/ Finisher(r) BY DEF Finisher
  <2>6. r.step = "measure" => r.step \in Settling BY DEF Settling
  <2> HIDE DEF r, k
  <2>7. k = i => ~(v \in Jobs /\ r.step \in Owning) /\ ~Finisher(r)
    BY <2>4 DEF r, k
  <2>8. r.step \in Settling /\ k = i => run'[i].state \in {"discarding", "gone"}
    BY DEF r, k
  <2>9. JobFine(v, r, run'[k], rows'[k], fate'[k], setup)
    BY <2>1, <2>3, <2>5, <2>6, <2>7, <2>8 DEF JobFine
  <2> QED BY <2>9 DEF r, k
<1>4. Finishers'
  <2>1. \A v, u \in Workers : v # u => Apart(job'[v], job'[u])
    BY <1>1 DEF TableInv, Finishers, Apart
  <2> QED BY <2>1 DEF Finishers, Apart, Finisher
<1>5. /\ (\A k \in Imports : ImportFine(run[k], rows[k], fate[k], setup))'
      /\ (\A v \in Workers :
             LET k == job[v].import IN JobFine(v, job[v], run[k], rows[k], fate[k], setup))'
  BY <1>2, <1>3
<1> QED BY <1>4, <1>5 DEF TableInv

(* Nobody else needs the import of a worker that owns it.                   *)
LEMMA OwnersAlone ==
    ASSUME IInv, NEW w \in Workers, Owns(w), NEW v \in Workers \ {w}
    PROVE  Owns(v) \/ job[v].step \in Settling => job[v].import # job[w].import
BY DEF IInv, OneOwner, Removed

(* The owner of an import writes its table and fates, or nothing.           *)
Put(i, t, f) == /\ DOMAIN rows' = Imports /\ DOMAIN fate' = Imports /\ UNCHANGED run
                /\ rows'[i] = t /\ fate'[i] = f /\ Elsewhere(i)

(* A step of the owner of an import, to a record that suits what he wrote.  *)
LEMMA OwnerStep ==
    ASSUME IInv, TableInv, UNCHANGED setup, NEW w \in Workers, Owns(w), NEW next,
           job' = [job EXCEPT ![w] = next], NEW t, NEW f, Put(job[w].import, t, f),
           Table(t, f, Links), rows[job[w].import] = <<>> \/ Paged(rows[job[w].import]) \subseteq Paged(t),
           \/ t = <<>> \/ rows[job[w].import] # <<>>
           \/ Root[job[w].source] \in Paged(t) /\ run[job[w].import].source = job[w].source,
           Suits(job[w], next, t, f, Links)
    PROVE  TableInv'
<1> DEFINE i == job[w].import
           r == job[w]
           x == run[i]
<1>1. i \in Imports /\ w \in Jobs /\ r.step \in Owning BY DEF IInv, Shape, Owns, Owning
<1>2. x.state = "running" BY DEF IInv, OneOwner
<1>3. /\ ImportFine(x, rows[i], fate[i], setup) /\ JobFine(w, r, x, rows[i], fate[i], setup)
  BY <1>1 DEF TableInv
<1>4. rows'[i] = t /\ fate'[i] = f /\ run'[i] = x BY DEF Put
<1>5. ImportFine(run'[i], rows'[i], fate'[i], setup)
  <2>1. x.source \in Sources /\ (rows[i] = <<>> \/ Root[x.source] \in Paged(rows[i]))
    BY <1>2, <1>3 DEF ImportFine, Root
  <2>2. t = <<>> \/ Root[x.source] \in Paged(t) BY <2>1
  <2> QED BY <1>2, <1>4, <2>1, <2>2 DEF ImportFine, Root, Links, RunStates
<1>6. r.source \in Sources
  <2>1. r.step # "idle" BY <1>1 DEF Owning
  <2> QED BY <1>1, <1>3, <2>1 DEF JobFine
<1>7. JobFine(w, next, run'[next.import], rows'[next.import], fate'[next.import], setup)
  <2>3. i \in Imports BY <1>1
  <2>1. CASE next = Idle
    BY <2>1, IdleShape DEF JobFine, Opens, Owning, Settling, Summed
  <2>2. CASE next # Idle
    <3>1. next.import = i /\ next.source = r.source BY <2>2 DEF Suits
    <3>2. \/ next.step \in Owning /\ Works(next, t, f, Links) /\ (Rooting(next) => Rooting(r))
          \/ /\ next.step = "measure" /\ next.then \in {"end", "rebuild"}
             /\ next.then = "rebuild" => AllDone(t)
          \/ next.step = "add_up"
      BY <2>2 DEF Suits
    <3>3. Rooting(r) => x.source = r.source BY <1>1, <1>3 DEF JobFine
    <3>4. ~Opens(next) BY <3>2 DEF Opens, Owning, Settling
    <3> HIDE DEF r, i, x
    <3>5. JobFine(w, next, x, t, f, setup)
      BY <2>3, <1>2, <1>6, <3>1, <3>2, <3>3, <3>4 DEF JobFine, Owning, Settling, Links, Summed
    <3> QED BY <1>4, <3>1, <3>5 DEF x
  <2> QED BY <2>1, <2>2
<1>8. \A v \in Workers \ {w} :
          /\ Owns(v) \/ Finisher(job[v]) => job[v].import # i
          /\ job[v].step \in Settling /\ job[v].import = i => run'[i].state \in {"discarding", "gone"}
          /\ Apart(job[v], next)
  <2> SUFFICES ASSUME NEW v \in Workers \ {w}
               PROVE  /\ Owns(v) \/ Finisher(job[v]) => job[v].import # i
                      /\ job[v].step \in Settling /\ job[v].import = i
                             => run'[i].state \in {"discarding", "gone"}
                      /\ Apart(job[v], next)
    OBVIOUS
  <2>1. Owns(v) \/ job[v].step \in Settling => job[v].import # i BY OwnersAlone
  <2>2. next.import = i \/ next.step \notin Settling BY IdleShape DEF Suits, Settling
  <2> HIDE DEF i
  <2> QED BY <2>1, <2>2 DEF Apart, Finisher
<1>9. Elsewhere(i) /\ DOMAIN rows' = Imports /\ DOMAIN fate' = Imports BY DEF Put
<1> HIDE DEF r, i, x
<1> QED BY <1>5, <1>7, <1>8, <1>9, StepKeeps

-----------------------------------------------------------------------------
(* One access of the owner of an import *)

(* What the owner of an import relies on.                                   *)
LEMMA Owned ==
    ASSUME IInv, TableInv, NEW w \in Workers, job[w].step \in Owning, At(w, job[w].step)
    PROVE  LET r == job[w]
               i == r.import IN
           /\ Owns(w) /\ w \in Jobs /\ i \in Imports /\ DOMAIN r = Fields
           /\ run[i].state = "running" /\ r.source \in Sources
           /\ Linked(Links) /\ Root \in [Sources -> Pages] /\ Batch \in Nat \ {0}
           /\ Table(rows[i], fate[i], Links) /\ Works(r, rows[i], fate[i], Links)
           /\ BatchOK(r, rows[i], fate[i], Links)
           /\ Rooting(r) => run[i].source = r.source
<1> DEFINE r == job[w]
           i == r.import
<1>1. i \in Imports /\ DOMAIN r = Fields BY DEF IInv, Shape
<1>2. w \in Jobs BY FrontierAssumption DEF IInv, Serving, Workers, At, Owning, Settling
<1>3. Owns(w) BY <1>2 DEF Owns, Owning
<1>4. run[i].state = "running" BY <1>3 DEF IInv, OneOwner
<1>5. ImportFine(run[i], rows[i], fate[i], setup) /\ JobFine(w, r, run[i], rows[i], fate[i], setup)
  BY <1>1 DEF TableInv
<1>6. r.step # "idle" BY DEF Owning
<1>7. r.source \in Sources /\ Works(r, rows[i], fate[i], Links)
      /\ (Rooting(r) => run[i].source = r.source)
  BY <1>2, <1>5, <1>6 DEF JobFine, Links
<1>8. Table(rows[i], fate[i], Links) BY <1>5 DEF ImportFine, Links
<1>9. Linked(Links) /\ Root \in [Sources -> Pages] /\ Batch \in Nat \ {0}
  BY FrontierAssumption DEF TableInv, Linked, Links, Root
<1>10. BatchOK(r, rows[i], fate[i], Links) BY <1>7 DEF Works
<1> QED BY <1>1, <1>2, <1>3, <1>4, <1>7, <1>8, <1>9, <1>10

(* A cancellation changes nothing about a record.                           *)
LEMMA CancelledSuits ==
    ASSUME NEW L, NEW t, NEW f, NEW r, NEW next, next # Idle, Suits(r, next, t, f, L)
    PROVE  Suits(r, [next EXCEPT !.cancelled = TRUE], t, f, L)
<1> DEFINE q == [next EXCEPT !.cancelled = TRUE]
<1>1. DOMAIN next = Fields BY DEF Suits
<1>2. /\ DOMAIN q = Fields /\ q.import = next.import /\ q.source = next.source
      /\ q.step = next.step /\ q.then = next.then /\ q.at = next.at /\ q.cursor = next.cursor
      /\ q.queue = next.queue /\ q.buffer = next.buffer /\ q.completed = next.completed
      /\ q.error = next.error
  BY <1>1 DEF Fields
<1> HIDE DEF q
<1>3. BatchOK(next, t, f, L) => BatchOK(q, t, f, L) BY <1>2 DEF BatchOK, Collected
<1>4. Ahead(next, f) => Ahead(q, f) BY <1>2 DEF Ahead, Collected
<1>5. LinkOK(next, t, f, L) => LinkOK(q, t, f, L) BY <1>2 DEF LinkOK
<1>6. Collected(q) = Collected(next) BY <1>2 DEF Collected
<1>7. Works(next, t, f, L) => Works(q, t, f, L) BY <1>2, <1>3, <1>4, <1>5, <1>6 DEF Works
<1>8. Rooting(q) <=> Rooting(next) BY <1>2 DEF Rooting
<1> QED BY <1>2, <1>7, <1>8 DEF Suits, q

(* An access of w that, where it takes effect, leaves table t and fates f.  *)
Turns(w, then, otherwise, t, f) ==
    \/ Put(job[w].import, t, f) /\ job' = [job EXCEPT ![w] = then]
    \/ UNCHANGED tables /\ job' = [job EXCEPT ![w] = otherwise]
    \/ Put(job[w].import, t, f) /\ job' = [job EXCEPT ![w] = Idle]
    \/ /\ Put(job[w].import, t, f) /\ otherwise # Idle
       /\ job' = [job EXCEPT ![w] = [otherwise EXCEPT !.cancelled = TRUE]]
(* An access of the owner that may change its table, done or failed.        *)
LEMMA OwnerAccess ==
    ASSUME IInv, TableInv, UNCHANGED setup, NEW w \in Workers, Owns(w),
           NEW then, NEW otherwise, NEW t, NEW f, Turns(w, then, otherwise, t, f),
           Table(t, f, Links), rows[job[w].import] = <<>> \/ Paged(rows[job[w].import]) \subseteq Paged(t),
           \/ t = <<>> \/ rows[job[w].import] # <<>>
           \/ Root[job[w].source] \in Paged(t) /\ run[job[w].import].source = job[w].source,
           Suits(job[w], then, t, f, Links), Suits(job[w], otherwise, t, f, Links),
           Suits(job[w], otherwise, rows[job[w].import], fate[job[w].import], Links)
    PROVE  TableInv'
<1> DEFINE i == job[w].import
<1>1. i \in Imports BY DEF IInv, Shape, Owns, Owning
<1>2. CASE UNCHANGED tables /\ job' = [job EXCEPT ![w] = otherwise]
  <2>1. Put(i, rows[i], fate[i]) BY <1>2 DEF Put, tables, TableInv, Elsewhere
  <2>2. Table(rows[i], fate[i], Links) BY <1>1 DEF TableInv, ImportFine, Links
  <2> QED BY <1>2, <2>1, <2>2, OwnerStep
<1>3. CASE Put(i, t, f) /\ job' = [job EXCEPT ![w] = then]
  BY <1>3, OwnerStep
<1>4. CASE Put(i, t, f) /\ job' = [job EXCEPT ![w] = Idle]
  <2>1. Suits(job[w], Idle, t, f, Links) BY DEF Suits
  <2> QED BY <1>4, <2>1, OwnerStep
<1>5. CASE /\ Put(i, t, f) /\ otherwise # Idle
           /\ job' = [job EXCEPT ![w] = [otherwise EXCEPT !.cancelled = TRUE]]
  <2>1. Suits(job[w], [otherwise EXCEPT !.cancelled = TRUE], t, f, Links)
    BY <1>5, CancelledSuits
  <2> QED BY <1>5, <2>1, OwnerStep
<1> QED BY <1>2, <1>3, <1>4, <1>5 DEF Turns

(* The same for an access that writes no table.                             *)
LEMMA OwnerReads ==
    ASSUME IInv, TableInv, UNCHANGED setup, NEW w \in Workers, Owns(w), UNCHANGED <<run, rows, fate>>,
           NEW then, NEW otherwise, Either(w, then, otherwise),
           Suits(job[w], then, rows[job[w].import], fate[job[w].import], Links),
           Suits(job[w], otherwise, rows[job[w].import], fate[job[w].import], Links)
    PROVE  TableInv'
<1> DEFINE i == job[w].import
<1>1. i \in Imports BY DEF IInv, Shape, Owns, Owning
<1>2. Put(i, rows[i], fate[i]) BY DEF Put, TableInv, Elsewhere
<1>3. Table(rows[i], fate[i], Links) BY <1>1 DEF TableInv, ImportFine, Links
<1>4. otherwise # Idle =>
        Suits(job[w], [otherwise EXCEPT !.cancelled = TRUE], rows[i], fate[i], Links)
  BY CancelledSuits
<1>5. Suits(job[w], Idle, rows[i], fate[i], Links) BY DEF Suits
<1>6. PICK next : job' = [job EXCEPT ![w] = next] /\ Suits(job[w], next, rows[i], fate[i], Links)
  BY <1>4, <1>5 DEF Either
<1> QED BY <1>2, <1>3, <1>6, OwnerStep

-----------------------------------------------------------------------------
(* What a handler answers *)

(* The steps of a call that is not in the middle of a page.                 *)
LEMMA RestSuits ==
    ASSUME NEW L, NEW t, NEW f, NEW r, BatchOK(r, t, f, L),
           NEW next, DOMAIN next = Fields, next.import = r.import, next.source = r.source,
           next.queue = r.queue, next.buffer = r.buffer, next.completed = r.completed,
           next.at \in Nat, next.cursor \in Nat,
           \/ next.step = "partial"
           \/ next.step = "release" /\ (next.error \/ next.queue # <<>>)
           \/ next.step \in {"services", "persist"} /\ next.queue # <<>>
           \/ /\ next.step \in Written /\ next.queue # <<>>
              /\ \A p \in Range(next.completed) : f[p] # "none"
              /\ next.step = "mark" => next.at \in DOMAIN next.completed
              /\ next.step = "preserve" => next.completed # <<>>
              /\ next.step = "detect" => AllDone(t) /\ next.then = "rebuild"
    PROVE  Suits(r, next, t, f, L)
<1>1. BatchOK(next, t, f, L) BY DEF BatchOK, Collected
<1>2. Works(next, t, f, L) BY <1>1 DEF Works, Linking, Visiting, Writing, Written
<1> QED BY <1>2 DEF Suits, Owning, Rooting, Linking, Written

(* A refusal: the run is removed, or the batch is released.                 *)
LEMMA RefusedSuits ==
    ASSUME NEW w, DOMAIN job[w] = Fields, NEW L, NEW t, NEW f, BatchOK(job[w], t, f, L)
    PROVE  Suits(job[w], Refused(w), t, f, L)
<1> DEFINE r == job[w]
           next == [To(w, "release") EXCEPT !.error = TRUE]
           ending == [To(w, "measure") EXCEPT !.then = "end"]
<1>1. /\ DOMAIN next = Fields /\ next.import = r.import /\ next.source = r.source
      /\ next.step = "release" /\ next.error = TRUE /\ next.at = r.at /\ next.cursor = r.cursor
      /\ next.queue = r.queue /\ next.buffer = r.buffer /\ next.completed = r.completed
  BY DEF To, Fields
<1>2. /\ DOMAIN ending = Fields /\ ending.import = r.import /\ ending.source = r.source
      /\ ending.step = "measure" /\ ending.then = "end"
  BY DEF To, Fields
<1>3. r.at \in Nat /\ r.cursor \in Nat BY DEF BatchOK
<1>4. Refused(w) \in {next, ending} BY DEF Refused
<1> HIDE DEF r, next, ending
<1>5. Suits(r, ending, t, f, L) BY <1>2 DEF Suits
<1>6. BatchOK(r, t, f, L) BY DEF r
<1>7. Suits(r, next, t, f, L) BY <1>1, <1>3, <1>6, RestSuits
<1> QED BY <1>4, <1>5, <1>7 DEF r

(* The run is left partial.                                                 *)
LEMMA PartialSuits ==
    ASSUME NEW r, DOMAIN r = Fields, NEW L, NEW t, NEW f, BatchOK(r, t, f, L), NEW cleanup
    PROVE  Suits(r, ToPartial(r, cleanup), t, f, L)
<1> DEFINE next == ToPartial(r, cleanup)
<1>1. /\ DOMAIN next = Fields /\ next.import = r.import /\ next.source = r.source
      /\ next.step = "partial" /\ next.at = r.at /\ next.cursor = r.cursor
      /\ next.queue = r.queue /\ next.buffer = r.buffer /\ next.completed = r.completed
  BY DEF ToPartial, Fields
<1>2. r.at \in Nat /\ r.cursor \in Nat BY DEF BatchOK
<1> HIDE DEF next
<1>3. Suits(r, next, t, f, L) BY <1>1, <1>2, RestSuits
<1> QED BY <1>3 DEF next

(* The next step with a link.                                               *)
LEMMA LinkingSuits ==
    ASSUME NEW w, DOMAIN job[w] = Fields, NEW L, NEW t, NEW f, Works(job[w], t, f, L),
           job[w].step \in Linking, NEW step \in Linking,
           NEW u, NEW g, BatchOK(job[w], u, g, L), Paged(t) \subseteq Paged(u), Cut(g) = Cut(f),
           \A p \in Pages : g[p] = "none" => f[p] = "none",
           IF job[w].queue = <<>> THEN step = "refund" \/ (u = <<>> /\ Cut(g) = {})
           ELSE /\ \A k \in DOMAIN u : u[k].page = Page(w) => u[k].cursor = 0 \/ g[u[k].page] # "none"
                /\ step \in {"reserve", "insert"} => L[Page(w)][job[w].cursor + 1] \notin Paged(u)
    PROVE  Suits(job[w], To(w, step), u, g, L)
<1> DEFINE r == job[w]
           next == To(w, step)
<1>1. /\ DOMAIN next = Fields /\ next.import = r.import /\ next.source = r.source
      /\ next.step = step /\ next.at = r.at /\ next.cursor = r.cursor
      /\ next.queue = r.queue /\ next.buffer = r.buffer /\ next.completed = r.completed
  BY DEF To, Fields
<1>2. BatchOK(r, u, g, L) /\ r.step \in Linking /\ Works(r, t, f, L) /\ DOMAIN r = Fields OBVIOUS
<1>3. r.queue # <<>> => Ahead(r, f) /\ LinkOK(r, t, f, L) /\ Page(w) = r.queue[r.at]
  BY <1>2 DEF Works, Visiting, Page
<1>4. IF r.queue = <<>> THEN step = "refund" \/ (u = <<>> /\ Cut(g) = {})
      ELSE /\ \A k \in DOMAIN u : u[k].page = r.queue[r.at] => u[k].cursor = 0 \/ g[u[k].page] # "none"
           /\ step \in {"reserve", "insert"} => L[r.queue[r.at]][r.cursor + 1] \notin Paged(u)
  BY <1>3
<1> HIDE DEF r, next
<1>5. BatchOK(next, u, g, L) BY <1>1, <1>2 DEF BatchOK, Collected
<1>6. r.queue # <<>> => Ahead(next, g)
  BY <1>1, <1>2, <1>3 DEF Ahead, Collected, Linking
<1>7. r.queue # <<>> => LinkOK(next, u, g, L)
  <2> SUFFICES ASSUME r.queue # <<>> PROVE LinkOK(next, u, g, L) OBVIOUS
  <2>1. r.cursor <= Len(L[r.queue[r.at]]) /\ Covers(t, L, r.queue[r.at], r.cursor)
        /\ r.cursor < Len(L[r.queue[r.at]])
    BY <1>2, <1>3 DEF LinkOK
  <2>2. Covers(u, L, r.queue[r.at], r.cursor) BY <2>1 DEF Covers
  <2>3. step # "adopt" BY DEF Linking
  <2> QED BY <1>1, <1>4, <2>1, <2>2, <2>3 DEF LinkOK
<1>8. Works(next, u, g, L)
  BY <1>1, <1>4, <1>5, <1>6, <1>7 DEF Works, Linking, Visiting, Writing, Written
<1>9. Suits(r, next, u, g, L)
  BY <1>1, <1>2, <1>8 DEF Suits, Owning, Rooting, Linking
<1> QED BY <1>9 DEF r, next

-----------------------------------------------------------------------------
(* The links of a page *)

(* The cursor of the visited page, and how far its links were followed.     *)
LEMMA AtCursor ==
    ASSUME NEW w, NEW f, Table(rows[job[w].import], f, Links), Linked(Links), DOMAIN job[w] = Fields,
           Works(job[w], rows[job[w].import], f, Links),
           job[w].step \in Linking \cup {"adopt"}, job[w].queue # <<>>
    PROVE  LET r == job[w] IN
           /\ Visits(r, rows[r.import], f, Links)
           /\ From(r) \in Nat /\ (From(r) = 0 \/ f[Page(w)] # "none")
           /\ r.cursor \in Nat /\ r.cursor < Len(Links[Page(w)]) /\ Len(Links[Page(w)]) \in Nat
           /\ Page(w) \in Pages /\ Page(w) \in Paged(rows[r.import])
           /\ Target(w) = Links[Page(w)][r.cursor + 1] /\ Target(w) \in Pages
<1> DEFINE r == job[w]
           i == r.import
<1>1. /\ Visits(r, rows[i], f, Links) /\ r.cursor \in Nat /\ r.cursor < Len(Links[Page(w)])
      /\ Page(w) \in Pages /\ Page(w) \in Paged(rows[i])
  BY AtPage DEF Page
<1>2. PICK k \in DOMAIN rows[i] : /\ rows[i][k].page = Page(w) /\ CursorOf(i, Page(w)) = rows[i][k].cursor
                                  /\ CursorOf(i, Page(w)) \in Nat
  <2>1. Table(rows[i], f, Links) OBVIOUS
  <2> HIDE DEF i
  <2> QED BY <1>1, <2>1, CursorIs
<1>3. From(r) = CursorOf(i, Page(w)) BY DEF From, Page
<1>4. From(r) = 0 \/ f[Page(w)] # "none" BY <1>1, <1>2, <1>3 DEF Visits, Page
<1>5. Links[Page(w)] \in Seq(Pages) BY <1>1 DEF Linked
<1>6. Len(Links[Page(w)]) \in Nat /\ Links[Page(w)][r.cursor + 1] \in Pages
  <2>1. DOMAIN Links[Page(w)] = 1..Len(Links[Page(w)]) /\ Len(Links[Page(w)]) \in Nat
    BY <1>5, Elements
  <2>2. r.cursor + 1 \in DOMAIN Links[Page(w)] BY <1>1, <2>1
  <2> QED BY <1>5, <2>1, <2>2, Elements
<1>7. Target(w) = Links[Page(w)][r.cursor + 1] BY DEF Target, AddsRoot
<1> QED BY <1>1, <1>2, <1>3, <1>4, <1>6, <1>7

(* A visit that goes on with another cursor, in a table where every row of  *)
(* the page kept its cursor.                                                *)
LEMMA LaterSuits ==
    ASSUME NEW t, NEW f, NEW r, Linked(Links), Batch \in Nat, Visits(r, t, f, Links),
           r.step \in Linking \cup {"adopt"},
           NEW q, DOMAIN q = Fields, q.queue = r.queue, q.at = r.at, q.buffer = r.buffer,
           q.completed = r.completed, q.step = r.step, q.import = r.import, q.source = r.source,
           q.cursor \in Nat, NEW u, Paged(t) \subseteq Paged(u),
           q.cursor <= Len(Links[r.queue[r.at]]), Covers(u, Links, r.queue[r.at], q.cursor),
           \A k \in DOMAIN u : u[k].page = r.queue[r.at] => u[k].cursor = 0 \/ f[u[k].page] # "none",
           From(r) \in Nat, From(r) = 0 \/ f[r.queue[r.at]] # "none"
    PROVE  Suits(r, Proceed(q), u, f, Links)
<1>1. Visits(q, u, f, Links) BY VisitGoesOn
<1>2. From(q) = From(r) BY DEF From
<1>3. q.step # "advance" BY DEF Linking
<1>4. Suits(q, Proceed(q), u, f, Links) BY <1>1, <1>2, <1>3, ProceedSuits
<1>5. Rooting(q) => Rooting(r) BY DEF Rooting
<1> QED BY <1>4, <1>5, SuitsBefore

(* The check for a page that is already queued (AddImportFrontierPage).     *)
LEMMA CheckDuplicateFine ==
    ASSUME IInv, TableInv, NEW w \in Workers, CheckDuplicate(w) PROVE TableInv'
<1> DEFINE r == job[w]
           i == r.import
           t == rows[i]
           f == fate[i]
           q == [r EXCEPT !.cursor = @ + 1]
           then == IF Target(w) \in Queued(i) THEN Known(w) ELSE To(w, "reserve")
<1>1. /\ At(w, r.step) /\ r.step = "exists" /\ UNCHANGED setup /\ UNCHANGED <<run, rows, fate>>
      /\ Either(w, then, Refused(w))
  BY DEF CheckDuplicate, At, Frame, Access, Read, tables, Either, Become, Cancellable
<1>2. /\ Owns(w) /\ w \in Jobs /\ i \in Imports /\ DOMAIN r = Fields
      /\ Linked(Links) /\ Batch \in Nat /\ Table(t, f, Links) /\ Works(r, t, f, Links)
      /\ BatchOK(r, t, f, Links) /\ r.step \in Linking
  BY <1>1, Owned DEF Owning, Linking
<1>3. Suits(r, Refused(w), t, f, Links) BY <1>2, RefusedSuits
<1>4. Queued(i) = Paged(t) BY DEF Queued, Paged
<1>5. CASE r.queue = <<>>
  <2>1. t = <<>> /\ Cut(f) = {} BY <1>1, <1>2, <1>5 DEF Works, Linking
  <2>2. then = To(w, "reserve") BY <1>4, <2>1 DEF Paged
  <2>3. Suits(r, To(w, "reserve"), t, f, Links)
    BY <1>2, <1>5, <2>1, LinkingSuits DEF Linking
  <2> QED BY <1>1, <1>2, <1>3, <2>2, <2>3, OwnerReads
<1>6. CASE r.queue # <<>>
  <2>1. /\ Visits(r, t, f, Links) /\ From(r) \in Nat /\ (From(r) = 0 \/ f[Page(w)] # "none")
        /\ r.cursor \in Nat /\ r.cursor < Len(Links[Page(w)]) /\ Len(Links[Page(w)]) \in Nat
        /\ Target(w) = Links[Page(w)][r.cursor + 1] /\ Page(w) = r.queue[r.at]
    BY <1>2, <1>6, AtCursor DEF Page
  <2>2. \A k \in DOMAIN t : t[k].page = Page(w) => t[k].cursor = 0 \/ f[t[k].page] # "none"
    BY <2>1 DEF Visits
  <2>3. CASE Target(w) \in Paged(t)
    <3>1. then = Proceed(q) BY <1>4, <1>6, <2>3 DEF Known, AddsRoot
    <3>2. /\ DOMAIN q = Fields /\ q.queue = r.queue /\ q.at = r.at /\ q.buffer = r.buffer
          /\ q.completed = r.completed /\ q.step = r.step /\ q.import = r.import
          /\ q.source = r.source /\ q.cursor = r.cursor + 1
      BY <1>2 DEF Fields
    <3>3. Covers(t, Links, r.queue[r.at], r.cursor + 1)
      <4>1. Covers(t, Links, r.queue[r.at], r.cursor) BY <2>1 DEF Visits
      <4>2. \A x \in 1..(r.cursor + 1) : x \in 1..r.cursor \/ x = r.cursor + 1 BY <2>1
      <4> QED BY <2>1, <2>3, <4>1, <4>2 DEF Covers
    <3> HIDE DEF q, r, t, f
    <3>4. Suits(r, Proceed(q), t, f, Links)
      BY <1>2, <2>1, <2>2, <3>2, <3>3, LaterSuits
    <3> QED BY <1>1, <1>2, <1>3, <3>1, <3>4, OwnerReads DEF r, t, f
  <2>4. CASE Target(w) \notin Paged(t)
    <3>1. then = To(w, "reserve") BY <1>4, <2>4
    <3>2. Suits(r, To(w, "reserve"), t, f, Links)
      BY <1>2, <1>6, <2>1, <2>2, <2>4, LinkingSuits DEF Linking
    <3> QED BY <1>1, <1>2, <1>3, <3>1, <3>2, OwnerReads
  <2> QED BY <2>3, <2>4
<1> QED BY <1>5, <1>6

(* A pause: the run is removed, or the page is left at its cursor.          *)
LEMMA PausedSuits ==
    ASSUME NEW w, NEW f, Table(rows[job[w].import], f, Links), Linked(Links), DOMAIN job[w] = Fields,
           Works(job[w], rows[job[w].import], f, Links), job[w].step \in Linking
    PROVE  Suits(job[w], Paused(w), rows[job[w].import], f, Links)
<1> DEFINE r == job[w]
           t == rows[r.import]
<1>1. CASE r.queue = <<>>
  <2>1. BatchOK(r, t, f, Links) BY DEF Works
  <2> QED BY <1>1, <2>1, RefusedSuits DEF Paused, AddsRoot
<1>2. CASE r.queue # <<>>
  <2>1. /\ Visits(r, t, f, Links) /\ (From(r) = 0 \/ f[Page(w)] # "none") /\ Page(w) = r.queue[r.at]
    BY <1>2, AtCursor DEF Page
  <2>2. LinkCount(r) = Len(Links[r.queue[r.at]]) BY DEF LinkCount
  <2>3. Suits(r, Conclude(r, TRUE), t, f, Links)
    BY <2>1, <2>2, ConcludeSuits DEF FirstVisit
  <2> QED BY <1>2, <2>3 DEF Paused, AddsRoot
<1> QED BY <1>1, <1>2

(* The reservation of the bytes of a row.                                   *)
LEMMA ReserveFine ==
    ASSUME IInv, TableInv, NEW w \in Workers, Reserve(w) PROVE TableInv'
<1> DEFINE r == job[w]
           i == r.import
           t == rows[i]
           f == fate[i]
<1>1. /\ At(w, r.step) /\ r.step = "reserve" /\ UNCHANGED setup
      /\ Either(w, To(w, "insert"), Refused(w)) \/ Either(w, Paused(w), Refused(w))
  BY DEF Reserve, At, Frame, Access, Either, Become, Cancellable
<1>2. UNCHANGED <<run, rows, fate>> BY DEF Reserve, Access, Read, SetReserved, tables
<1>3. /\ Owns(w) /\ w \in Jobs /\ i \in Imports /\ DOMAIN r = Fields
      /\ Linked(Links) /\ Batch \in Nat /\ Table(t, f, Links) /\ Works(r, t, f, Links)
      /\ BatchOK(r, t, f, Links) /\ r.step \in Linking
  BY <1>1, Owned DEF Owning, Linking
<1>4. Suits(r, Refused(w), t, f, Links) BY <1>3, RefusedSuits
<1>5. Suits(r, Paused(w), t, f, Links) BY <1>3, PausedSuits
<1>6. Suits(r, To(w, "insert"), t, f, Links)
  <2>1. CASE r.queue = <<>>
    <3>1. t = <<>> /\ Cut(f) = {} BY <1>1, <1>3, <2>1 DEF Works, Linking
    <3> QED BY <1>3, <2>1, <3>1, LinkingSuits DEF Linking
  <2>2. CASE r.queue # <<>>
    <3>1. LinkOK(r, t, f, Links) BY <1>3, <2>2 DEF Works
    <3>2. Links[Page(w)][r.cursor + 1] \notin Paged(t)
          /\ \A k \in DOMAIN t : t[k].page = Page(w) => t[k].cursor = 0 \/ f[t[k].page] # "none"
      BY <1>1, <3>1 DEF LinkOK, Page
    <3> QED BY <1>3, <2>2, <3>2, LinkingSuits DEF Linking
  <2> QED BY <2>1, <2>2
<1> QED BY <1>1, <1>2, <1>3, <1>4, <1>5, <1>6, OwnerReads

-----------------------------------------------------------------------------

(* A link that was added to the table: adopted into the batch, or left.     *)
LEMMA AdoptSuits ==
    ASSUME NEW L, NEW t, NEW f, NEW r, DOMAIN r = Fields, Works(r, t, f, L), r.step = "insert",
           r.queue # <<>>, NEW u, BatchOK(r, u, f, L), Paged(t) \subseteq Paged(u),
           \A k \in DOMAIN u : u[k].page = r.queue[r.at] => u[k].cursor = 0 \/ f[u[k].page] # "none",
           LET p == L[r.queue[r.at]][r.cursor + 1] IN p \in Paged(u) \ (Range(r.queue) \cup Cut(f)),
           NEW next, DOMAIN next = Fields, next.import = r.import, next.source = r.source,
           next.step = "adopt", next.at = r.at, next.cursor = r.cursor,
           next.queue = r.queue, next.buffer = r.buffer, next.completed = r.completed
    PROVE  Suits(r, next, u, f, L)
<1>1. Ahead(r, f) /\ LinkOK(r, t, f, L) BY DEF Works, Visiting, Linking
<1>2. BatchOK(next, u, f, L) BY DEF BatchOK, Collected
<1>3. Ahead(next, f) BY <1>1 DEF Ahead, Collected
<1>4. LinkOK(next, u, f, L) BY <1>1 DEF LinkOK, Covers, Linking
<1>5. Works(next, u, f, L)
  BY <1>2, <1>3, <1>4 DEF Works, Linking, Visiting, Writing, Written
<1> QED BY <1>5 DEF Suits, Owning, Rooting, Linking

(* The insertion of the row.                                                *)
LEMMA InsertFine ==
    ASSUME IInv, TableInv, NEW w \in Workers, Insert(w) PROVE TableInv'
<1> DEFINE r == job[w]
           i == r.import
           t == rows[i]
           f == fate[i]
           p == Target(w)
           u == Append(t, Entry(p))
           adopt == [To(w, "adopt") EXCEPT !.found = @ + 1]
           q == [r EXCEPT !.found = @ + 1, !.cursor = @ + 1]
           then == IF AddsRoot(w) THEN To(w, "select")
                   ELSE IF Len(r.queue) < Batch THEN adopt ELSE Proceed(q)
           otherwise == To(w, "refund")
<1>1. At(w, r.step) /\ r.step = "insert" /\ UNCHANGED setup
  BY DEF Insert, At, Frame
<1>2. /\ Owns(w) /\ w \in Jobs /\ i \in Imports /\ DOMAIN r = Fields
      /\ Linked(Links) /\ Batch \in Nat /\ Table(t, f, Links) /\ Works(r, t, f, Links)
      /\ BatchOK(r, t, f, Links) /\ r.step \in Linking
      /\ Root \in [Sources -> Pages] /\ r.source \in Sources
      /\ Rooting(r) => run[i].source = r.source
  BY <1>1, Owned DEF Owning, Linking
<1>3. Turns(w, then, otherwise, u, f)
  <2>1. SetRows([rows EXCEPT ![i] = Append(@, Entry(p))]) => Put(i, u, f)
    BY <1>2 DEF SetRows, Put, Elsewhere, TableInv
  <2>2. \/ SetRows([rows EXCEPT ![i] = Append(@, Entry(p))]) /\ job' = [job EXCEPT ![w] = then]
        \/ UNCHANGED tables /\ job' = [job EXCEPT ![w] = otherwise]
        \/ /\ SetRows([rows EXCEPT ![i] = Append(@, Entry(p))])
           /\ job' = [job EXCEPT ![w] = IF otherwise = Idle THEN Idle
                                        ELSE [otherwise EXCEPT !.cancelled = TRUE]]
    BY DEF Insert, Access, Become
  <2> HIDE DEF then, otherwise, u
  <2> QED BY <2>1, <2>2 DEF Turns
<1>4. CASE r.queue = <<>>
  <2>1. t = <<>> /\ Cut(f) = {} BY <1>1, <1>2, <1>4 DEF Works, Linking
  <2>2. p = Root[r.source] /\ p \in Pages /\ p \notin Paged(t) /\ run[i].source = r.source
    BY <1>2, <1>4, <2>1 DEF Target, AddsRoot, Paged, Rooting
  <2>3. Table(u, f, Links) /\ Paged(u) = Paged(t) \cup {p}
    <3>1. Table(t, f, Links) /\ Linked(Links) /\ (t = <<>> => Cut(f) = {})
          /\ p \in Pages /\ p \notin Paged(t)
      BY <1>2, <2>1, <2>2
    <3> HIDE DEF t, f, p
    <3> QED BY <3>1, Appending DEF u
  <2> HIDE DEF u
  <2>4. BatchOK(r, u, f, Links)
    BY <1>2, <2>3 DEF BatchOK, Covers
  <2>5. Suits(r, otherwise, t, f, Links)
    BY <1>2, <1>4, LinkingSuits DEF Linking
  <2>6. Suits(r, otherwise, u, f, Links)
    BY <1>2, <1>4, <2>3, <2>4, LinkingSuits DEF Linking
  <2>7. Suits(r, To(w, "select"), u, f, Links)
    <3> DEFINE next == To(w, "select")
    <3>1. /\ DOMAIN next = Fields /\ next.import = r.import /\ next.source = r.source
          /\ next.step = "select" /\ next.at = r.at /\ next.cursor = r.cursor
          /\ next.queue = r.queue /\ next.buffer = r.buffer /\ next.completed = r.completed
      BY <1>2 DEF To, Fields
    <3> HIDE DEF next
    <3>2. BatchOK(next, u, f, Links) BY <2>4, <3>1 DEF BatchOK, Collected
    <3>3. Works(next, u, f, Links)
      BY <1>4, <3>1, <3>2 DEF Works, Linking, Visiting, Writing, Written
    <3>4. Suits(r, next, u, f, Links) BY <3>1, <3>3 DEF Suits, Owning, Rooting, Linking
    <3> QED BY <3>4 DEF next
  <2>8. then = To(w, "select") BY <1>4 DEF AddsRoot
  <2>9. Root[r.source] \in Paged(u) /\ Paged(t) \subseteq Paged(u) BY <2>2, <2>3
  <2> HIDE DEF then, otherwise
  <2> QED BY <1>1, <1>2, <1>3, <2>2, <2>3, <2>5, <2>6, <2>7, <2>8, <2>9, OwnerAccess
<1>5. CASE r.queue # <<>>
  <2>1. /\ Visits(r, t, f, Links) /\ From(r) \in Nat /\ (From(r) = 0 \/ f[Page(w)] # "none")
        /\ r.cursor \in Nat /\ r.cursor < Len(Links[Page(w)]) /\ Len(Links[Page(w)]) \in Nat
        /\ p = Links[Page(w)][r.cursor + 1] /\ Page(w) = r.queue[r.at] /\ p \in Pages
        /\ Page(w) \in Paged(t)
    BY <1>2, <1>5, AtCursor DEF Page
  <2>2. \A k \in DOMAIN t : t[k].page = Page(w) => t[k].cursor = 0 \/ f[t[k].page] # "none"
    BY <2>1 DEF Visits
  <2>3. p \notin Paged(t)
    <3>1. LinkOK(r, t, f, Links) BY <1>2, <1>5 DEF Works
    <3> QED BY <1>1, <2>1, <3>1 DEF LinkOK, Page
  <2>4. t # <<>> BY SMTT(30), <2>1 DEF Paged
  <2>5. Cut(f) \subseteq Paged(t) BY <1>2, <2>4 DEF Table
  <2>6. /\ Table(u, f, Links) /\ Paged(u) = Paged(t) \cup {p}
        /\ DOMAIN u = 1..(Len(t) + 1) /\ \A k \in DOMAIN t : u[k] = t[k]
    <3>1. /\ Table(t, f, Links) /\ Linked(Links) /\ p \in Pages /\ p \notin Paged(t)
          /\ (t = <<>> => Cut(f) = {})
      BY <1>2, <2>1, <2>3, <2>4
    <3> HIDE DEF t, f, p
    <3>2. LET v == Append(t, Entry(p)) IN
          /\ Table(v, f, Links) /\ Paged(v) = Paged(t) \cup {p} /\ v # <<>>
          /\ DOMAIN v = 1..(Len(t) + 1) /\ \A k \in DOMAIN t : v[k] = t[k]
      BY <3>1, Appending
    <3> QED BY <3>2 DEF u
  <2>7. \A k \in DOMAIN u : u[k].page = Page(w) => u[k].cursor = 0 \/ f[u[k].page] # "none"
    <3> SUFFICES ASSUME NEW k \in DOMAIN u, u[k].page = Page(w)
                 PROVE  u[k].cursor = 0 \/ f[u[k].page] # "none" OBVIOUS
    <3>1. PICK l \in DOMAIN t : t[l].page = Page(w) BY <2>1 DEF Paged
    <3>2. l \in DOMAIN u /\ u[l] = t[l]
      <4>1. DOMAIN t = 1..Len(t) /\ Len(t) \in Nat BY <1>2, LenProperties DEF Table
      <4> HIDE DEF t, u
      <4> QED BY <2>6, <4>1
    <3>3. k = l BY <2>6, <3>1, <3>2 DEF Table
    <3> QED BY <2>2, <3>1, <3>2, <3>3
  <2> HIDE DEF u
  <2>8. BatchOK(r, u, f, Links) BY <1>2, <2>6 DEF BatchOK, Covers
  <2>9. Suits(r, otherwise, t, f, Links)
    BY <1>2, <1>5, <2>1, <2>2, LinkingSuits DEF Linking
  <2>10. Suits(r, otherwise, u, f, Links)
    BY <1>2, <1>5, <2>1, <2>6, <2>7, <2>8, LinkingSuits DEF Linking
  <2>11. Suits(r, adopt, u, f, Links)
    <3>1. /\ DOMAIN adopt = Fields /\ adopt.import = r.import /\ adopt.source = r.source
          /\ adopt.step = "adopt" /\ adopt.at = r.at /\ adopt.cursor = r.cursor
          /\ adopt.queue = r.queue /\ adopt.buffer = r.buffer /\ adopt.completed = r.completed
      BY <1>2 DEF To, Fields
    <3>2. p \notin Range(r.queue) BY <1>2, <2>3 DEF BatchOK
    <3>3. p \in Paged(u) \ (Range(r.queue) \cup Cut(f)) BY <2>3, <2>5, <2>6, <3>2
    <3>4. Links[r.queue[r.at]][r.cursor + 1] = p BY <2>1
    <3> HIDE DEF adopt, r, t, f, p
    <3> QED BY <1>1, <1>2, <1>5, <2>1, <2>6, <2>7, <2>8, <3>1, <3>3, <3>4, AdoptSuits
  <2>12. Suits(r, Proceed(q), u, f, Links)
    <3>1. /\ DOMAIN q = Fields /\ q.queue = r.queue /\ q.at = r.at /\ q.buffer = r.buffer
          /\ q.completed = r.completed /\ q.step = r.step /\ q.import = r.import
          /\ q.source = r.source /\ q.cursor = r.cursor + 1
      BY <1>2 DEF Fields
    <3>2. Covers(u, Links, r.queue[r.at], r.cursor + 1)
      <4>1. Covers(t, Links, r.queue[r.at], r.cursor) BY <2>1 DEF Visits
      <4>2. \A x \in 1..(r.cursor + 1) : x \in 1..r.cursor \/ x = r.cursor + 1 BY <2>1
      <4> QED BY <2>1, <2>6, <4>1, <4>2 DEF Covers
    <3> HIDE DEF q, r, t, f, p
    <3> QED BY <1>2, <2>1, <2>6, <2>7, <3>1, <3>2, LaterSuits
  <2>13. then \in {adopt, Proceed(q)} BY <1>5 DEF AddsRoot
  <2> HIDE DEF then, otherwise, adopt, q
  <2> QED BY <1>1, <1>2, <1>3, <2>4, <2>6, <2>9, <2>10, <2>11, <2>12, <2>13, OwnerAccess
<1> QED BY <1>4, <1>5

(* The return of the reservation of a row that was not inserted.            *)
LEMMA RefundFine ==
    ASSUME IInv, TableInv, NEW w \in Workers, Refund(w) PROVE TableInv'
<1> DEFINE r == job[w]
<1>1. /\ At(w, r.step) /\ r.step = "refund" /\ UNCHANGED setup /\ UNCHANGED <<run, rows, fate>>
      /\ Either(w, Refused(w), Refused(w))
  BY DEF Refund, At, Frame, Access, SetReserved, tables, Either, Become, Cancellable
<1>2. Owns(w) /\ Suits(r, Refused(w), rows[r.import], fate[r.import], Links)
  BY <1>1, Owned, RefusedSuits DEF Owning
<1> QED BY <1>1, <1>2, OwnerReads

(* The page found is taken into the batch that is being visited.            *)
LEMMA AdoptFine ==
    ASSUME IInv, TableInv, NEW w \in Workers, Adopt(w) PROVE TableInv'
<1> DEFINE r == job[w]
           i == r.import
           t == rows[i]
           f == fate[i]
           p == Target(w)
           u == RowSet(t, p, "processing", 0)
           q == [r EXCEPT !.queue = Append(@, p), !.cursor = @ + 1]
<1>1. At(w, r.step) /\ r.step = "adopt" /\ UNCHANGED setup
  BY DEF Adopt, At, Frame
<1>2. /\ Owns(w) /\ w \in Jobs /\ i \in Imports /\ DOMAIN r = Fields
      /\ Linked(Links) /\ Batch \in Nat /\ Table(t, f, Links) /\ Works(r, t, f, Links)
      /\ BatchOK(r, t, f, Links)
  BY <1>1, Owned DEF Owning
<1>3. r.queue # <<>> BY <1>1, <1>2 DEF Works, Visiting, Linking
<1>4. Turns(w, Proceed(q), Refused(w), u, f)
  <2>1. SetRow(i, p, "processing", 0) => Put(i, u, f)
    BY <1>2 DEF SetRow, Put, Elsewhere, TableInv, RowSet
  <2>2. \/ SetRow(i, p, "processing", 0) /\ job' = [job EXCEPT ![w] = Proceed(q)]
        \/ UNCHANGED tables /\ job' = [job EXCEPT ![w] = Refused(w)]
        \/ /\ SetRow(i, p, "processing", 0)
           /\ job' = [job EXCEPT ![w] = IF Refused(w) = Idle THEN Idle
                                        ELSE [Refused(w) EXCEPT !.cancelled = TRUE]]
    BY DEF Adopt, Access, Become
  <2> HIDE DEF u, q
  <2> QED BY <2>1, <2>2 DEF Turns
<1>5. /\ Visits(r, t, f, Links) /\ From(r) \in Nat /\ (From(r) = 0 \/ f[Page(w)] # "none")
      /\ r.cursor \in Nat /\ r.cursor < Len(Links[Page(w)]) /\ Len(Links[Page(w)]) \in Nat
      /\ p = Links[Page(w)][r.cursor + 1] /\ Page(w) = r.queue[r.at] /\ p \in Pages
      /\ Page(w) \in Paged(t)
  BY <1>1, <1>2, <1>3, AtCursor DEF Page
<1>6. LinkOK(r, t, f, Links) BY <1>1, <1>2, <1>3 DEF Works
<1>7. p \in Paged(t) /\ p \notin Range(r.queue) /\ p \notin Cut(f)
  BY <1>1, <1>5, <1>6 DEF LinkOK, Page
<1>8. /\ Table(u, f, Links) /\ Paged(u) = Paged(t) /\ t # <<>>
      /\ \A k \in DOMAIN u : u[k].page = Page(w) => u[k].cursor = 0 \/ f[u[k].page] # "none"
  <2>1. Len(Links[p]) \in Nat BY <1>2, <1>5, LenProperties DEF Linked
  <2>2. Covers(t, Links, p, 0) BY DEF Covers
  <2>3. "processing" \in States /\ "processing" # "done" /\ 0 \in Nat /\ 0 <= Len(Links[p])
    BY <2>1 DEF States
  <2> HIDE DEF t, f, p, u
  <2>4. /\ Table(u, f, Links) /\ Paged(u) = Paged(t) /\ DOMAIN u = DOMAIN t
        /\ \A k \in DOMAIN t : IF t[k].page = p
              THEN u[k].page = p /\ u[k].state = "processing" /\ u[k].cursor = 0 ELSE u[k] = t[k]
    <3>1. /\ Table(t, f, Links) /\ p \in Pages /\ Covers(t, Links, p, 0) /\ p \notin Cut(f)
          /\ "processing" \in States /\ "processing" # "done" /\ 0 <= Len(Links[p])
      BY <1>2, <1>5, <1>7, <2>2, <2>3
    <3> QED BY <3>1, SettingRow DEF u
  <2>5. \A k \in DOMAIN t : t[k].page = Page(w) => t[k].cursor = 0 \/ f[t[k].page] # "none"
    BY <1>5 DEF Visits
  <2>6. t # <<>> BY <1>5 DEF Paged
  <2> QED BY <2>4, <2>5, <2>6
<1> HIDE DEF u
<1>9. Suits(r, Refused(w), t, f, Links) BY <1>2, RefusedSuits
<1>10. BatchOK(r, u, f, Links) BY <1>2, <1>8 DEF BatchOK, Covers
<1>11. Suits(r, Refused(w), u, f, Links) BY <1>2, <1>10, RefusedSuits
<1>12. Suits(r, Proceed(q), u, f, Links)
  <2>1. /\ DOMAIN q = Fields /\ q.queue = Append(r.queue, p) /\ q.at = r.at /\ q.buffer = r.buffer
        /\ q.completed = r.completed /\ q.step = r.step /\ q.import = r.import
        /\ q.source = r.source /\ q.cursor = r.cursor + 1
    BY <1>2 DEF Fields
  <2> HIDE DEF q, r, t, f, p
  <2>2. r.queue \in Seq(Pages) /\ r.completed \in Seq(Pages) BY <1>2 DEF BatchOK
  <2>3. /\ DOMAIN r.queue = 1..Len(r.queue) /\ Len(r.queue) \in Nat
        /\ r.at \in 1..Len(r.queue) /\ Range(r.queue) = {r.queue[k] : k \in DOMAIN r.queue}
    BY <1>5, <2>2, Elements DEF Visits
  <2>4. /\ q.queue \in Seq(Pages) /\ Len(q.queue) = Len(r.queue) + 1
        /\ DOMAIN q.queue = 1..(Len(r.queue) + 1)
        /\ \A k \in 1..Len(r.queue) : q.queue[k] = r.queue[k]
        /\ q.queue[Len(r.queue) + 1] = p
    BY SMTT(30), <1>5, <2>1, <2>2, AppendProperties, LenProperties
  <2>5. Range(q.queue) = Range(r.queue) \cup {p}
    BY <2>3, <2>4 DEF Range
  <2>6. q.queue[q.at] = r.queue[r.at] /\ q.at \in DOMAIN q.queue /\ q.queue # <<>>
    BY <2>1, <2>3, <2>4
  <2>7. Collected(q) = Collected(r) BY <2>1 DEF Collected
  <2>8. p \notin Collected(r) BY <1>2, <1>7 DEF BatchOK
  <2>9. BatchOK(q, u, f, Links)
    <3>1. \A m, n \in DOMAIN q.queue : q.queue[m] = q.queue[n] => m = n
      <4> SUFFICES ASSUME NEW m \in DOMAIN q.queue, NEW n \in DOMAIN q.queue,
                          q.queue[m] = q.queue[n]
                   PROVE  m = n OBVIOUS
      <4>1. \A k \in DOMAIN q.queue : k = Len(r.queue) + 1 \/ q.queue[k] \in Range(r.queue)
        BY <2>3, <2>4
      <4>2. CASE m \in DOMAIN r.queue /\ n \in DOMAIN r.queue
        BY <1>10, <2>3, <2>4, <4>2 DEF BatchOK
      <4>3. CASE ~(m \in DOMAIN r.queue /\ n \in DOMAIN r.queue)
        <5>1. m = Len(r.queue) + 1 \/ n = Len(r.queue) + 1 BY <2>3, <2>4, <4>3
        <5> QED BY <1>7, <2>3, <2>4, <4>1, <5>1
      <4> QED BY <4>2, <4>3
    <3>2. Range(q.queue) \subseteq Paged(u) BY <1>7, <1>8, <1>10, <2>5 DEF BatchOK
    <3>3. /\ q.at \in Nat /\ q.cursor \in Nat /\ q.buffer \subseteq Pages
          /\ q.queue \in Seq(Pages) /\ q.completed \in Seq(Pages)
      BY <1>5, <1>10, <2>1, <2>4 DEF BatchOK
    <3>4. Collected(q) \cap Cut(f) = {} /\ Collected(q) \subseteq Range(q.queue)
      BY <1>10, <2>5, <2>7 DEF BatchOK
    <3>5. \A x \in Range(q.completed) :
             Covers(u, Links, x, Len(Links[x])) /\ (x \in q.buffer \/ f[x] # "none")
      BY <1>10, <2>1 DEF BatchOK
    <3> QED BY <3>1, <3>2, <3>3, <3>4, <3>5 DEF BatchOK
  <2>10. \A k \in q.at..Len(q.queue) : q.queue[k] \notin Cut(f) /\ q.queue[k] \notin Collected(q)
    <3> SUFFICES ASSUME NEW k \in q.at..Len(q.queue)
                 PROVE  q.queue[k] \notin Cut(f) /\ q.queue[k] \notin Collected(q) OBVIOUS
    <3>1. k = Len(r.queue) + 1 \/ (k \in r.at..Len(r.queue) /\ k \in 1..Len(r.queue))
      BY <2>1, <2>3, <2>4
    <3> QED BY <1>5, <1>7, <2>1, <2>3, <2>4, <2>7, <2>8, <3>1 DEF Visits
  <2>11. Covers(u, Links, q.queue[q.at], q.cursor)
    <3>1. Covers(t, Links, r.queue[r.at], r.cursor) BY <1>5 DEF Visits
    <3>2. \A x \in 1..(r.cursor + 1) : x \in 1..r.cursor \/ x = r.cursor + 1 BY <1>5
    <3> QED BY <1>5, <1>7, <1>8, <2>1, <2>6, <3>1, <3>2 DEF Covers
  <2>12. q.cursor <= Len(Links[q.queue[q.at]]) /\ q.cursor \in Nat BY <1>5, <2>1, <2>6
  <2>13. \A k \in DOMAIN u : u[k].page = q.queue[q.at] => u[k].cursor = 0 \/ f[q.queue[q.at]] # "none"
    BY <1>5, <1>8, <2>6
  <2>14. Visits(q, u, f, Links)
    BY <2>1, <2>6, <2>9, <2>10, <2>11, <2>12, <2>13 DEF Visits
  <2>15. From(q) = From(r) BY <2>1, <2>6 DEF From
  <2>16. From(q) \in Nat /\ (From(q) = 0 \/ f[q.queue[q.at]] # "none") BY <1>5, <2>6, <2>15
  <2>17. q.step # "advance" BY <1>1, <2>1
  <2>18. Suits(q, Proceed(q), u, f, Links) BY <1>2, <2>14, <2>16, <2>17, ProceedSuits
  <2>19. Rooting(q) => Rooting(r) BY <2>6 DEF Rooting
  <2> QED BY <2>1, <2>18, <2>19, SuitsBefore
<1> QED BY <1>1, <1>2, <1>4, <1>8, <1>9, <1>11, <1>12, OwnerAccess

-----------------------------------------------------------------------------
(* A batch *)

(* The claimed pages, in order: pages of the table, each once.              *)
LEMMA ClaimedPages ==
    ASSUME NEW L, NEW t, NEW f, Table(t, f, L), NEW S, S \subseteq DOMAIN t,
           \A k \in S : t[k].state = "pending", NEW first \in InOrder(S)
    PROVE  LET queue == [n \in DOMAIN first |-> t[first[n]].page] IN
           /\ queue \in Seq(Pages) /\ DOMAIN queue = 1..Len(queue) /\ Len(queue) \in Nat
           /\ Range(queue) \subseteq Paged(t)
           /\ \A m, n \in DOMAIN queue : queue[m] = queue[n] => m = n
           /\ \A n \in DOMAIN queue : \E l \in DOMAIN t :
                 t[l].page = queue[n] /\ t[l].state = "pending"
           /\ \A n \in DOMAIN queue : queue[n] \notin Cut(f)
<1> DEFINE queue == [n \in DOMAIN first |-> t[first[n]].page]
           N == Cardinality(S)
<1>1. t \in Seq(Row) /\ DOMAIN t = 1..Len(t) /\ Len(t) \in Nat /\ \A k \in DOMAIN t : t[k] \in Row
  BY Elements DEF Table
<1>2. IsFiniteSet(S) /\ N \in Nat
  <2>1. IsFiniteSet(1..Len(t)) BY <1>1, FS_Interval
  <2>2. IsFiniteSet(DOMAIN t) BY <1>1, <2>1
  <2>3. IsFiniteSet(S) BY <2>2, FS_Subset
  <2> QED BY <2>3, FS_CardinalityType
<1>3. first \in [1..N -> S] /\ \A m, n \in 1..N : m < n => first[m] < first[n]
  BY DEF InOrder
<1>4. DOMAIN queue = 1..N /\ \A n \in 1..N : first[n] \in DOMAIN t /\ first[n] \in S
         /\ queue[n] = t[first[n]].page /\ queue[n] \in Pages
  BY <1>1, <1>3 DEF Row
<1> HIDE DEF N
<1>5. queue \in Seq(Pages) /\ Len(queue) = N
  <2>1. queue = [n \in 1..N |-> queue[n]] BY <1>4
  <2> HIDE DEF queue
  <2>2. queue \in [1..N -> Pages] BY <1>4, <2>1
  <2>3. queue \in Seq(Pages) BY <1>2, <2>2, SeqDef
  <2> QED BY <1>2, <1>4, <2>3, LenProperties
<1>6. Range(queue) \subseteq Paged(t) BY <1>4 DEF Range, Paged
<1>7. \A m, n \in 1..N : first[m] = first[n] => m = n
  <2> SUFFICES ASSUME NEW m \in 1..N, NEW n \in 1..N, first[m] = first[n], m # n PROVE FALSE
    OBVIOUS
  <2>1. m < n \/ n < m BY <1>2
  <2>2. first[m] \in Nat BY <1>1, <1>4
  <2> QED BY <1>3, <2>1, <2>2
<1>8. \A m, n \in 1..N : queue[m] = queue[n] => m = n
  BY <1>4, <1>7 DEF Table
<1>9. \A n \in 1..N : \E l \in DOMAIN t : t[l].page = queue[n] /\ t[l].state = "pending"
  BY <1>4
<1>10. \A n \in 1..N : queue[n] \notin Cut(f)
  <2> SUFFICES ASSUME NEW n \in 1..N PROVE queue[n] \notin Cut(f) OBVIOUS
  <2>1. RowOK(t[first[n]], t, f, L) /\ t[first[n]].state = "pending" BY <1>4 DEF Table
  <2> QED BY <1>4, <2>1 DEF RowOK
<1> HIDE DEF queue
<1>11. DOMAIN queue = 1..Len(queue) /\ Len(queue) \in Nat BY <1>2, <1>4, <1>5
<1>12. /\ \A m, n \in DOMAIN queue : queue[m] = queue[n] => m = n
       /\ \A n \in DOMAIN queue : \E l \in DOMAIN t : t[l].page = queue[n] /\ t[l].state = "pending"
       /\ \A n \in DOMAIN queue : queue[n] \notin Cut(f)
  BY <1>4, <1>8, <1>9, <1>10
<1> QED BY <1>5, <1>6, <1>11, <1>12 DEF queue

(* What is taken next, or the first page, or nothing was there to take.     *)
LEMMA TakenSuits ==
    ASSUME NEW r, DOMAIN r = Fields, NEW q, DOMAIN q = Fields, q.import = r.import,
           q.source = r.source, NEW L, NEW t, NEW f, BatchOK(q, t, f, L), Collected(q) = {},
           Range(q.queue) \cap Cut(f) = {}, q.at >= 1,
           \A k \in q.at..Len(q.queue) : \E l \in DOMAIN t :
                t[l].page = q.queue[k] /\ t[l].state = "pending"
    PROVE  Suits(r, Taken(q), t, f, L)
<1> DEFINE taking == [q EXCEPT !.step = "take"]
           empty == [q EXCEPT !.step = "release", !.error = TRUE]
           visit == [q EXCEPT !.step = "page", !.at = 1]
<1>1. /\ q.queue \in Seq(Pages) /\ DOMAIN q.queue = 1..Len(q.queue) /\ Len(q.queue) \in Nat
      /\ Range(q.queue) = {q.queue[k] : k \in DOMAIN q.queue} /\ q.at \in Nat /\ q.cursor \in Nat
      /\ q.queue # <<>> => Len(q.queue) # 0
  BY Elements DEF BatchOK
<1>2. Taken(q) = IF q.at <= Len(q.queue) THEN taking ELSE IF q.queue = <<>> THEN empty ELSE visit
  BY DEF Taken
<1>3. CASE q.at <= Len(q.queue)
  <2>1. /\ DOMAIN taking = Fields /\ taking.import = r.import /\ taking.source = r.source
        /\ taking.step = "take" /\ taking.at = q.at /\ taking.cursor = q.cursor
        /\ taking.queue = q.queue /\ taking.buffer = q.buffer /\ taking.completed = q.completed
    BY DEF Fields
  <2> HIDE DEF taking
  <2>2. BatchOK(taking, t, f, L) /\ Collected(taking) = {} BY <2>1 DEF BatchOK, Collected
  <2>3. q.at \in DOMAIN q.queue BY <1>1, <1>3
  <2>4. Works(taking, t, f, L)
    BY <2>1, <2>2, <2>3 DEF Works, Linking, Visiting, Writing, Written
  <2>5. Suits(r, taking, t, f, L) BY <2>1, <2>4 DEF Suits, Owning, Rooting, Linking
  <2> QED BY <1>2, <1>3, <2>5
<1>4. CASE ~(q.at <= Len(q.queue)) /\ q.queue = <<>>
  <2>1. /\ DOMAIN empty = Fields /\ empty.import = q.import /\ empty.source = q.source
        /\ empty.step = "release" /\ empty.error = TRUE /\ empty.at = q.at /\ empty.cursor = q.cursor
        /\ empty.queue = q.queue /\ empty.buffer = q.buffer /\ empty.completed = q.completed
    BY DEF Fields
  <2> HIDE DEF empty
  <2>2. Suits(q, empty, t, f, L) BY <1>1, <2>1, RestSuits
  <2>3. ~Rooting(empty) BY <2>1 DEF Rooting, Linking
  <2>4. Suits(r, empty, t, f, L) BY <2>2, <2>3 DEF Suits
  <2> QED BY <1>2, <1>4, <2>4
<1>5. CASE ~(q.at <= Len(q.queue)) /\ q.queue # <<>>
  <2>1. /\ DOMAIN visit = Fields /\ visit.import = r.import /\ visit.source = r.source
        /\ visit.step = "page" /\ visit.at = 1 /\ visit.cursor = q.cursor
        /\ visit.queue = q.queue /\ visit.buffer = q.buffer /\ visit.completed = q.completed
    BY DEF Fields
  <2> HIDE DEF visit
  <2>2. BatchOK(visit, t, f, L) /\ Collected(visit) = {} BY <2>1 DEF BatchOK, Collected
  <2>3. Ahead(visit, f) BY <1>1, <1>5, <2>1, <2>2 DEF Ahead
  <2>4. Works(visit, t, f, L)
    BY <1>5, <2>1, <2>2, <2>3 DEF Works, Linking, Visiting, Writing, Written
  <2>5. Suits(r, visit, t, f, L) BY <2>1, <2>4 DEF Suits, Owning, Rooting, Linking
  <2> QED BY <1>2, <1>5, <2>5
<1> QED BY <1>3, <1>4, <1>5

(* The selection of a batch (ClaimImportFrontierPages).                     *)
LEMMA SelectFine ==
    ASSUME IInv, TableInv, NEW w \in Workers, Select(w) PROVE TableInv'
<1> DEFINE r == job[w]
           i == r.import
           t == rows[i]
           f == fate[i]
           Batched(queue) == [r EXCEPT !.at = 1, !.queue = queue]
           Claimed(first) == [n \in DOMAIN first |-> t[first[n]].page]
           S == Oldest(Holding(i, "pending"), Batch)
<1>1. At(w, r.step) /\ r.step = "select" /\ UNCHANGED setup /\ UNCHANGED <<run, rows, fate>>
  BY DEF Select, At, Frame, Access, Read, tables
<1>2. PICK first \in InOrder(S) : Either(w, Taken(Batched(Claimed(first))), ToPartial(r, TRUE))
  BY DEF Select, Access, Become, Cancellable, Either
<1>3. /\ Owns(w) /\ i \in Imports /\ DOMAIN r = Fields /\ Table(t, f, Links)
      /\ Works(r, t, f, Links) /\ BatchOK(r, t, f, Links)
  BY <1>1, Owned DEF Owning
<1>4. Suits(r, ToPartial(r, TRUE), t, f, Links) BY <1>3, PartialSuits
<1>5. Collected(r) = {}
  <2>1. r.queue = <<>> BY <1>1, <1>3 DEF Works
  <2>2. r.queue \in Seq(Pages) BY <1>3 DEF BatchOK
  <2>3. Range(r.queue) = {}
    <3>1. DOMAIN r.queue = {} BY <2>1
    <3> QED BY <3>1 DEF Range
  <2> QED BY <1>3, <2>3 DEF BatchOK
<1>6. S \subseteq DOMAIN t /\ \A k \in S : t[k].state = "pending" BY DEF Oldest, Holding
<1> DEFINE queue == Claimed(first)
           q == Batched(queue)
<1>7. /\ queue \in Seq(Pages) /\ DOMAIN queue = 1..Len(queue) /\ Len(queue) \in Nat
      /\ Range(queue) \subseteq Paged(t)
      /\ \A m, n \in DOMAIN queue : queue[m] = queue[n] => m = n
      /\ \A n \in DOMAIN queue : \E l \in DOMAIN t :
            t[l].page = queue[n] /\ t[l].state = "pending"
      /\ \A n \in DOMAIN queue : queue[n] \notin Cut(f)
  <2>1. Table(t, f, Links) BY <1>3
  <2> HIDE DEF t, f, S
  <2> QED BY <1>6, <2>1, ClaimedPages
<1> HIDE DEF queue, Claimed
<1>8. /\ DOMAIN q = Fields /\ q.queue = queue /\ q.at = 1 /\ q.buffer = r.buffer
      /\ q.completed = r.completed /\ q.import = r.import /\ q.source = r.source
      /\ q.cursor = r.cursor
  BY <1>3 DEF Fields
<1> HIDE DEF q, Batched, S
<1>9. BatchOK(q, t, f, Links) /\ Collected(q) = {} BY <1>3, <1>5, <1>7, <1>8 DEF BatchOK, Collected
<1>10. Range(queue) \cap Cut(f) = {} BY <1>7 DEF Range
<1>11. Suits(r, Taken(q), t, f, Links) BY <1>3, <1>7, <1>8, <1>9, <1>10, TakenSuits
<1> QED BY <1>1, <1>2, <1>3, <1>4, <1>11, OwnerReads DEF q, queue

(* The update that takes one selected page.                                 *)
LEMMA TakeFine ==
    ASSUME IInv, TableInv, NEW w \in Workers, Take(w) PROVE TableInv'
<1> DEFINE r == job[w]
           i == r.import
           t == rows[i]
           f == fate[i]
           p == Page(w)
           c == CursorOf(i, p)
           u == RowSet(t, p, "processing", c)
           q == [r EXCEPT !.at = @ + 1]
           otherwise == ToPartial(r, TRUE)
<1>1. At(w, r.step) /\ r.step = "take" /\ UNCHANGED setup
  BY DEF Take, At, Frame
<1>2. /\ Owns(w) /\ i \in Imports /\ DOMAIN r = Fields /\ Table(t, f, Links)
      /\ Works(r, t, f, Links) /\ BatchOK(r, t, f, Links)
  BY <1>1, Owned DEF Owning
<1>3. /\ r.at \in DOMAIN r.queue /\ Collected(r) = {} /\ Range(r.queue) \cap Cut(f) = {}
      /\ \A k \in r.at..Len(r.queue) : \E l \in DOMAIN t :
            t[l].page = r.queue[k] /\ t[l].state = "pending"
  BY <1>1, <1>2 DEF Works
<1>4. /\ r.queue \in Seq(Pages) /\ DOMAIN r.queue = 1..Len(r.queue) /\ Len(r.queue) \in Nat
      /\ Range(r.queue) = {r.queue[k] : k \in DOMAIN r.queue} /\ p \in Pages /\ p = r.queue[r.at]
  BY <1>2, <1>3, Elements DEF BatchOK, Page
<1>5. PICK l \in DOMAIN t : t[l].page = p /\ t[l].state = "pending" BY <1>3, <1>4
<1>6. p \in {rows[i][k].page : k \in Holding(i, "pending")} BY <1>5 DEF Holding
<1>7. Turns(w, Taken(q), otherwise, u, f)
  <2>1. SetRow(i, p, "processing", c) => Put(i, u, f)
    BY <1>2 DEF SetRow, Put, Elsewhere, TableInv, RowSet
  <2>2. \/ SetRow(i, p, "processing", c) /\ job' = [job EXCEPT ![w] = Taken(q)]
        \/ UNCHANGED tables /\ job' = [job EXCEPT ![w] = otherwise]
        \/ /\ SetRow(i, p, "processing", c)
           /\ job' = [job EXCEPT ![w] = IF otherwise = Idle THEN Idle
                                        ELSE [otherwise EXCEPT !.cancelled = TRUE]]
    BY <1>6 DEF Take, Access, Become
  <2> HIDE DEF u, q, otherwise
  <2> QED BY <2>1, <2>2 DEF Turns
<1>8. c \in Nat /\ c <= Len(Links[p]) /\ Covers(t, Links, p, c) /\ p \notin Cut(f)
  <2>1. p \in Paged(t) BY <1>5 DEF Paged
  <2>2. PICK k \in DOMAIN t : /\ t[k].page = p /\ c = t[k].cursor /\ c \in Nat
                              /\ RowOK(t[k], t, f, Links)
    <3>1. Table(rows[i], f, Links) /\ p \in Paged(rows[i]) BY <1>2, <2>1
    <3> HIDE DEF i, f, p
    <3> QED BY ZenonT(30), <3>1, CursorIs DEF t, c
  <2>3. k = l BY <1>2, <1>5, <2>2 DEF Table
  <2> QED BY <1>5, <2>2, <2>3 DEF RowOK
<1>9. /\ Table(u, f, Links) /\ Paged(u) = Paged(t) /\ t # <<>> /\ DOMAIN u = DOMAIN t
      /\ \A k \in DOMAIN t : t[k].page # p => u[k] = t[k]
  <2>1. /\ Table(t, f, Links) /\ p \in Pages /\ c \in Nat /\ c <= Len(Links[p])
        /\ Covers(t, Links, p, c) /\ p \notin Cut(f)
        /\ "processing" \in States /\ "processing" # "done"
    BY <1>2, <1>4, <1>8 DEF States
  <2>2. t # <<>> BY <1>5
  <2> HIDE DEF t, f, p, c
  <2>3. /\ Table(u, f, Links) /\ Paged(u) = Paged(t) /\ DOMAIN u = DOMAIN t
        /\ \A k \in DOMAIN t : IF t[k].page = p
              THEN u[k].page = p /\ u[k].state = "processing" /\ u[k].cursor = c ELSE u[k] = t[k]
    BY <2>1, SettingRow DEF u
  <2> QED BY <2>2, <2>3
<1> HIDE DEF u
<1>10. BatchOK(r, u, f, Links) BY <1>2, <1>9 DEF BatchOK, Covers
<1>11. Suits(r, otherwise, t, f, Links) /\ Suits(r, otherwise, u, f, Links)
  BY <1>2, <1>10, PartialSuits
<1>12. Suits(r, Taken(q), u, f, Links)
  <2>1. /\ DOMAIN q = Fields /\ q.queue = r.queue /\ q.at = r.at + 1 /\ q.buffer = r.buffer
        /\ q.completed = r.completed /\ q.import = r.import /\ q.source = r.source
        /\ q.cursor = r.cursor
    BY <1>2 DEF Fields
  <2> HIDE DEF q
  <2>2. BatchOK(q, u, f, Links) /\ Collected(q) = {}
    <3>1. q.at \in Nat BY <1>3, <1>4, <2>1
    <3>2. Collected(q) = Collected(r) BY <2>1 DEF Collected
    <3> QED BY <1>3, <1>10, <2>1, <3>1, <3>2 DEF BatchOK
  <2>3. \A k \in q.at..Len(q.queue) : \E x \in DOMAIN u :
            u[x].page = q.queue[k] /\ u[x].state = "pending"
    <3> SUFFICES ASSUME NEW k \in q.at..Len(q.queue)
                 PROVE  \E x \in DOMAIN u : u[x].page = q.queue[k] /\ u[x].state = "pending"
      OBVIOUS
    <3>1. k \in r.at..Len(r.queue) /\ k \in DOMAIN r.queue /\ k # r.at BY <1>3, <1>4, <2>1
    <3>2. r.queue[k] # p BY <1>2, <1>3, <1>4, <3>1 DEF BatchOK
    <3>3. PICK x \in DOMAIN t : t[x].page = r.queue[k] /\ t[x].state = "pending"
      BY <1>3, <3>1
    <3> QED BY <1>9, <2>1, <3>2, <3>3
  <2>4. q.at >= 1 BY <1>3, <1>4, <2>1
  <2> HIDE DEF r, f
  <2> QED BY <1>2, <1>3, <2>1, <2>2, <2>3, <2>4, TakenSuits DEF r, f
<1> HIDE DEF otherwise, q
<1> QED BY <1>1, <1>2, <1>7, <1>9, <1>11, <1>12, OwnerAccess

-----------------------------------------------------------------------------
(* A page of the batch *)

(* Who is at a page knows the page.                                         *)
LEMMA Visited ==
    ASSUME NEW r, NEW L, NEW t, NEW f, BatchOK(r, t, f, L), Ahead(r, f)
    PROVE  LET p == r.queue[r.at] IN
           /\ DOMAIN r.queue = 1..Len(r.queue) /\ Len(r.queue) \in Nat /\ r.at \in 1..Len(r.queue)
           /\ p \in Pages /\ p \in Paged(t) /\ p \notin Cut(f) /\ t # <<>> /\ r.queue # <<>>
           /\ r.step # "advance" => p \notin Collected(r)
           /\ \A k \in (r.at + 1)..Len(r.queue) :
                 r.queue[k] \notin Cut(f) /\ r.queue[k] \notin Collected(r) /\ r.queue[k] # p
<1> DEFINE p == r.queue[r.at]
<1>1. /\ DOMAIN r.queue = 1..Len(r.queue) /\ Len(r.queue) \in Nat /\ r.at \in DOMAIN r.queue
      /\ p \in Pages /\ p \in Range(r.queue) /\ r.queue # <<>>
  BY Elements DEF BatchOK, Ahead
<1>2. p \in Paged(t) BY <1>1 DEF BatchOK
<1>3. t # <<>> BY <1>2 DEF Paged
<1>4. p \notin Cut(f) /\ (r.step # "advance" => p \notin Collected(r)) BY <1>1 DEF Ahead
<1>5. \A k \in (r.at + 1)..Len(r.queue) :
         r.queue[k] \notin Cut(f) /\ r.queue[k] \notin Collected(r) /\ r.queue[k] # p
  <2> SUFFICES ASSUME NEW k \in (r.at + 1)..Len(r.queue)
               PROVE  r.queue[k] \notin Cut(f) /\ r.queue[k] \notin Collected(r) /\ r.queue[k] # p
    OBVIOUS
  <2>1. k \in r.at..Len(r.queue) /\ k \in DOMAIN r.queue /\ k # r.at BY <1>1
  <2> QED BY <1>1, <2>1 DEF Ahead, BatchOK
<1> QED BY <1>1, <1>2, <1>3, <1>4, <1>5

(* A page is fetched, and its first link is looked at.                      *)
LEMMA VisitFine ==
    ASSUME IInv, TableInv, NEW w \in Workers, Visit(w) PROVE TableInv'
<1> DEFINE r == job[w]
           i == r.import
           t == rows[i]
           f == fate[i]
           p == Page(w)
           c == CursorOf(i, p)
           g == IF c > 0 /\ f[p] = "none" THEN [f EXCEPT ![p] = "skipped"] ELSE f
           q == [r EXCEPT !.misses = 0, !.cursor = c]
           leaving == [To(w, "release") EXCEPT !.error = FALSE]
           missing == [To(w, "give_up") EXCEPT !.misses = @ + 1]
<1>1. At(w, r.step) /\ r.step = "page" /\ UNCHANGED setup
  BY DEF Visit, At, Frame
<1>2. /\ Owns(w) /\ i \in Imports /\ DOMAIN r = Fields /\ Table(t, f, Links)
      /\ Works(r, t, f, Links) /\ BatchOK(r, t, f, Links) /\ Linked(Links) /\ Batch \in Nat
  BY <1>1, Owned DEF Owning
<1>3. Ahead(r, f) /\ p = r.queue[r.at] /\ r.queue # <<>> BY <1>1, <1>2 DEF Works, Visiting, Linking, Page
<1>4. /\ r.at \in DOMAIN r.queue /\ p \in Pages /\ p \in Paged(t) /\ p \notin Cut(f) /\ t # <<>>
      /\ p \notin Collected(r)
      /\ \A k \in r.at..Len(r.queue) : r.queue[k] \notin Cut(f) /\ r.queue[k] \notin Collected(r)
  BY <1>1, <1>2, <1>3, Visited DEF Ahead
<1>5. \/ Put(i, t, f) /\ job' = [job EXCEPT ![w] = leaving]
      \/ Put(i, t, g) /\ job' = [job EXCEPT ![w] = Proceed(q)]
      \/ Put(i, t, f) /\ job' = [job EXCEPT ![w] = missing]
  <2>1. UNCHANGED tables => Put(i, t, f) BY <1>2 DEF tables, Put, Elsewhere, TableInv
  <2>2. f \in [Pages -> Fates] BY <1>2 DEF Table
  <2>3. fate' = (IF c > 0 /\ f[p] = "none" THEN [fate EXCEPT ![i][p] = "skipped"] ELSE fate)
        /\ UNCHANGED <<run, rows>> => Put(i, t, g)
    BY <1>2 DEF Put, Elsewhere, TableInv
  <2>4. \/ UNCHANGED tables /\ job' = [job EXCEPT ![w] = leaving]
        \/ /\ fate' = (IF c > 0 /\ f[p] = "none" THEN [fate EXCEPT ![i][p] = "skipped"] ELSE fate)
           /\ UNCHANGED <<run, rows>> /\ job' = [job EXCEPT ![w] = Proceed(q)]
        \/ UNCHANGED tables /\ job' = [job EXCEPT ![w] = missing]
    BY DEF Visit, Become
  <2> HIDE DEF leaving, missing, q, g, c
  <2> QED BY <2>1, <2>3, <2>4
<1>6. Suits(r, leaving, t, f, Links)
  <2>1. /\ DOMAIN leaving = Fields /\ leaving.import = r.import /\ leaving.source = r.source
        /\ leaving.step = "release" /\ leaving.at = r.at /\ leaving.cursor = r.cursor
        /\ leaving.queue = r.queue /\ leaving.buffer = r.buffer /\ leaving.completed = r.completed
    BY <1>2 DEF To, Fields
  <2>2. r.at \in Nat /\ r.cursor \in Nat BY <1>2 DEF BatchOK
  <2> HIDE DEF leaving
  <2> QED BY <1>2, <1>3, <2>1, <2>2, RestSuits
<1>7. Suits(r, missing, t, f, Links)
  <2>1. /\ DOMAIN missing = Fields /\ missing.import = r.import /\ missing.source = r.source
        /\ missing.step = "give_up" /\ missing.at = r.at /\ missing.cursor = r.cursor
        /\ missing.queue = r.queue /\ missing.buffer = r.buffer /\ missing.completed = r.completed
    BY <1>2 DEF To, Fields
  <2> HIDE DEF missing
  <2>2. BatchOK(missing, t, f, Links) BY <1>2, <2>1 DEF BatchOK, Collected
  <2>3. Ahead(missing, f) BY <1>4, <2>1 DEF Ahead, Collected
  <2>4. Works(missing, t, f, Links)
    BY <1>3, <2>1, <2>2, <2>3 DEF Works, Linking, Visiting, Writing, Written
  <2> QED BY <1>3, <2>1, <2>4 DEF Suits, Owning, Rooting
<1>8. PICK k \in DOMAIN t : /\ t[k].page = p /\ c = t[k].cursor /\ c \in Nat
                            /\ RowOK(t[k], t, f, Links)
  <2>1. Table(rows[i], f, Links) /\ p \in Paged(rows[i]) BY <1>2, <1>4
  <2> HIDE DEF i, f, p
  <2> QED BY ZenonT(30), <2>1, CursorIs DEF t, c
<1>9. c <= Len(Links[p]) /\ Covers(t, Links, p, c)
  <2>1. Len(Links[p]) \in Nat BY <1>2, <1>4, LenProperties DEF Linked
  <2>2. CASE t[k].state # "done" BY <1>8, <2>2 DEF RowOK
  <2>3. CASE t[k].state = "done"
    <3>1. c <= Len(Links[p]) /\ Covers(t, Links, p, Len(Links[p])) BY <1>4, <1>8, <2>3 DEF RowOK
    <3> QED BY <1>8, <2>1, <3>1 DEF Covers
  <2> QED BY <2>2, <2>3
<1>10. /\ g \in [Pages -> Fates] /\ Cut(g) = Cut(f) /\ (c = 0 \/ g[p] # "none")
       /\ \A x \in Pages : g[x] = "none" => f[x] = "none"
  <2>1. f \in [Pages -> Fates] BY <1>2 DEF Table
  <2> HIDE DEF f, p, c
  <2>2. CASE c > 0 /\ f[p] = "none"
    <3>1. g = [f EXCEPT ![p] = "skipped"] BY <2>2
    <3>2. /\ g \in [Pages -> Fates] /\ g[p] = "skipped" /\ \A x \in Pages \ {p} : g[x] = f[x]
      BY <1>4, <2>1, <3>1 DEF Fates
    <3> HIDE DEF g
    <3> QED BY <1>4, <2>2, <3>2 DEF Cut
  <2>3. CASE ~(c > 0 /\ f[p] = "none")
    <3>1. g = f BY <2>3
    <3>2. c = 0 \/ f[p] # "none" BY <1>8, <2>3
    <3> HIDE DEF g
    <3> QED BY <2>1, <3>1, <3>2
  <2> QED BY <2>2, <2>3
<1> HIDE DEF g
<1>11. Table(t, g, Links) BY <1>2, <1>10, Faring
<1>12. Suits(r, Proceed(q), t, g, Links)
  <2>1. /\ DOMAIN q = Fields /\ q.queue = r.queue /\ q.at = r.at /\ q.buffer = r.buffer
        /\ q.completed = r.completed /\ q.import = r.import /\ q.source = r.source
        /\ q.step = r.step /\ q.cursor = c
    BY <1>2 DEF Fields
  <2>2. \A x \in DOMAIN t : t[x].page = p => t[x].cursor = 0 \/ g[p] # "none"
    <3> SUFFICES ASSUME NEW x \in DOMAIN t, t[x].page = p
                 PROVE  t[x].cursor = 0 \/ g[p] # "none" OBVIOUS
    <3>1. x = k BY <1>2, <1>8 DEF Table
    <3> QED BY <1>8, <1>10, <3>1
  <2> HIDE DEF q
  <2>3. BatchOK(q, t, g, Links)
    <3>1. Collected(r) \cap Cut(g) = {} BY <1>2, <1>10 DEF BatchOK
    <3>2. BatchOK(r, t, g, Links) BY <1>2, <1>10, <3>1, BatchGrows
    <3> QED BY <1>8, <2>1, <3>2 DEF BatchOK, Collected
  <2>4. Visits(q, t, g, Links)
    <3>1. Collected(q) = Collected(r) BY <2>1 DEF Collected
    <3> QED BY <1>3, <1>4, <1>8, <1>9, <1>10, <2>1, <2>2, <2>3, <3>1 DEF Visits
  <2>5. From(q) = c BY <1>3, <2>1 DEF From
  <2>6. q.queue[q.at] = p BY <1>3, <2>1
  <2>7. From(q) \in Nat /\ (From(q) = 0 \/ g[q.queue[q.at]] # "none") BY <1>8, <1>10, <2>5, <2>6
  <2>8. q.step # "advance" BY <1>1, <2>1
  <2>9. Suits(q, Proceed(q), t, g, Links) BY <1>2, <2>4, <2>7, <2>8, ProceedSuits
  <2>10. Rooting(q) => Rooting(r) BY <1>3, <2>1 DEF Rooting
  <2> QED BY <2>1, <2>9, <2>10, SuitsBefore
<1> HIDE DEF leaving, missing, q
<1> QED BY <1>1, <1>2, <1>4, <1>5, <1>6, <1>7, <1>11, <1>12, OwnerStep

(* A page that could not be fetched, or whose links came to nothing.        *)
LEMMA GiveUpFine ==
    ASSUME IInv, TableInv, NEW w \in Workers, GiveUp(w) PROVE TableInv'
<1> DEFINE r == job[w]
           i == r.import
           t == rows[i]
           f == fate[i]
           p == Page(w)
           v == IF f[p] = "stored" THEN "cut" ELSE "failed"
           u == RowDone(t, p)
           g == [f EXCEPT ![p] = v]
<1>1. At(w, r.step) /\ r.step = "give_up" /\ UNCHANGED setup
  BY DEF GiveUp, At, Frame
<1>2. /\ Owns(w) /\ i \in Imports /\ DOMAIN r = Fields /\ Table(t, f, Links)
      /\ Works(r, t, f, Links) /\ BatchOK(r, t, f, Links)
  BY <1>1, Owned DEF Owning
<1>3. Ahead(r, f) /\ p = r.queue[r.at] BY <1>1, <1>2 DEF Works, Visiting, Linking, Page
<1>4. /\ r.at \in DOMAIN r.queue /\ p \in Pages /\ p \in Paged(t) /\ p \notin Cut(f) /\ t # <<>>
      /\ p \notin Collected(r)
      /\ \A k \in (r.at + 1)..Len(r.queue) :
            r.queue[k] \notin Cut(f) /\ r.queue[k] \notin Collected(r) /\ r.queue[k] # p
  BY <1>1, <1>2, <1>3, Visited
<1>5. Turns(w, NextPage(r), NextPage(r), u, g)
  <2> DEFINE effect ==
        /\ rows' = [rows EXCEPT ![i] = [k \in DOMAIN @ |->
              IF @[k].page = p THEN [@[k] EXCEPT !.state = "done"] ELSE @[k]]]
        /\ fate' = [fate EXCEPT ![i][p] = IF @ = "stored" THEN "cut" ELSE "failed"]
        /\ UNCHANGED <<run, reserved>>
  <2>1. effect => Put(i, u, g)
    BY <1>2 DEF Put, Elsewhere, TableInv, RowDone
  <2>2. \/ effect /\ job' = [job EXCEPT ![w] = NextPage(r)]
        \/ UNCHANGED tables /\ job' = [job EXCEPT ![w] = NextPage(r)]
        \/ /\ effect
           /\ job' = [job EXCEPT ![w] = IF NextPage(r) = Idle THEN Idle
                                        ELSE [NextPage(r) EXCEPT !.cancelled = TRUE]]
    BY DEF GiveUp, Access, Become
  <2> HIDE DEF effect, u, g
  <2> QED BY <2>1, <2>2 DEF Turns
<1>6. v \in {"failed", "cut"} OBVIOUS
<1>7. /\ Table(u, g, Links) /\ Paged(u) = Paged(t) /\ Cut(g) = Cut(f) \cup {p}
      /\ \A q \in Pages : g[q] = "none" => f[q] = "none"
  <2>1. Table(t, f, Links) /\ p \in Paged(t) /\ p \in Pages BY <1>2, <1>4
  <2>2. f \in [Pages -> Fates] BY <1>2 DEF Table
  <2>3. /\ g \in [Pages -> Fates] /\ g[p] \in {"failed", "cut"}
        /\ \A q \in Pages \ {p} : g[q] = f[q]
    BY <1>4, <1>6, <2>2 DEF Fates
  <2>4. u = RowDone(t, p) OBVIOUS
  <2> HIDE DEF t, f, p, v, u, g
  <2> QED BY <2>1, <2>3, <2>4, GivingUp
<1> HIDE DEF u, g
<1>8. BatchOK(r, u, g, Links)
  <2>1. Collected(r) \cap Cut(g) = {} BY <1>2, <1>4, <1>7 DEF BatchOK
  <2> QED BY <1>2, <1>7, <2>1, BatchGrows
<1>9. Suits(r, NextPage(r), u, g, Links)
  BY <1>2, <1>4, <1>7, <1>8, NextPageSuits
<1>10. Suits(r, NextPage(r), t, f, Links)
  BY <1>2, <1>4, NextPageSuits
<1> QED BY <1>1, <1>2, <1>4, <1>5, <1>7, <1>9, <1>10, OwnerAccess

(* A page with many links is put back, with the link to go on with.         *)
LEMMA AdvanceFine ==
    ASSUME IInv, TableInv, NEW w \in Workers, Advance(w) PROVE TableInv'
<1> DEFINE r == job[w]
           i == r.import
           t == rows[i]
           f == fate[i]
           p == Page(w)
           c == r.cursor
           u == RowSet(t, p, "pending", c)
<1>1. At(w, r.step) /\ r.step = "advance" /\ UNCHANGED setup
  BY DEF Advance, At, Frame
<1>2. /\ Owns(w) /\ i \in Imports /\ DOMAIN r = Fields /\ Table(t, f, Links)
      /\ Works(r, t, f, Links) /\ BatchOK(r, t, f, Links)
  BY <1>1, Owned DEF Owning
<1>3. Ahead(r, f) /\ LinkOK(r, t, f, Links) /\ p = r.queue[r.at]
  BY <1>1, <1>2 DEF Works, Visiting, Linking, Page
<1>4. /\ r.at \in DOMAIN r.queue /\ p \in Pages /\ p \in Paged(t) /\ p \notin Cut(f) /\ t # <<>>
      /\ \A k \in (r.at + 1)..Len(r.queue) :
            r.queue[k] \notin Cut(f) /\ r.queue[k] \notin Collected(r) /\ r.queue[k] # p
  BY <1>1, <1>2, <1>3, Visited
<1>5. Turns(w, NextPage(r), NextPage(r), u, f)
  <2>1. SetRow(i, p, "pending", c) => Put(i, u, f)
    BY <1>2 DEF SetRow, Put, Elsewhere, TableInv, RowSet
  <2>2. \/ SetRow(i, p, "pending", c) /\ job' = [job EXCEPT ![w] = NextPage(r)]
        \/ UNCHANGED tables /\ job' = [job EXCEPT ![w] = NextPage(r)]
        \/ /\ SetRow(i, p, "pending", c)
           /\ job' = [job EXCEPT ![w] = IF NextPage(r) = Idle THEN Idle
                                        ELSE [NextPage(r) EXCEPT !.cancelled = TRUE]]
    BY DEF Advance, Access, Become, Reached
  <2> HIDE DEF u
  <2> QED BY <2>1, <2>2 DEF Turns
<1>6. Table(u, f, Links) /\ Paged(u) = Paged(t)
  <2>1. /\ Table(t, f, Links) /\ p \in Pages /\ c \in Nat /\ c <= Len(Links[p])
        /\ Covers(t, Links, p, c) /\ p \notin Cut(f)
        /\ "pending" \in States /\ "pending" # "done"
    BY <1>2, <1>3, <1>4 DEF States, LinkOK, BatchOK
  <2> HIDE DEF t, f, p, c
  <2> QED BY <2>1, SettingRow DEF u
<1> HIDE DEF u
<1>7. BatchOK(r, u, f, Links) BY <1>2, <1>6 DEF BatchOK, Covers
<1>8. Suits(r, NextPage(r), u, f, Links) /\ Suits(r, NextPage(r), t, f, Links)
  BY <1>2, <1>4, <1>7, NextPageSuits
<1> QED BY <1>1, <1>2, <1>4, <1>5, <1>6, <1>8, OwnerAccess

(* A batch is released without being worked on.                             *)
LEMMA ReleaseFine ==
    ASSUME IInv, TableInv, NEW w \in Workers, Release(w) PROVE TableInv'
<1> DEFINE r == job[w]
           i == r.import
           t == rows[i]
           f == fate[i]
           u == Released(t)
<1>1. At(w, r.step) /\ r.step = "release" /\ UNCHANGED setup
  BY DEF Release, At, Frame
<1>2. /\ Owns(w) /\ i \in Imports /\ DOMAIN r = Fields /\ Table(t, f, Links)
      /\ Works(r, t, f, Links) /\ BatchOK(r, t, f, Links)
  BY <1>1, Owned DEF Owning
<1>3. r.error \/ r.queue # <<>> BY <1>1, <1>2 DEF Works
<1>4. Turns(w, Prepared(w), Prepared(w), u, f)
  <2>1. SetRows([rows EXCEPT ![i] = Released(@)]) => Put(i, u, f)
    BY <1>2 DEF SetRows, Put, Elsewhere, TableInv
  <2>2. \/ SetRows([rows EXCEPT ![i] = Released(@)]) /\ job' = [job EXCEPT ![w] = Prepared(w)]
        \/ UNCHANGED tables /\ job' = [job EXCEPT ![w] = Prepared(w)]
        \/ /\ SetRows([rows EXCEPT ![i] = Released(@)])
           /\ job' = [job EXCEPT ![w] = IF Prepared(w) = Idle THEN Idle
                                        ELSE [Prepared(w) EXCEPT !.cancelled = TRUE]]
    BY DEF Release, Access, Become
  <2> HIDE DEF u
  <2> QED BY <2>1, <2>2 DEF Turns
<1>5. Table(u, f, Links) /\ Paged(u) = Paged(t) /\ (t # <<>> => u # <<>>)
  BY <1>2, Releasing
<1>6. u = <<>> \/ t # <<>>
  BY DEF Released
<1> HIDE DEF u
<1>7. BatchOK(r, u, f, Links) BY <1>2, <1>5 DEF BatchOK, Covers
<1>8. \A x : BatchOK(r, x, f, Links) => Suits(r, Prepared(w), x, f, Links)
  <2> SUFFICES ASSUME NEW x, BatchOK(r, x, f, Links)
               PROVE  Suits(r, Prepared(w), x, f, Links) OBVIOUS
  <2>1. CASE r.error \/ r.cancelled
    <3>1. Suits(r, ToPartial(r, TRUE), x, f, Links) BY <1>2, PartialSuits
    <3> QED BY <2>1, <3>1 DEF Prepared
  <2>2. CASE ~(r.error \/ r.cancelled)
    <3>1. \A s \in {"services", "persist"} :
             /\ DOMAIN To(w, s) = Fields /\ To(w, s).import = r.import /\ To(w, s).source = r.source
             /\ To(w, s).step = s /\ To(w, s).at = r.at /\ To(w, s).cursor = r.cursor
             /\ To(w, s).queue = r.queue /\ To(w, s).buffer = r.buffer
             /\ To(w, s).completed = r.completed
      BY <1>2 DEF To, Fields
    <3>2. r.at \in Nat /\ r.cursor \in Nat /\ r.queue # <<>> BY <1>2, <1>3, <2>2 DEF BatchOK
    <3>3. \A s \in {"services", "persist"} : Suits(r, To(w, s), x, f, Links)
      <4> SUFFICES ASSUME NEW s \in {"services", "persist"} PROVE Suits(r, To(w, s), x, f, Links)
        OBVIOUS
      <4> DEFINE next == To(w, s)
      <4>1. /\ DOMAIN next = Fields /\ next.import = r.import /\ next.source = r.source
            /\ next.step = s /\ next.at = r.at /\ next.cursor = r.cursor
            /\ next.queue = r.queue /\ next.buffer = r.buffer /\ next.completed = r.completed
        BY <3>1
      <4> HIDE DEF next
      <4>2. Suits(r, next, x, f, Links) BY <3>2, <4>1, RestSuits
      <4> QED BY <4>2 DEF next
    <3> QED BY <2>2, <3>3 DEF Prepared
  <2> QED BY <2>1, <2>2
<1>9. Suits(r, Prepared(w), u, f, Links) /\ Suits(r, Prepared(w), t, f, Links)
  BY <1>2, <1>7, <1>8
<1> QED BY <1>1, <1>2, <1>4, <1>5, <1>6, <1>9, OwnerAccess

-----------------------------------------------------------------------------
(* The end of a batch *)

(* A table with a batch has rows.                                           *)
LEMMA BatchThere ==
    ASSUME NEW r, NEW L, NEW t, NEW f, BatchOK(r, t, f, L), r.queue # <<>> PROVE t # <<>>
<1>1. r.queue \in Seq(Pages) /\ Range(r.queue) \subseteq Paged(t) BY DEF BatchOK
<1>2. Len(r.queue) \in Nat /\ Len(r.queue) # 0 /\ DOMAIN r.queue = 1..Len(r.queue)
      /\ Range(r.queue) = {r.queue[k] : k \in DOMAIN r.queue}
  BY <1>1, Elements
<1>3. 1 \in DOMAIN r.queue BY <1>2
<1>4. r.queue[1] \in Paged(t) BY <1>1, <1>2, <1>3
<1>5. \E k : k \in DOMAIN t BY <1>4 DEF Paged
<1> QED BY <1>5

(* What follows when a page that is done was marked.                        *)
LEMMA MarkedSuits ==
    ASSUME NEW r, DOMAIN r = Fields, NEW q, DOMAIN q = Fields, q.import = r.import,
           q.source = r.source, q.queue = r.queue, q.buffer = r.buffer, q.completed = r.completed,
           q.cursor = r.cursor, q.at \in Nat \ {0}, q.queue # <<>>,
           NEW L, NEW t, NEW f, BatchOK(r, t, f, L), \A p \in Range(r.completed) : f[p] # "none"
    PROVE  Suits(r, Marked(q), t, f, L)
<1> DEFINE next == Marked(q)
<1>1. /\ DOMAIN next = Fields /\ next.import = r.import /\ next.source = r.source
      /\ next.step = (IF q.at > Len(q.completed) THEN "stats" ELSE "mark")
      /\ next.at = q.at /\ next.cursor = r.cursor
      /\ next.queue = r.queue /\ next.buffer = r.buffer /\ next.completed = r.completed
  BY DEF Marked, Fields
<1>2. /\ r.cursor \in Nat /\ r.completed \in Seq(Pages) /\ Len(r.completed) \in Nat
      /\ DOMAIN r.completed = 1..Len(r.completed)
  BY Elements DEF BatchOK
<1> HIDE DEF next
<1>3. next.step \in Written /\ next.step \notin {"preserve", "detect"} BY <1>1 DEF Written
<1>4. next.step = "mark" => next.at \in DOMAIN next.completed BY <1>1, <1>2
<1>5. Suits(r, next, t, f, L) BY <1>1, <1>2, <1>3, <1>4, RestSuits
<1> QED BY <1>5 DEF next

(* The pages of the services are read once a batch was visited.             *)
LEMMA ReadServicePagesFine ==
    ASSUME IInv, TableInv, NEW w \in Workers, ReadServicePages(w) PROVE TableInv'
<1> DEFINE r == job[w]
           next == To(w, "persist")
<1>1. /\ At(w, r.step) /\ r.step = "services" /\ UNCHANGED setup /\ UNCHANGED <<run, rows, fate>>
      /\ Either(w, next, Idle)
  BY DEF ReadServicePages, At, Frame, Access, Read, tables, Either, Become, Cancellable
<1>2. /\ Owns(w) /\ DOMAIN r = Fields /\ Works(r, rows[r.import], fate[r.import], Links)
      /\ BatchOK(r, rows[r.import], fate[r.import], Links)
  BY <1>1, Owned DEF Owning
<1>3. r.queue # <<>> BY <1>1, <1>2 DEF Works, Writing
<1>4. /\ DOMAIN next = Fields /\ next.import = r.import /\ next.source = r.source
      /\ next.step = "persist" /\ next.at = r.at /\ next.cursor = r.cursor
      /\ next.queue = r.queue /\ next.buffer = r.buffer /\ next.completed = r.completed
  BY <1>2 DEF To, Fields
<1>5. r.at \in Nat /\ r.cursor \in Nat BY <1>2 DEF BatchOK
<1> HIDE DEF next
<1>6. Suits(r, next, rows[r.import], fate[r.import], Links) BY <1>2, <1>3, <1>4, <1>5, RestSuits
<1>7. Suits(r, Idle, rows[r.import], fate[r.import], Links) BY DEF Suits
<1> QED BY <1>1, <1>2, <1>6, <1>7, OwnerReads

(* The fetched pages of a batch are stored.                                 *)
LEMMA PersistFine ==
    ASSUME IInv, TableInv, NEW w \in Workers, Persist(w) PROVE TableInv'
<1> DEFINE r == job[w]
           i == r.import
           t == rows[i]
           f == fate[i]
           g == [p \in Pages |-> IF p \in r.buffer THEN "stored" ELSE f[p]]
           q == [r EXCEPT !.at = 1]
           then == Marked(q)
           otherwise == ToPartial(r, FALSE)
<1>1. At(w, r.step) /\ r.step = "persist" /\ UNCHANGED setup
  BY DEF Persist, At, Frame
<1>2. /\ Owns(w) /\ i \in Imports /\ DOMAIN r = Fields /\ Table(t, f, Links)
      /\ Works(r, t, f, Links) /\ BatchOK(r, t, f, Links)
  BY <1>1, Owned DEF Owning
<1>3. r.queue # <<>> BY <1>1, <1>2 DEF Works, Writing
<1>4. t # <<>> BY <1>2, <1>3, BatchThere
<1>5. Turns(w, then, otherwise, t, g)
  <2> DEFINE effect ==
        /\ fate' = [fate EXCEPT ![i] = [p \in Pages |-> IF p \in r.buffer THEN "stored" ELSE @[p]]]
        /\ UNCHANGED <<run, rows, reserved>>
  <2>1. effect => Put(i, t, g) BY <1>2 DEF Put, Elsewhere, TableInv
  <2>2. \/ effect /\ job' = [job EXCEPT ![w] = then]
        \/ UNCHANGED tables /\ job' = [job EXCEPT ![w] = otherwise]
        \/ /\ effect
           /\ job' = [job EXCEPT ![w] = IF otherwise = Idle THEN Idle
                                        ELSE [otherwise EXCEPT !.cancelled = TRUE]]
    BY DEF Persist, Access, Become
  <2> HIDE DEF effect, g, then, otherwise
  <2> QED BY <2>1, <2>2 DEF Turns
<1>6. f \in [Pages -> Fates] /\ r.buffer \subseteq Pages /\ Collected(r) \cap Cut(f) = {}
  BY <1>2 DEF Table, BatchOK
<1>7. /\ g \in [Pages -> Fates] /\ Cut(g) = Cut(f)
      /\ \A x \in Pages : /\ g[x] = "none" => f[x] = "none"
                          /\ x \in r.buffer => g[x] # "none"
  <2>1. \A x \in Pages : g[x] = IF x \in r.buffer THEN "stored" ELSE f[x] OBVIOUS
  <2>2. g \in [Pages -> Fates] BY <1>6 DEF Fates
  <2> HIDE DEF g
  <2>3. Cut(g) = Cut(f) BY <1>6, <2>1 DEF Cut, Collected
  <2> QED BY <2>1, <2>2, <2>3
<1> HIDE DEF g
<1>8. Table(t, g, Links) BY <1>2, <1>7, Faring
<1>9. BatchOK(r, t, g, Links) BY <1>2, <1>6, <1>7, BatchGrows
<1>10. \A p \in Range(r.completed) : g[p] # "none"
  <2>1. Range(r.completed) \subseteq Pages BY <1>2, RangeOfSeq DEF BatchOK
  <2> QED BY <1>2, <1>7, <2>1 DEF BatchOK
<1>11. Suits(r, otherwise, t, f, Links) /\ Suits(r, otherwise, t, g, Links)
  BY <1>2, <1>9, PartialSuits
<1>12. Suits(r, then, t, g, Links)
  <2>1. /\ DOMAIN q = Fields /\ q.queue = r.queue /\ q.at = 1 /\ q.buffer = r.buffer
        /\ q.completed = r.completed /\ q.import = r.import /\ q.source = r.source
        /\ q.cursor = r.cursor
    BY <1>2 DEF Fields
  <2> HIDE DEF q
  <2> QED BY <1>2, <1>3, <1>9, <1>10, <2>1, MarkedSuits
<1> HIDE DEF then, otherwise
<1> QED BY <1>1, <1>2, <1>4, <1>5, <1>8, <1>11, <1>12, OwnerAccess

(* The stored pages are marked as done, one by one.                         *)
LEMMA MarkFine ==
    ASSUME IInv, TableInv, NEW w \in Workers, Mark(w) PROVE TableInv'
<1> DEFINE r == job[w]
           i == r.import
           t == rows[i]
           f == fate[i]
           p == r.completed[r.at]
           u == RowSet(t, p, "done", 0)
           q == [r EXCEPT !.at = @ + 1]
           then == Marked(q)
           otherwise == ToPartial(r, FALSE)
<1>1. At(w, r.step) /\ r.step = "mark" /\ UNCHANGED setup
  BY DEF Mark, At, Frame
<1>2. /\ Owns(w) /\ i \in Imports /\ DOMAIN r = Fields /\ Table(t, f, Links)
      /\ Works(r, t, f, Links) /\ BatchOK(r, t, f, Links) /\ Linked(Links)
  BY <1>1, Owned DEF Owning
<1>3. /\ r.queue # <<>> /\ r.at \in DOMAIN r.completed
      /\ \A x \in Range(r.completed) : f[x] # "none"
  BY <1>1, <1>2 DEF Works, Writing, Written
<1>4. t # <<>> BY <1>2, <1>3, BatchThere
<1>5. p \in Range(r.completed) /\ p \in Pages /\ r.at \in Nat \ {0}
  <2>1. r.completed \in Seq(Pages) BY <1>2 DEF BatchOK
  <2> QED BY <1>3, <2>1, Elements
<1>6. Turns(w, then, otherwise, u, f)
  <2>1. SetRow(i, p, "done", 0) => Put(i, u, f)
    BY <1>2 DEF SetRow, Put, Elsewhere, TableInv, RowSet
  <2>2. \/ SetRow(i, p, "done", 0) /\ job' = [job EXCEPT ![w] = then]
        \/ UNCHANGED tables /\ job' = [job EXCEPT ![w] = otherwise]
        \/ /\ SetRow(i, p, "done", 0)
           /\ job' = [job EXCEPT ![w] = IF otherwise = Idle THEN Idle
                                        ELSE [otherwise EXCEPT !.cancelled = TRUE]]
    BY DEF Mark, Access, Become
  <2> HIDE DEF u, then, otherwise
  <2> QED BY <2>1, <2>2 DEF Turns
<1>7. Table(u, f, Links) /\ Paged(u) = Paged(t)
  <2>1. /\ Table(t, f, Links) /\ p \in Pages /\ f[p] # "none" /\ Covers(t, Links, p, Len(Links[p]))
        /\ Len(Links[p]) \in Nat
    BY <1>2, <1>3, <1>5, LenProperties DEF BatchOK, Linked
  <2>2. 0 <= Len(Links[p]) /\ "done" \in States BY <2>1 DEF States
  <2> HIDE DEF t, f, p
  <2> QED BY <2>1, <2>2, SettingRow DEF u
<1> HIDE DEF u
<1>8. BatchOK(r, u, f, Links) BY <1>2, <1>7 DEF BatchOK, Covers
<1>9. Suits(r, otherwise, t, f, Links) /\ Suits(r, otherwise, u, f, Links)
  BY <1>2, <1>8, PartialSuits
<1>10. Suits(r, then, u, f, Links)
  <2>1. /\ DOMAIN q = Fields /\ q.queue = r.queue /\ q.at = r.at + 1 /\ q.buffer = r.buffer
        /\ q.completed = r.completed /\ q.import = r.import /\ q.source = r.source
        /\ q.cursor = r.cursor
    BY <1>2 DEF Fields
  <2>2. q.at \in Nat \ {0} BY <1>5, <2>1
  <2> HIDE DEF q
  <2> QED BY <1>2, <1>3, <1>8, <2>1, <2>2, MarkedSuits
<1> HIDE DEF then, otherwise
<1> QED BY <1>1, <1>2, <1>4, <1>6, <1>7, <1>9, <1>10, OwnerAccess

(* No row is left: all of them are done.                                    *)
LEMMA NoneLeft ==
    ASSUME NEW i, NEW f, NEW L, Table(rows[i], f, L), rows[i] # <<>>
    PROVE  /\ Progress(i).left \in Nat /\ (Progress(i).left = 0 => AllDone(rows[i]))
<1> DEFINE t == rows[i]
           left == DOMAIN t \ Holding(i, "done")
<1>1. DOMAIN t = 1..Len(t) /\ Len(t) \in Nat BY Elements DEF Table
<1>2. IsFiniteSet(1..Len(t)) BY <1>1, FS_Interval
<1>3. IsFiniteSet(left)
  <2>1. IsFiniteSet(DOMAIN t) /\ left \subseteq DOMAIN t BY <1>1, <1>2
  <2> QED BY <2>1, FS_Subset
<1>4. Progress(i).left = Cardinality(left) BY DEF Progress, Unfinished
<1> HIDE DEF left
<1>5. Cardinality(left) \in Nat BY <1>3, FS_CardinalityType
<1>6. Cardinality(left) = 0 => left = {} BY <1>3, FS_EmptySet
<1>7. left = {} => AllDone(t) BY DEF left, Holding, AllDone
<1> QED BY <1>4, <1>5, <1>6, <1>7

(* The progress is read, which decides how the call goes on.                *)
LEMMA ReadStatsFine ==
    ASSUME IInv, TableInv, NEW w \in Workers, ReadStats(w) PROVE TableInv'
<1> DEFINE r == job[w]
           i == r.import
           t == rows[i]
           f == fate[i]
           seen == Progress(i)
           next == [r EXCEPT !.now = seen, !.then = "rebuild", !.cleanup = FALSE]
           Steps(step) == [next EXCEPT !.step = step]
           then == CASE seen.left > 0 -> Steps("partial")
                     [] seen.left = 0 /\ r.kind = "ai" -> Steps("measure")
                     [] OTHER -> Steps("detect")
           otherwise == ToPartial(r, FALSE)
<1>1. /\ At(w, r.step) /\ r.step = "stats" /\ UNCHANGED setup /\ UNCHANGED <<run, rows, fate>>
      /\ Either(w, then, otherwise)
  BY DEF ReadStats, At, Frame, Access, Read, tables, Either, Become, Cancellable
<1>2. /\ Owns(w) /\ i \in Imports /\ DOMAIN r = Fields /\ Table(t, f, Links)
      /\ Works(r, t, f, Links) /\ BatchOK(r, t, f, Links)
  BY <1>1, Owned DEF Owning
<1>3. r.queue # <<>> /\ \A p \in Range(r.completed) : f[p] # "none"
  BY <1>1, <1>2 DEF Works, Writing, Written
<1>4. t # <<>> BY <1>2, <1>3, BatchThere
<1>5. seen.left \in Nat /\ (seen.left = 0 => AllDone(t)) BY <1>2, <1>4, NoneLeft
<1>6. \A s \in {"partial", "measure", "detect"} :
         /\ DOMAIN Steps(s) = Fields /\ Steps(s).import = r.import /\ Steps(s).source = r.source
         /\ Steps(s).step = s /\ Steps(s).at = r.at /\ Steps(s).cursor = r.cursor
         /\ Steps(s).queue = r.queue /\ Steps(s).buffer = r.buffer
         /\ Steps(s).completed = r.completed /\ Steps(s).then = "rebuild"
  BY <1>2 DEF Fields
<1>7. \/ then = Steps("partial")
      \/ AllDone(t) /\ then \in {Steps("measure"), Steps("detect")}
  <2> HIDE DEF Steps, seen
  <2> QED BY <1>5
<1> HIDE DEF then, Steps
<1>8. r.at \in Nat /\ r.cursor \in Nat BY <1>2 DEF BatchOK
<1>9. Suits(r, Steps("partial"), t, f, Links) BY <1>2, <1>6, <1>8, RestSuits
<1>10. AllDone(t) => Suits(r, Steps("measure"), t, f, Links) BY <1>6 DEF Suits
<1>11. AllDone(t) => Suits(r, Steps("detect"), t, f, Links)
  <2> DEFINE detecting == Steps("detect")
  <2>1. /\ DOMAIN detecting = Fields /\ detecting.import = r.import /\ detecting.source = r.source
        /\ detecting.step = "detect" /\ detecting.at = r.at /\ detecting.cursor = r.cursor
        /\ detecting.queue = r.queue /\ detecting.buffer = r.buffer
        /\ detecting.completed = r.completed /\ detecting.then = "rebuild"
    BY <1>6
  <2> HIDE DEF detecting
  <2>2. AllDone(t) => Suits(r, detecting, t, f, Links)
    BY <1>2, <1>3, <1>8, <2>1, RestSuits DEF Written
  <2> QED BY <2>2 DEF detecting
<1>12. Suits(r, then, t, f, Links) BY <1>7, <1>9, <1>10, <1>11
<1>13. Suits(r, otherwise, t, f, Links) BY <1>2, PartialSuits
<1> HIDE DEF otherwise
<1> QED BY <1>1, <1>2, <1>12, <1>13, OwnerReads

(* The templates of a finished import are detected.                         *)
LEMMA DetectTemplatesFine ==
    ASSUME IInv, TableInv, NEW w \in Workers, DetectTemplates(w) PROVE TableInv'
<1> DEFINE r == job[w]
           i == r.import
           t == rows[i]
           f == fate[i]
           otherwise == IF r.completed = <<>> THEN ToPartial(r, TRUE) ELSE To(w, "preserve")
           preserving == To(w, "preserve")
           then == To(w, "measure")
<1>1. /\ At(w, r.step) /\ r.step = "detect" /\ UNCHANGED setup /\ UNCHANGED <<run, rows, fate>>
      /\ Either(w, then, otherwise)
  BY DEF DetectTemplates, At, Frame, Access, Read, tables, Either, Become, Cancellable
<1>2. /\ Owns(w) /\ i \in Imports /\ DOMAIN r = Fields
      /\ Works(r, t, f, Links) /\ BatchOK(r, t, f, Links)
  BY <1>1, Owned DEF Owning
<1>3. /\ r.queue # <<>> /\ AllDone(t) /\ r.then = "rebuild"
      /\ \A p \in Range(r.completed) : f[p] # "none"
  BY <1>1, <1>2 DEF Works, Writing, Written
<1>4. Suits(r, then, t, f, Links)
  <2>1. /\ DOMAIN then = Fields /\ then.import = r.import /\ then.source = r.source
        /\ then.step = "measure" /\ then.then = r.then
    BY <1>2 DEF To, Fields
  <2> HIDE DEF then
  <2> QED BY <1>3, <2>1 DEF Suits
<1>5. r.completed # <<>> => Suits(r, preserving, t, f, Links)
  <2>1. /\ DOMAIN preserving = Fields /\ preserving.import = r.import
        /\ preserving.source = r.source /\ preserving.step = "preserve"
        /\ preserving.at = r.at /\ preserving.cursor = r.cursor /\ preserving.queue = r.queue
        /\ preserving.buffer = r.buffer /\ preserving.completed = r.completed
    BY <1>2 DEF To, Fields
  <2>2. r.at \in Nat /\ r.cursor \in Nat BY <1>2 DEF BatchOK
  <2> HIDE DEF preserving
  <2> QED BY <1>2, <1>3, <2>1, <2>2, RestSuits DEF Written
<1>6. Suits(r, ToPartial(r, TRUE), t, f, Links) BY <1>2, PartialSuits
<1>7. Suits(r, otherwise, t, f, Links) BY <1>5, <1>6
<1> HIDE DEF then, otherwise
<1> QED BY <1>1, <1>2, <1>4, <1>7, OwnerReads

(* A page is set back to keep a run that cannot be finished now.            *)
LEMMA PreserveFine ==
    ASSUME IInv, TableInv, NEW w \in Workers, Preserve(w) PROVE TableInv'
<1> DEFINE r == job[w]
           i == r.import
           t == rows[i]
           f == fate[i]
           p == r.completed[1]
           u == RowSet(t, p, "pending", 0)
           then == ToPartial(r, TRUE)
<1>1. At(w, r.step) /\ r.step = "preserve" /\ UNCHANGED setup
  BY DEF Preserve, At, Frame
<1>2. /\ Owns(w) /\ i \in Imports /\ DOMAIN r = Fields /\ Table(t, f, Links)
      /\ Works(r, t, f, Links) /\ BatchOK(r, t, f, Links) /\ Linked(Links)
  BY <1>1, Owned DEF Owning
<1>3. r.queue # <<>> /\ r.completed # <<>> BY <1>1, <1>2 DEF Works, Writing, Written
<1>4. t # <<>> BY <1>2, <1>3, BatchThere
<1>5. p \in Range(r.completed) /\ p \in Pages
  <2>1. r.completed \in Seq(Pages) BY <1>2 DEF BatchOK
  <2>2. 1 \in DOMAIN r.completed BY <1>3, <2>1, Elements
  <2> QED BY <2>1, <2>2, Elements
<1>6. Turns(w, then, then, u, f)
  <2>1. SetRow(i, p, "pending", 0) => Put(i, u, f)
    BY <1>2 DEF SetRow, Put, Elsewhere, TableInv, RowSet
  <2>2. \/ SetRow(i, p, "pending", 0) /\ job' = [job EXCEPT ![w] = then]
        \/ UNCHANGED tables /\ job' = [job EXCEPT ![w] = then]
        \/ /\ SetRow(i, p, "pending", 0)
           /\ job' = [job EXCEPT ![w] = IF then = Idle THEN Idle
                                        ELSE [then EXCEPT !.cancelled = TRUE]]
    BY DEF Preserve, Access, Become
  <2> HIDE DEF u, then
  <2> QED BY <2>1, <2>2 DEF Turns
<1>7. Table(u, f, Links) /\ Paged(u) = Paged(t)
  <2>1. /\ Table(t, f, Links) /\ p \in Pages /\ p \notin Cut(f) /\ Len(Links[p]) \in Nat
    BY <1>2, <1>5, LenProperties DEF BatchOK, Linked, Collected
  <2>2. 0 <= Len(Links[p]) /\ "pending" \in States /\ Covers(t, Links, p, 0) /\ "pending" # "done"
    BY <2>1 DEF States, Covers
  <2> HIDE DEF t, f, p
  <2> QED BY <2>1, <2>2, SettingRow DEF u
<1> HIDE DEF u
<1>8. BatchOK(r, u, f, Links) BY <1>2, <1>7 DEF BatchOK, Covers
<1>9. Suits(r, then, t, f, Links) /\ Suits(r, then, u, f, Links)
  BY <1>2, <1>8, PartialSuits
<1> HIDE DEF then
<1> QED BY <1>1, <1>2, <1>4, <1>6, <1>7, <1>9, OwnerAccess

-----------------------------------------------------------------------------
(* A worker that owns nothing *)

(* A worker turns to something that needs no import.                        *)
LEMMA PlainStep ==
    ASSUME IInv, TableInv, UNCHANGED setup, UNCHANGED <<run, rows, fate>>, NEW w \in Workers,
           NEW next, job' = [job EXCEPT ![w] = next], next.step \notin Owning \cup Settling,
           Opens(next) => Blank(next),
           w \in Jobs => next.step = "idle" \/ next.source \in Sources,
           next.import \in Imports \cup {0}, next.step \in Summed => next.sum \in Nat
    PROVE  TableInv'
<1>1. 0 \notin Imports BY DEF Imports
<1>2. JobFine(w, next, run'[next.import], rows'[next.import], fate'[next.import], setup)
  BY DEF JobFine, Settling
<1>3. \A v \in Workers : Owns(v) \/ Finisher(job[v]) \/ job[v].step \in Settling
          => job[v].import \in Imports
  BY DEF IInv, Shape, Owns, Owning, Finisher
<1>4. \A v \in Workers \ {w} :
          /\ Owns(v) \/ Finisher(job[v]) => job[v].import # 0
          /\ job[v].step \in Settling /\ job[v].import = 0 => run'[0].state \in {"discarding", "gone"}
          /\ Apart(job[v], next)
  BY <1>1, <1>3 DEF Apart, Finisher
<1>5. Elsewhere(0) /\ DOMAIN rows' = Imports /\ DOMAIN fate' = Imports
  BY DEF Elsewhere, TableInv
<1> QED BY <1>1, <1>2, <1>4, <1>5, StepKeeps

(* Which import the steps are about that nobody else needs.                 *)
LEMMA Unneeded ==
    ASSUME IInv, NEW i \in Imports, run[i].state \in {"unused", "partial"}, NEW v \in Workers
    PROVE  Owns(v) \/ job[v].step \in Settling => job[v].import # i
BY DEF IInv, OneOwner, Removed

(* A worker that has not found its import yet.                              *)
LEMMA Seeking ==
    ASSUME IInv, TableInv, NEW w \in Workers, Opens(job[w])
    PROVE  /\ DOMAIN job[w] = Fields /\ Blank(job[w])
           /\ w \in Jobs /\ job[w].step # "idle" => job[w].source \in Sources
           /\ job[w].import \in Imports \cup {0}
<1>1. LET i == job[w].import IN JobFine(w, job[w], run[i], rows[i], fate[i], setup)
  BY DEF TableInv
<1> QED BY <1>1 DEF JobFine, IInv, Shape

(* Who is idle carries nothing along.                                       *)
LEMMA IdleBlank == Blank(Idle) /\ ~Opens(Idle) /\ Idle.step \notin Owning \cup Settling \cup Summed
BY DEF Idle, Blank, Opens, Owning, Settling, Summed

(* A call looks for a run, or for the runs to discard.                      *)
LEMMA LookingFine ==
    ASSUME IInv, TableInv, NEW w \in Workers, Find(w) \/ Lookup(w) \/ ListDiscarded(w)
    PROVE  TableInv'
<1> DEFINE r == job[w]
           ids == {i \in Imports : run[i].state \in Listed(w)}
           listed == [To(w, "discard") EXCEPT !.targets = {<<i, run[i].state>> : i \in ids}]
           claim(i) == [To(w, "claim") EXCEPT !.import = i]
<1>1. /\ UNCHANGED setup /\ UNCHANGED <<run, rows, fate>> /\ r.step \in {"find", "lookup", "list"}
  BY DEF Find, Lookup, ListDiscarded, Access, Read, tables, Frame, At
<1>2. Opens(r) BY <1>1 DEF Opens
<1>3. /\ DOMAIN r = Fields /\ Blank(r) /\ (w \in Jobs => r.source \in Sources)
      /\ r.import \in Imports \cup {0}
  BY <1>1, <1>2, Seeking
<1>4. \/ job' = [job EXCEPT ![w] = To(w, "list")] \/ job' = [job EXCEPT ![w] = Idle]
      \/ job' = [job EXCEPT ![w] = listed] \/ job' = [job EXCEPT ![w] = To(w, "claim")]
      \/ \E i \in Imports : job' = [job EXCEPT ![w] = claim(i)]
  BY DEF Find, Lookup, ListDiscarded, Access, Become, Cancellable
<1>5. /\ \A s : /\ To(w, s).step = s /\ To(w, s).queue = r.queue /\ To(w, s).buffer = r.buffer
                /\ To(w, s).completed = r.completed /\ To(w, s).cursor = r.cursor
                /\ To(w, s).at = r.at /\ To(w, s).source = r.source /\ To(w, s).import = r.import
      /\ \A i : /\ claim(i).step = "claim" /\ claim(i).queue = r.queue
                /\ claim(i).buffer = r.buffer /\ claim(i).completed = r.completed
                /\ claim(i).cursor = r.cursor /\ claim(i).at = r.at /\ claim(i).source = r.source
                /\ claim(i).import = i
      /\ listed.step = "discard" /\ listed.queue = r.queue /\ listed.buffer = r.buffer
      /\ listed.completed = r.completed /\ listed.cursor = r.cursor /\ listed.at = r.at
      /\ listed.source = r.source /\ listed.import = r.import
  BY <1>3 DEF To, Fields
<1> HIDE DEF listed, claim
<1>6. PICK next : /\ job' = [job EXCEPT ![w] = next] /\ Blank(next)
                  /\ next.step \in {"list", "idle", "discard", "claim"}
                  /\ next = Idle \/ next.source = r.source
                  /\ next.import \in Imports \cup {0}
  <2>1. /\ \A s : Blank(To(w, s)) /\ \A i : Blank(claim(i))
        /\ Blank(listed)
    BY <1>3, <1>5 DEF Blank
  <2> QED BY <1>3, <1>4, <1>5, <2>1, IdleBlank, IdleShape
<1>7. next.step \notin Owning \cup Settling \cup Summed BY <1>6 DEF Owning, Settling, Summed
<1>8. w \in Jobs => next.step = "idle" \/ next.source \in Sources BY <1>3, <1>6, IdleShape
<1> QED BY <1>1, <1>6, <1>7, <1>8, PlainStep

(* The rows of all queues are finitely many.                                *)
LEMMA FiniteQueue ==
    ASSUME \A i \in Imports : rows[i] \in Seq(Row)
    PROVE  IsFiniteSet(QueueRows) /\ Total \in Nat
<1> DEFINE f == [i \in Imports |-> {i} \X DOMAIN rows[i]]
           S == {f[i] : i \in Imports}
<1>1. IsFiniteSet(Imports)
  <2>1. 1 \in Int /\ MaxCalls \in Int BY FrontierAssumption
  <2> QED BY <2>1, FS_Interval DEF Imports
<1>2. f \in Surjection(Imports, S) BY DEF Surjection
<1>3. IsFiniteSet(S)
  <2> HIDE DEF f, S
  <2> QED BY <1>1, <1>2, FS_Surjection
<1>4. \A i \in Imports : IsFiniteSet(f[i])
  <2> SUFFICES ASSUME NEW i \in Imports PROVE IsFiniteSet({i} \X DOMAIN rows[i]) OBVIOUS
  <2>1. DOMAIN rows[i] = 1..Len(rows[i]) /\ Len(rows[i]) \in Nat BY LenProperties
  <2>2. IsFiniteSet(DOMAIN rows[i]) BY <2>1, FS_Interval
  <2>3. IsFiniteSet({i}) BY FS_Singleton
  <2> QED BY <2>2, <2>3, FS_Product
<1>5. QueueRows = UNION S BY DEF QueueRows
<1>6. IsFiniteSet(UNION S)
  <2>1. \A T \in S : IsFiniteSet(T) BY <1>4
  <2> HIDE DEF S
  <2> QED BY <1>3, <2>1, FS_UNION
<1> QED BY <1>5, <1>6, FS_CardinalityType DEF Total

(* The tables of imports are sequences of rows.                             *)
LEMMA TablesAre == TableInv => \A i \in Imports : rows[i] \in Seq(Row)
BY DEF TableInv, ImportFine, Table

(* The addition of the quota, and the bytes given back.                     *)
LEMMA AddingUpFine ==
    ASSUME IInv, TableInv, NEW w \in Workers, AddUp(w) \/ WriteUp(w) \/ GiveBack(w)
    PROVE  TableInv'
<1> DEFINE r == job[w]
<1>1. /\ UNCHANGED setup /\ UNCHANGED <<run, rows, fate>>
      /\ r.step \in {"add_up", "write_up", "give_back"}
  BY DEF AddUp, WriteUp, GiveBack, Access, Read, SetReserved, tables, Frame, At
<1>2. DOMAIN r = Fields BY DEF IInv, Shape
<1>3. w \in Jobs => r.source \in Sources
  <2>1. LET i == r.import IN JobFine(w, r, run[i], rows[i], fate[i], setup) BY DEF TableInv
  <2>2. r.step # "idle" BY <1>1
  <2> QED BY <2>1, <2>2 DEF JobFine
<1>4. PICK next : /\ job' = [job EXCEPT ![w] = next]
                  /\ next.step \in {"add_up", "write_up", "lookup", "discard", "idle"}
                  /\ next = Idle \/ next.source = r.source
                  /\ next.step \in {"lookup", "discard"} => Blank(next)
                  /\ next.import \in {r.import, 0}
                  /\ next.step = "write_up" => next.sum \in Nat
  <2>1. CASE AddUp(w)
    <3> DEFINE adding(n) == [To(w, "write_up") EXCEPT !.sum = n]
    <3>0. Total \in Nat /\ 0 \in Nat BY TablesAre, FiniteQueue
    <3>1. \/ \E n \in Nat : job' = [job EXCEPT ![w] = adding(n)]
          \/ \E n \in Nat : job' = [job EXCEPT ![w] = [adding(n) EXCEPT !.cancelled = TRUE]]
          \/ job' = [job EXCEPT ![w] = Idle]
      BY <2>1, <3>0 DEF AddUp, Access, Become
    <3>2. \A n : /\ adding(n).step = "write_up" /\ adding(n).source = r.source
                 /\ adding(n).import = r.import /\ adding(n).sum = n
                 /\ [adding(n) EXCEPT !.cancelled = TRUE].import = r.import
                 /\ [adding(n) EXCEPT !.cancelled = TRUE].sum = n
                 /\ [adding(n) EXCEPT !.cancelled = TRUE].step = "write_up"
                 /\ [adding(n) EXCEPT !.cancelled = TRUE].source = r.source
      BY <1>2 DEF To, Fields
    <3> HIDE DEF adding
    <3>3. CASE \E n \in Nat : job' = [job EXCEPT ![w] = adding(n)] BY <3>2, <3>3
    <3>4. CASE \E n \in Nat : job' = [job EXCEPT ![w] = [adding(n) EXCEPT !.cancelled = TRUE]]
      BY <3>2, <3>4
    <3> QED BY <3>1, <3>3, <3>4, IdleShape
  <2>2. CASE WriteUp(w)
    <3> DEFINE adding == [To(w, "add_up") EXCEPT !.again = FALSE]
               looking == [Idle EXCEPT !.step = "lookup", !.kind = r.kind, !.source = r.source,
                                       !.import = r.import, !.first = FALSE, !.before = r.now]
    <3>1. \E next \in {adding, looking, Idle} :
             \/ job' = [job EXCEPT ![w] = next]
             \/ next # Idle /\ job' = [job EXCEPT ![w] = [next EXCEPT !.cancelled = TRUE]]
      BY <2>2 DEF WriteUp, Access, Become, Ended
    <3>2. /\ adding.step = "add_up" /\ adding.source = r.source
          /\ adding.import = r.import /\ looking.import = r.import
          /\ [adding EXCEPT !.cancelled = TRUE].import = r.import
          /\ [looking EXCEPT !.cancelled = TRUE].import = r.import
          /\ looking.step = "lookup" /\ looking.source = r.source /\ Blank(looking)
          /\ [adding EXCEPT !.cancelled = TRUE].step = "add_up"
          /\ [adding EXCEPT !.cancelled = TRUE].source = r.source
          /\ [looking EXCEPT !.cancelled = TRUE].step = "lookup"
          /\ [looking EXCEPT !.cancelled = TRUE].source = r.source
          /\ Blank([looking EXCEPT !.cancelled = TRUE])
      <4>1. Blank(looking) /\ Blank([looking EXCEPT !.cancelled = TRUE])
            /\ looking.step = "lookup" /\ looking.source = r.source
            /\ looking.import = r.import /\ [looking EXCEPT !.cancelled = TRUE].import = r.import
            /\ [looking EXCEPT !.cancelled = TRUE].step = "lookup"
            /\ [looking EXCEPT !.cancelled = TRUE].source = r.source
        BY DEF Idle, Blank
      <4> HIDE DEF looking
      <4> QED BY <1>2, <4>1 DEF To, Fields
    <3> HIDE DEF adding, looking
    <3> QED BY <3>1, <3>2, IdleShape
  <2>3. CASE GiveBack(w)
    <3> DEFINE adding == [To(w, "add_up") EXCEPT !.again = TRUE]
    <3>1. \/ job' = [job EXCEPT ![w] = Idle]
          \/ r.then = "discard" /\ job' = [job EXCEPT ![w] = To(w, "discard")]
          \/ job' = [job EXCEPT ![w] = adding]
      BY <2>3 DEF GiveBack, Access, Become, Cancellable
    <3>2. /\ adding.step = "add_up" /\ adding.source = r.source
          /\ adding.import = r.import /\ To(w, "discard").import = r.import
          /\ To(w, "discard").step = "discard" /\ To(w, "discard").source = r.source
      BY <1>2 DEF To, Fields
    <3>3. r.then = "discard" => Blank(To(w, "discard"))
      <4>1. r.then = "discard" => Opens(r) BY <1>1, <2>3 DEF Opens, GiveBack, At
      <4>2. r.then = "discard" => Blank(r) BY <4>1, Seeking
      <4> QED BY <1>2, <4>2 DEF To, Fields, Blank
    <3> HIDE DEF adding
    <3> QED BY <3>1, <3>2, <3>3, IdleShape
  <2> QED BY <2>1, <2>2, <2>3
<1>5. next.step \notin Owning \cup Settling BY <1>4 DEF Owning, Settling
<1>6. Opens(next) => Blank(next) BY <1>4 DEF Opens, Settling
<1>7. w \in Jobs => next.step = "idle" \/ next.source \in Sources BY <1>3, <1>4, IdleShape
<1>8. next.import \in Imports \cup {0} /\ (next.step \in Summed => next.sum \in Nat)
  BY <1>1, <1>4 DEF Summed, IInv, Shape
<1> QED BY <1>1, <1>4, <1>5, <1>6, <1>7, <1>8, PlainStep

(* A run is set partial by its owner.                                       *)
LEMMA SetPartialFine ==
    ASSUME IInv, TableInv, NEW w \in Workers, SetPartial(w) PROVE TableInv'
<1> DEFINE r == job[w]
           i == r.import
           adding == [To(w, "add_up") EXCEPT !.again = FALSE]
           next == IF r.then = "end" THEN Idle ELSE adding
<1>1. At(w, r.step) /\ r.step = "partial" /\ UNCHANGED setup
  BY DEF SetPartial, At, Frame
<1>2. /\ Owns(w) /\ w \in Jobs /\ i \in Imports /\ DOMAIN r = Fields /\ run[i].state = "running"
      /\ r.source \in Sources
  BY <1>1, Owned DEF Owning
<1>3. /\ UNCHANGED run \/ run' = [run EXCEPT ![i].state = "partial"]
      /\ UNCHANGED <<rows, fate>>
      /\ \/ job' = [job EXCEPT ![w] = next] \/ job' = [job EXCEPT ![w] = Idle]
         \/ next # Idle /\ job' = [job EXCEPT ![w] = [next EXCEPT !.cancelled = TRUE]]
  <2> HIDE DEF next
  <2> QED BY DEF SetPartial, Access, Become, SetRun, tables, next
<1>4. /\ adding.step = "add_up" /\ adding.source = r.source /\ adding.import = i
      /\ [adding EXCEPT !.cancelled = TRUE].step = "add_up"
      /\ [adding EXCEPT !.cancelled = TRUE].source = r.source
      /\ [adding EXCEPT !.cancelled = TRUE].import = i
  BY <1>2 DEF To, Fields
<1>5. PICK succ : /\ job' = [job EXCEPT ![w] = succ] /\ succ.step \in {"add_up", "idle"}
                  /\ succ.step = "idle" \/ succ.source \in Sources
                  /\ succ.import \in {i, 0}
  <2> HIDE DEF adding
  <2> QED BY <1>2, <1>3, <1>4, IdleShape
<1> HIDE DEF next, adding
<1>6. /\ ImportFine(run'[i], rows'[i], fate'[i], setup) /\ Elsewhere(i)
      /\ DOMAIN rows' = Imports /\ DOMAIN fate' = Imports
  <2>1. ImportFine(run[i], rows[i], fate[i], setup) /\ DOMAIN run = Imports
        /\ DOMAIN run[i] = {"state", "source"}
    BY <1>2 DEF TableInv, IInv, Shape
  <2>2. run'[i].source = run[i].source /\ run'[i].state \in {"running", "partial"}
        /\ \A k \in Imports \ {i} : run'[k] = run[k]
    BY <1>2, <1>3, <2>1
  <2> QED BY <1>2, <1>3, <2>1, <2>2 DEF ImportFine, Elsewhere, TableInv, RunStates
<1>7. JobFine(w, succ, run'[succ.import], rows'[succ.import], fate'[succ.import], setup)
  BY <1>2, <1>5 DEF JobFine, Opens, Owning, Settling, Summed
<1>8. \A v \in Workers \ {w} :
         /\ Owns(v) \/ Finisher(job[v]) => job[v].import # i
         /\ job[v].step \in Settling /\ job[v].import = i => run'[i].state \in {"discarding", "gone"}
         /\ Apart(job[v], succ)
  <2> SUFFICES ASSUME NEW v \in Workers \ {w}
               PROVE /\ Owns(v) \/ Finisher(job[v]) => job[v].import # i
                     /\ job[v].step \in Settling /\ job[v].import = i
                           => run'[i].state \in {"discarding", "gone"}
                     /\ Apart(job[v], succ)
    OBVIOUS
  <2>1. Owns(v) \/ job[v].step \in Settling => job[v].import # i BY <1>2, OwnersAlone
  <2>2. succ.step \notin Settling BY <1>5 DEF Settling
  <2> QED BY <2>1, <2>2 DEF Apart, Finisher
<1> QED BY <1>1, <1>5, <1>6, <1>7, <1>8, StepKeeps

-----------------------------------------------------------------------------
(* A run changes hands *)

(* An import that nobody needed changes its state, and w what it does.      *)
LEMMA UnneededStep ==
    ASSUME IInv, TableInv, UNCHANGED setup, UNCHANGED <<rows, fate>>, NEW w \in Workers,
           job[w].step \notin Owning \cup Settling,
           NEW i \in Imports, run[i].state \in {"unused", "partial"},
           \A k \in Imports \ {i} : run'[k] = run[k],
           run'[i].state \in {"partial", "running", "discarding"}, run'[i].source \in Sources,
           run[i].state = "partial" => run'[i].source = run[i].source,
           NEW next, job' = [job EXCEPT ![w] = next],
           \/ next = Idle
           \/ /\ next.import = i /\ Blank(next) /\ (w \in Jobs => next.source \in Sources)
              /\ \/ next.step = "select" /\ run'[i].state = "running"
                 \/ /\ next.step = "exists" /\ run'[i].state = "running" /\ run[i].state = "unused"
                    /\ run'[i].source = next.source
                 \/ next.step = "measure" /\ next.then = "discard" /\ run'[i].state = "discarding"
    PROVE  TableInv'
<1>1. ImportFine(run[i], rows[i], fate[i], setup) /\ Table(rows[i], fate[i], Links)
  BY DEF TableInv, ImportFine, Links
<1>2. ImportFine(run'[i], rows'[i], fate'[i], setup)
  BY <1>1 DEF ImportFine, RunStates
<1>3. Elsewhere(i) /\ DOMAIN rows' = Imports /\ DOMAIN fate' = Imports
  BY DEF Elsewhere, TableInv
<1>4. \A v \in Workers : Owns(v) \/ job[v].step \in Settling => job[v].import # i
  BY Unneeded
<1>5. \A v \in Workers \ {w} :
         /\ Owns(v) \/ Finisher(job[v]) => job[v].import # i
         /\ job[v].step \in Settling /\ job[v].import = i => run'[i].state \in {"discarding", "gone"}
         /\ Apart(job[v], next)
  <2>1. next.step \in Settling => next.import = i BY IdleBlank
  <2> QED BY <1>4, <2>1 DEF Apart, Finisher
<1>6. JobFine(w, next, run'[next.import], rows'[next.import], fate'[next.import], setup)
  <2>1. CASE next = Idle
    BY <2>1, IdleBlank, IdleShape DEF JobFine, Settling
  <2>2. CASE next # Idle
    <3>1. next.import = i /\ Blank(next) /\ (w \in Jobs => next.source \in Sources)
      BY <2>2
    <3>2. Range(<<>>) = {} /\ <<>> \in Seq(Pages) /\ DOMAIN <<>> = {} BY EmptySeq DEF Range
    <3>3. BatchOK(next, rows[i], fate[i], Links)
      BY <3>1, <3>2 DEF BatchOK, Blank, Collected
    <3>4. CASE next.step = "select"
      <4>1. Works(next, rows[i], fate[i], Links)
        BY <3>1, <3>3, <3>4 DEF Works, Blank, Linking, Visiting, Writing, Written
      <4> QED BY <3>1, <3>4, <4>1 DEF JobFine, Opens, Owning, Settling, Rooting, Linking, Links, Summed
    <3>5. CASE next.step = "exists"
      <4>1. rows[i] = <<>> /\ Cut(fate[i]) = {} /\ run'[i].source = next.source
        BY <1>1, <2>2, <3>5 DEF ImportFine
      <4>2. Works(next, rows[i], fate[i], Links)
        BY <3>1, <3>3, <3>5, <4>1 DEF Works, Blank, Linking, Visiting, Writing, Written
      <4> QED BY <3>1, <3>5, <4>1, <4>2 DEF JobFine, Opens, Owning, Settling, Rooting, Linking, Links, Summed
    <3>6. CASE next.step = "measure"
      <4>1. next.then = "discard" /\ run'[i].state = "discarding" BY <2>2, <3>6
      <4> QED BY <3>1, <3>6, <4>1 DEF JobFine, Owning, Settling, Summed
    <3> QED BY <2>2, <3>4, <3>5, <3>6
  <2> QED BY <2>1, <2>2
<1> QED BY <1>2, <1>3, <1>5, <1>6, StepKeeps

(* A run is claimed.                                                        *)
LEMMA ClaimRunFine ==
    ASSUME IInv, TableInv, NEW w \in Workers, ClaimRun(w) PROVE TableInv'
<1> DEFINE r == job[w]
           i == r.import
           next == To(w, "select")
<1>1. r.step = "claim" /\ UNCHANGED setup BY DEF ClaimRun, At, Frame
<1>2. /\ DOMAIN r = Fields /\ Blank(r) /\ (w \in Jobs => r.source \in Sources) /\ i \in Imports
      /\ r.step \notin Owning \cup Settling
  BY <1>1, Seeking DEF Opens, IInv, Shape, Owning, Settling
<1>3. CASE UNCHANGED <<run, rows, fate>> /\ job' = [job EXCEPT ![w] = Idle]
  BY <1>1, <1>3, PlainStep, IdleBlank, IdleShape
<1>4. CASE /\ Claimable(i) /\ SetRun(i, "running")
           /\ job' = [job EXCEPT ![w] = next] \/ job' = [job EXCEPT ![w] = Idle]
  <2>1. /\ run[i].state = "partial" /\ UNCHANGED <<rows, fate>>
        /\ \A k \in Imports \ {i} : run'[k] = run[k]
        /\ run'[i].state = "running" /\ run'[i].source = run[i].source
    BY <1>2, <1>4 DEF Claimable, SetRun, IInv, Shape
  <2>2. run[i].source \in Sources BY <1>2, <2>1 DEF TableInv, ImportFine
  <2>3. /\ next.step = "select" /\ next.import = i /\ next.source = r.source /\ Blank(next)
    BY <1>2 DEF To, Fields, Blank
  <2> HIDE DEF next
  <2> QED BY <1>1, <1>2, <1>4, <2>1, <2>2, <2>3, UnneededStep
<1> QED BY <1>3, <1>4 DEF ClaimRun, Access, Become, Read, tables

(* A run is created.                                                        *)
LEMMA CreateFine ==
    ASSUME IInv, TableInv, NEW w \in Workers, Create(w) PROVE TableInv'
<1> DEFINE r == job[w]
           next(i) == [To(w, "exists") EXCEPT !.import = i]
<1>1. r.step = "discard" /\ UNCHANGED setup /\ w \in Jobs BY DEF Create, At, Frame
<1>2. /\ DOMAIN r = Fields /\ Blank(r) /\ r.source \in Sources
      /\ r.step \notin Owning \cup Settling
  BY <1>1, Seeking DEF Opens, IInv, Shape, Owning, Settling
<1>3. CASE UNCHANGED <<run, rows, fate>> /\ job' = [job EXCEPT ![w] = Idle]
  BY <1>1, <1>3, PlainStep, IdleBlank, IdleShape
<1>4. ASSUME NEW i \in Imports, run[i].state = "unused", UNCHANGED <<rows, fate>>,
             run' = [run EXCEPT ![i] = [state |-> "running", source |-> r.source]],
             job' = [job EXCEPT ![w] = next(i)] \/ job' = [job EXCEPT ![w] = Idle]
      PROVE  TableInv'
  <2>1. /\ \A k \in Imports \ {i} : run'[k] = run[k]
        /\ run'[i].state = "running" /\ run'[i].source = r.source
    BY <1>4 DEF IInv, Shape
  <2>2. /\ next(i).step = "exists" /\ next(i).import = i /\ next(i).source = r.source
        /\ Blank(next(i))
    BY <1>2 DEF To, Fields, Blank
  <2>3. run[i].state \in {"unused", "partial"} /\ run[i].state # "partial" BY <1>4
  <2>4. PICK succ : /\ job' = [job EXCEPT ![w] = succ]
                    /\ \/ succ = Idle
                       \/ /\ succ.step = "exists" /\ succ.import = i /\ succ.source = r.source
                          /\ Blank(succ)
    <3> HIDE DEF next
    <3> QED BY <1>4, <2>2
  <2> HIDE DEF next
  <2> QED BY ZenonT(30), <1>1, <1>2, <1>4, <2>1, <2>3, <2>4, UnneededStep
<1>5. \/ UNCHANGED <<run, rows, fate>> /\ job' = [job EXCEPT ![w] = Idle]
      \/ \E i \in Imports : /\ run[i].state = "unused" /\ UNCHANGED <<rows, fate>>
                            /\ run' = [run EXCEPT ![i] = [state |-> "running", source |-> r.source]]
                            /\ job' = [job EXCEPT ![w] = next(i)] \/ job' = [job EXCEPT ![w] = Idle]
  BY DEF Create, Access, Become, tables
<1> QED BY <1>3, <1>4, <1>5

(* A run is marked for its removal, or left.                                *)
LEMMA DiscardFine ==
    ASSUME IInv, TableInv, NEW w \in Workers, Discard(w) PROVE TableInv'
<1> DEFINE r == job[w]
           rest(e) == [r EXCEPT !.targets = @ \ {e}]
           clean(e) == [rest(e) EXCEPT !.step = "measure", !.import = e[1], !.then = "discard"]
<1>1. r.step = "discard" /\ UNCHANGED setup BY DEF Discard, At, Frame
<1>2. /\ DOMAIN r = Fields /\ Blank(r) /\ (w \in Jobs => r.source \in Sources)
      /\ r.import \in Imports \cup {0} /\ r.step \notin Owning \cup Settling
  BY <1>1, Seeking DEF Opens, IInv, Shape, Owning, Settling
<1>3. PICK e \in r.targets :
          \/ UNCHANGED <<run, rows, fate>> /\ job' = [job EXCEPT ![w] = Idle]
          \/ UNCHANGED <<run, rows, fate>> /\ job' = [job EXCEPT ![w] = rest(e)]
          \/ e[2] = "discarding" /\ UNCHANGED <<run, rows, fate>> /\ job' = [job EXCEPT ![w] = clean(e)]
          \/ /\ run[e[1]].state = "partial" /\ SetRun(e[1], "discarding")
             /\ job' = [job EXCEPT ![w] = clean(e)] \/ job' = [job EXCEPT ![w] = Idle]
  BY DEF Discard, Access, Become, Read, tables
<1>4. e[1] \in Imports /\ (e[2] = "discarding" => run[e[1]].state \in {"discarding", "gone"})
  BY DEF IInv, Discarded
<1>5. /\ DOMAIN rest(e) = Fields /\ rest(e).step = "discard" /\ rest(e).source = r.source
      /\ Blank(rest(e)) /\ rest(e).import = r.import
      /\ DOMAIN clean(e) = Fields /\ clean(e).step = "measure" /\ clean(e).source = r.source
      /\ clean(e).import = e[1] /\ clean(e).then = "discard" /\ Blank(clean(e))
  <2>1. /\ DOMAIN rest(e) = Fields /\ rest(e).step = "discard" /\ rest(e).source = r.source
        /\ Blank(rest(e)) /\ rest(e).import = r.import
    BY <1>1, <1>2 DEF Fields, Blank
  <2> HIDE DEF rest
  <2> QED BY <2>1 DEF Fields, Blank
<1> HIDE DEF rest, clean
<1>6. CASE UNCHANGED <<run, rows, fate>> /\ job' = [job EXCEPT ![w] = Idle]
  BY <1>1, <1>6, PlainStep, IdleBlank, IdleShape
<1>7. CASE UNCHANGED <<run, rows, fate>> /\ job' = [job EXCEPT ![w] = rest(e)]
  <2>1. rest(e).step \notin Owning \cup Settling \cup Summed BY <1>5 DEF Owning, Settling, Summed
  <2> QED BY <1>1, <1>2, <1>5, <1>7, <2>1, PlainStep
<1>8. CASE /\ e[2] = "discarding" /\ UNCHANGED <<run, rows, fate>>
           /\ job' = [job EXCEPT ![w] = clean(e)]
  <2> DEFINE i == e[1]
             next == clean(e)
  <2>1. run[i].state \in {"discarding", "gone"} /\ i \in Imports BY <1>4, <1>8
  <2>2. JobFine(w, next, run'[i], rows'[i], fate'[i], setup)
    BY <1>2, <1>5, <1>8, <2>1 DEF JobFine, Owning, Settling, Summed
  <2>3. \A v \in Workers : Owns(v) \/ Finisher(job[v]) => job[v].import # i
    <3> SUFFICES ASSUME NEW v \in Workers, Owns(v) \/ Finisher(job[v]), job[v].import = i
                 PROVE  FALSE OBVIOUS
    <3>1. CASE Owns(v) BY <2>1, <3>1 DEF IInv, OneOwner
    <3>2. CASE Finisher(job[v])
      <4>1. JobFine(v, job[v], run[i], rows[i], fate[i], setup) BY DEF TableInv
      <4> QED BY <2>1, <3>2, <4>1 DEF JobFine, Finisher
    <3> QED BY <3>1, <3>2
  <2>4. \A v \in Workers \ {w} :
           /\ Owns(v) \/ Finisher(job[v]) => job[v].import # i
           /\ job[v].step \in Settling /\ job[v].import = i => run'[i].state \in {"discarding", "gone"}
           /\ Apart(job[v], next)
    BY <1>5, <1>8, <2>1, <2>3 DEF Apart, Finisher
  <2>5. /\ Elsewhere(i) /\ DOMAIN rows' = Imports /\ DOMAIN fate' = Imports
        /\ ImportFine(run'[i], rows'[i], fate'[i], setup)
    BY <1>8, <2>1 DEF Elsewhere, TableInv
  <2>6. next.import = i BY <1>5
  <2> HIDE DEF i, next
  <2> QED BY <1>1, <1>8, <2>2, <2>4, <2>5, <2>6, StepKeeps DEF next
<1>9. CASE /\ run[e[1]].state = "partial" /\ SetRun(e[1], "discarding")
           /\ job' = [job EXCEPT ![w] = clean(e)] \/ job' = [job EXCEPT ![w] = Idle]
  <2> DEFINE i == e[1]
  <2>1. /\ i \in Imports /\ run[i].state = "partial" /\ UNCHANGED <<rows, fate>>
        /\ \A k \in Imports \ {i} : run'[k] = run[k]
        /\ run'[i].state = "discarding" /\ run'[i].source = run[i].source
    BY <1>4, <1>9 DEF SetRun, IInv, Shape
  <2>2. run[i].source \in Sources BY <2>1 DEF TableInv, ImportFine
  <2>3. clean(e).import = i BY <1>5
  <2> HIDE DEF i
  <2> QED BY SMTT(30), <1>1, <1>2, <1>5, <1>9, <2>1, <2>2, <2>3, UnneededStep
<1> QED BY <1>3, <1>6, <1>7, <1>8, <1>9

(* A run and its pages are removed, step by step.                           *)
LEMMA RemovingFine ==
    ASSUME IInv, TableInv, NEW w \in Workers, Measure(w) \/ DeletePages(w) \/ DeleteRun(w)
    PROVE  TableInv'
<1> DEFINE r == job[w]
           i == r.import
           measured == [To(w, "delete_pages") EXCEPT !.sum = Len(rows[i])]
<1>1. /\ UNCHANGED setup /\ UNCHANGED fate /\ r.step \in Settling
  BY DEF Measure, DeletePages, DeleteRun, Access, Read, SetRows, tables, Frame, At, Settling
<1>2. /\ DOMAIN r = Fields /\ i \in Imports
      /\ run[i].state \in {"running", "discarding", "gone"}
      /\ \A v \in Workers \ {w} : Owns(v) => job[v].import # i
  BY <1>1 DEF IInv, Shape, Removed
<1>3. JobFine(w, r, run[i], rows[i], fate[i], setup) /\ ImportFine(run[i], rows[i], fate[i], setup)
  BY <1>2 DEF TableInv
<1>4. r.source \in Sources \/ w \notin Jobs BY <1>1, <1>3 DEF JobFine, Settling
<1>5. r.then = "discard" => Blank(r) BY <1>1, <1>3 DEF JobFine, Opens
<1>6. /\ \/ UNCHANGED rows /\ UNCHANGED run
         \/ UNCHANGED run /\ rows' = [rows EXCEPT ![i] = <<>>]
         \/ UNCHANGED rows /\ run' = [run EXCEPT ![i] = Gone]
      /\ \/ job' = [job EXCEPT ![w] = Idle]
         \/ r.step = "measure" /\ job' = [job EXCEPT ![w] = measured] /\ UNCHANGED run
         \/ r.step = "delete_pages" /\ job' = [job EXCEPT ![w] = To(w, "delete_run")] /\ UNCHANGED run
         \/ r.step = "delete_run" /\ job' = [job EXCEPT ![w] = To(w, "give_back")]
  BY DEF Measure, DeletePages, DeleteRun, Access, Read, SetRows, tables, At, Become, Cancellable
<1>7. ImportFine(run'[i], rows'[i], fate'[i], setup)
  <2>1. CASE UNCHANGED rows /\ UNCHANGED run BY <1>1, <1>3, <2>1
  <2>2. CASE UNCHANGED run /\ rows' = [rows EXCEPT ![i] = <<>>]
    <3>1. rows'[i] = <<>> /\ run'[i] = run[i] /\ fate'[i] = fate[i] BY <1>1, <1>2, <2>2 DEF TableInv
    <3>2. Table(<<>>, fate[i], setup.links)
      <4>1. <<>> \in Seq(Row) /\ DOMAIN <<>> = {} BY EmptySeq
      <4> QED BY <1>3, <4>1 DEF ImportFine, Table
    <3> QED BY <1>2, <1>3, <3>1, <3>2 DEF ImportFine
  <2>3. CASE UNCHANGED rows /\ run' = [run EXCEPT ![i] = Gone]
    <3>1. rows'[i] = rows[i] /\ run'[i] = Gone /\ fate'[i] = fate[i]
      BY <1>1, <1>2, <2>3 DEF IInv, Shape
    <3> QED BY <1>3, <3>1 DEF ImportFine, Gone, RunStates
  <2> QED BY <1>6, <2>1, <2>2, <2>3
<1>8. /\ Elsewhere(i) /\ DOMAIN rows' = Imports /\ DOMAIN fate' = Imports
  BY <1>1, <1>2, <1>6 DEF Elsewhere, TableInv, IInv, Shape
<1>9. run'[i] = run[i] \/ run'[i].state = "gone" BY <1>2, <1>6 DEF Gone, IInv, Shape
<1>10. PICK next : /\ job' = [job EXCEPT ![w] = next]
                   /\ \/ next = Idle
                      \/ /\ next.import = i /\ next.source = r.source /\ next.then = r.then
                         /\ r.then = "discard" => Blank(next)
                         /\ next.sum \in Nat
                         /\ \/ next.step \in {"delete_pages", "delete_run"} /\ UNCHANGED run
                            \/ next.step = "give_back"
  <2>0. /\ Len(rows[i]) \in Nat
        /\ r.step \in {"delete_pages", "delete_run"} => r.sum \in Nat
    BY <1>2, <1>3, TablesAre, LenProperties DEF JobFine, Summed
  <2>1. /\ \A s : /\ To(w, s).step = s /\ To(w, s).import = i /\ To(w, s).source = r.source
                  /\ To(w, s).then = r.then /\ (Blank(r) => Blank(To(w, s)))
                  /\ To(w, s).sum = r.sum
        /\ measured.step = "delete_pages" /\ measured.import = i /\ measured.source = r.source
        /\ measured.then = r.then /\ (Blank(r) => Blank(measured))
        /\ measured.sum \in Nat
    BY <1>2, <2>0 DEF To, Fields, Blank
  <2> HIDE DEF measured
  <2>2. CASE job' = [job EXCEPT ![w] = Idle] BY <2>2
  <2>3. CASE job' = [job EXCEPT ![w] = measured] /\ UNCHANGED run BY <1>5, <2>1, <2>3
  <2>4. CASE job' = [job EXCEPT ![w] = To(w, "delete_run")] /\ UNCHANGED run /\ r.step = "delete_pages"
    BY ZenonT(30), <1>5, <2>0, <2>1, <2>4
  <2>5. CASE job' = [job EXCEPT ![w] = To(w, "give_back")] /\ r.step = "delete_run"
    BY <1>5, <2>0, <2>1, <2>5
  <2> QED BY <1>6, <2>2, <2>3, <2>4, <2>5
<1>11. JobFine(w, next, run'[next.import], rows'[next.import], fate'[next.import], setup)
  <2>1. CASE next = Idle BY <2>1, IdleBlank, IdleShape DEF JobFine, Settling
  <2>2. CASE next # Idle
    <3>1. /\ next.import = i /\ next.then = r.then /\ (w \in Jobs => next.source \in Sources)
          /\ next.step \in {"delete_pages", "delete_run", "give_back"}
          /\ r.then = "discard" => Blank(next)
          /\ next.step \in Settling => run'[i] = run[i]
          /\ next.sum \in Nat /\ next.import \in Imports \cup {0}
      BY <1>2, <1>4, <1>10, <2>2 DEF Settling
    <3>2. Opens(next) => Blank(next) BY <3>1 DEF Opens
    <3>3. next.step \in Settling => IF r.then = "discard" THEN run[i].state \in {"discarding", "gone"}
                                    ELSE run[i].state = "running"
      BY <1>1, <1>3 DEF JobFine
    <3>4. next.step \notin Owning /\ next.step # "measure" BY <3>1 DEF Owning
    <3> QED BY <3>1, <3>2, <3>3, <3>4 DEF JobFine
  <2> QED BY <2>1, <2>2
<1>12. \A v \in Workers \ {w} :
         /\ Owns(v) \/ Finisher(job[v]) => job[v].import # i
         /\ job[v].step \in Settling /\ job[v].import = i => run'[i].state \in {"discarding", "gone"}
         /\ Apart(job[v], next)
  <2> SUFFICES ASSUME NEW v \in Workers \ {w}
               PROVE /\ Owns(v) \/ Finisher(job[v]) => job[v].import # i
                     /\ job[v].step \in Settling /\ job[v].import = i
                           => run'[i].state \in {"discarding", "gone"}
                     /\ Apart(job[v], next)
    OBVIOUS
  <2>1. Apart(job[v], r) BY DEF TableInv, Finishers
  <2>2. Finisher(job[v]) => job[v].import # i BY <1>1, <2>1 DEF Apart
  <2>3. job[v].step \in Settling /\ job[v].import = i => r.then = "discard"
    BY <1>1, <2>1 DEF Apart, Finisher
  <2>4. job[v].step \in Settling /\ job[v].import = i => run[i].state \in {"discarding", "gone"}
    BY <1>1, <1>3, <2>3 DEF JobFine
  <2>5. next.step \in Settling => next.import = i /\ next.then = r.then BY <1>10, IdleBlank
  <2>6. Apart(job[v], next) BY <1>1, <2>1, <2>5 DEF Apart, Finisher
  <2> QED BY <1>2, <1>9, <2>2, <2>4, <2>6
<1> QED BY <1>1, <1>7, <1>8, <1>10, <1>11, <1>12, StepKeeps

-----------------------------------------------------------------------------
(* Calls come, are cancelled and end with the process *)

(* A call is made for a source that is asked for, or for that of an import. *)
LEMMA StartFine ==
    ASSUME IInv, TableInv, NEW j \in Jobs, NEW kind, Start(j, kind) PROVE TableInv'
<1> DEFINE find(s) == [Idle EXCEPT !.step = "find", !.kind = kind, !.source = s]
           lookup(i) == [Idle EXCEPT !.step = "lookup", !.kind = kind,
                                     !.source = run[i].source, !.import = i]
<1>1. j \in Workers /\ UNCHANGED setup /\ UNCHANGED <<run, rows, fate>>
  BY DEF Workers, Start, tables
<1>2. \/ \E s \in setup.sources : job' = [job EXCEPT ![j] = find(s)]
      \/ \E i \in Imports : run[i].state \in {"partial", "running"}
                            /\ job' = [job EXCEPT ![j] = lookup(i)]
  BY DEF Start, Become
<1>3. /\ \A s : find(s).step = "find" /\ find(s).source = s /\ Blank(find(s)) /\ find(s).import = 0
      /\ \A i : /\ lookup(i).step = "lookup" /\ lookup(i).source = run[i].source
                /\ lookup(i).import = i /\ Blank(lookup(i))
  BY DEF Idle, Blank
<1>4. setup.sources \subseteq Sources BY FrontierAssumption DEF TableInv
<1>5. \A i \in Imports : run[i].state \in {"partial", "running"} => run[i].source \in Sources
  BY DEF TableInv, ImportFine
<1> HIDE DEF find, lookup
<1>6. PICK next : /\ job' = [job EXCEPT ![j] = next] /\ next.step \in {"find", "lookup"}
                  /\ Blank(next) /\ next.source \in Sources
                  /\ next.import \in Imports \cup {0}
  BY <1>2, <1>3, <1>4, <1>5
<1>7. next.step \notin Owning \cup Settling \cup Summed BY <1>6 DEF Owning, Settling, Summed
<1> QED BY <1>1, <1>6, <1>7, PlainStep

(* A cancelled call is still where it was.                                  *)
LEMMA CancelFine ==
    ASSUME IInv, TableInv, NEW j \in Jobs, Cancel(j) PROVE TableInv'
<1> DEFINE r == job[j]
           q == [r EXCEPT !.cancelled = TRUE]
           i == r.import
<1>1. /\ j \in Workers /\ UNCHANGED setup /\ UNCHANGED <<run, rows, fate>>
      /\ job' = [job EXCEPT ![j] = q]
  BY DEF Workers, Cancel, Become, tables
<1>2. DOMAIN r = Fields BY <1>1 DEF IInv, Shape
<1>3. /\ q.import = i /\ r.import = i /\ q.sum = r.sum /\ q.source = r.source
      /\ q.step = r.step /\ q.then = r.then /\ q.at = r.at /\ q.cursor = r.cursor
      /\ q.queue = r.queue /\ q.buffer = r.buffer /\ q.completed = r.completed
      /\ q.error = r.error
  BY <1>2 DEF Fields
<1>4. /\ JobFine(j, r, run[i], rows[i], fate[i], setup)
      /\ \A v \in Workers \ {j} : Apart(job[v], r)
  BY <1>1 DEF TableInv, Finishers
<1>5. /\ \A v \in Workers : Owns(v) \/ job[v].step \in Settling => job[v].import \in Imports
      /\ 0 \notin Imports
  BY DEF IInv, Shape, Owns, Owning, Imports
<1> HIDE DEF q, r, i
<1>6. \A t, f, L : /\ BatchOK(r, t, f, L) => BatchOK(q, t, f, L)
                   /\ Ahead(r, f) => Ahead(q, f)
                   /\ LinkOK(r, t, f, L) => LinkOK(q, t, f, L)
  BY <1>3 DEF BatchOK, Collected, Ahead, LinkOK
<1>7. \A t, f, L : Works(r, t, f, L) => Works(q, t, f, L)
  <2> SUFFICES ASSUME NEW t, NEW f, NEW L, Works(r, t, f, L) PROVE Works(q, t, f, L) OBVIOUS
  <2>1. /\ BatchOK(r, t, f, L) => BatchOK(q, t, f, L)
        /\ Ahead(r, f) => Ahead(q, f)
        /\ LinkOK(r, t, f, L) => LinkOK(q, t, f, L)
    BY <1>6
  <2>2. Collected(q) = Collected(r) BY <1>3 DEF Collected
  <2> QED BY <1>3, <2>1, <2>2 DEF Works
<1>8. JobFine(j, q, run'[i], rows'[i], fate'[i], setup)
  <2>1. (Blank(r) => Blank(q)) /\ (Opens(q) => Opens(r)) /\ (Rooting(q) => Rooting(r))
    BY <1>3 DEF Blank, Opens, Rooting
  <2> QED BY <1>1, <1>3, <1>4, <1>7, <2>1 DEF JobFine
<1>9. \A v \in Workers \ {j} :
         /\ Owns(v) \/ Finisher(job[v]) => job[v].import # 0
         /\ job[v].step \in Settling /\ job[v].import = 0 => run'[0].state \in {"discarding", "gone"}
         /\ Apart(job[v], q)
  BY <1>3, <1>4, <1>5 DEF Apart, Finisher
<1>10. Elsewhere(0) /\ DOMAIN rows' = Imports /\ DOMAIN fate' = Imports
  BY <1>1 DEF Elsewhere, TableInv
<1> QED BY <1>1, <1>3, <1>5, <1>8, <1>9, <1>10, StepKeeps

(* Nobody but the recovery is at work, and what it did suits every import.  *)
LEMMA AloneFine ==
    ASSUME UNCHANGED setup, setup \in Setups,
           DOMAIN rows' = Imports, DOMAIN fate' = Imports,
           \A i \in Imports : ImportFine(run'[i], rows'[i], fate'[i], setup),
           \A w \in Workers : /\ job'[w].step \in {"idle", "recover_runs", "recover_pages", "list"}
                              /\ Blank(job'[w]) /\ (w \in Jobs => job'[w].step = "idle")
                              /\ job'[w].import \in Imports \cup {0}
    PROVE  TableInv'
<1>1. \A w \in Workers : LET i == job'[w].import IN
          JobFine(w, job'[w], run'[i], rows'[i], fate'[i], setup)
  BY DEF JobFine, Owning, Settling, Summed
<1>2. Finishers'
  <2>1. \A v, w \in Workers : Apart(job'[v], job'[w])
    BY DEF Apart, Finisher, Settling
  <2> QED BY <2>1 DEF Finishers, Apart, Finisher
<1>3. /\ (\A i \in Imports : ImportFine(run[i], rows[i], fate[i], setup))'
      /\ (\A w \in Workers :
             LET i == job[w].import IN JobFine(w, job[w], run[i], rows[i], fate[i], setup))'
  BY <1>1
<1> QED BY <1>2, <1>3 DEF TableInv

(* The process dies and starts again; the recovery releases what it finds.  *)
LEMMA ProcessFine ==
    ASSUME IInv, TableInv, Crash \/ Boot \/ Recovered \/ RecoverRuns \/ RecoverPages
    PROVE  TableInv'
<1>1. /\ Startup \in Workers /\ Startup \notin Jobs /\ DOMAIN job = Workers
      /\ \A w \in Workers : DOMAIN job[w] = Fields
      /\ \A i \in Imports : ImportFine(run[i], rows[i], fate[i], setup)
      /\ setup \in Setups /\ DOMAIN rows = Imports /\ DOMAIN fate = Imports
      /\ DOMAIN run = Imports /\ \A i \in Imports : DOMAIN run[i] = {"state", "source"}
  BY FrontierAssumption DEF Workers, IInv, Shape, TableInv
<1>2. UNCHANGED setup /\ UNCHANGED fate
  BY DEF Crash, Boot, Recovered, RecoverRuns, RecoverPages, Access, SetRows, tables, Frame
<1>3. CASE Crash
  <2>1. \A w \in Workers : job'[w] = Idle BY <1>3 DEF Crash
  <2>2. UNCHANGED run /\ UNCHANGED rows BY <1>3 DEF Crash, tables
  <2> QED BY <1>1, <1>2, <2>1, <2>2, IdleBlank, IdleShape, AloneFine
<1>4. CASE Boot
  <2> DEFINE next == [Idle EXCEPT !.step = "recover_runs"]
  <2>1. UNCHANGED run /\ UNCHANGED rows /\ job' = [job EXCEPT ![Startup] = next]
        /\ \A j \in Jobs : job[j] = Idle
    BY <1>4 DEF Boot, Become, tables, IInv, Serving
  <2>2. next.step = "recover_runs" /\ Blank(next) /\ next.import = 0 BY DEF Idle, Blank
  <2> HIDE DEF next
  <2> QED BY <1>1, <1>2, <2>1, <2>2, IdleBlank, IdleShape, AloneFine DEF Workers
<1>5. CASE Recovered
  <2>1. UNCHANGED run /\ UNCHANGED rows /\ job' = [job EXCEPT ![Startup] = Idle]
        /\ \A j \in Jobs : job[j] = Idle
    BY <1>5 DEF Recovered, Become, tables, IInv, Serving
  <2> QED BY <1>1, <1>2, <2>1, IdleBlank, IdleShape, AloneFine DEF Workers
<1>6. CASE RecoverRuns \/ RecoverPages
  <2>1. /\ job[Startup].step \in {"recover_runs", "recover_pages"}
        /\ \A j \in Jobs : job[j] = Idle
    <3>1. job[Startup].step \in {"recover_runs", "recover_pages"} /\ phase # "down"
      BY <1>6 DEF RecoverRuns, RecoverPages, At
    <3> QED BY <3>1, IdleShape DEF IInv, Serving
  <2>2. PICK next \in {To(Startup, "recover_pages"), To(Startup, "list"), Idle} :
            job' = [job EXCEPT ![Startup] = next]
    BY <1>1, <1>6 DEF RecoverRuns, RecoverPages, Access, Become, Cancellable
  <2>3. Blank(job[Startup]) /\ job[Startup].import \in Imports \cup {0}
    BY <1>1, <2>1, Seeking DEF Opens
  <2>4. Blank(next) /\ next.import \in Imports \cup {0} /\ next.step \in {"idle", "recover_pages", "list"}
    BY <1>1, <2>3, IdleBlank, IdleShape DEF To, Fields, Blank
  <2>5. /\ DOMAIN rows' = Imports
        /\ \A i \in Imports : rows'[i] = rows[i] \/ rows'[i] = Released(rows[i])
    BY <1>1, <1>6 DEF RecoverRuns, RecoverPages, Access, SetRows, tables
  <2>6. \A i \in Imports : /\ run'[i] = run[i] \/ run'[i] = [run[i] EXCEPT !.state = "partial"]
                           /\ run'[i] = run[i] \/ run[i].state = "running"
    BY <1>6 DEF RecoverRuns, RecoverPages, Access, SetRows, tables, Interrupted
  <2>7. ASSUME NEW i \in Imports PROVE ImportFine(run'[i], rows'[i], fate'[i], setup)
    <3>1. Table(rows[i], fate[i], setup.links) BY <1>1 DEF ImportFine
    <3>2. /\ Table(rows'[i], fate[i], setup.links) /\ Paged(rows'[i]) = Paged(rows[i])
          /\ rows[i] # <<>> => rows'[i] # <<>>
      BY <2>5, <3>1, Releasing
    <3>3. rows[i] = <<>> => rows'[i] = <<>>
      <4>1. Released(<<>>) = <<>> BY EmptySeq DEF Released
      <4> QED BY <2>5, <4>1
    <3>4. run'[i].source = run[i].source
          /\ (run'[i].state = run[i].state \/ (run'[i].state = "partial" /\ run[i].state = "running"))
      BY <1>1, <2>6
    <3> QED BY <1>1, <1>2, <3>2, <3>3, <3>4 DEF ImportFine, RunStates
  <2>8. \A w \in Workers : /\ job'[w].step \in {"idle", "recover_runs", "recover_pages", "list"}
                           /\ Blank(job'[w]) /\ (w \in Jobs => job'[w].step = "idle")
                           /\ job'[w].import \in Imports \cup {0}
    BY <1>1, <2>1, <2>2, <2>4, IdleBlank, IdleShape DEF Workers
  <2> QED BY <1>1, <1>2, <2>5, <2>7, <2>8, AloneFine
<1> QED BY <1>3, <1>4, <1>5, <1>6

(* At first nothing is imported.                                            *)
LEMMA InitTableInv == Init => TableInv
<1> SUFFICES ASSUME Init PROVE TableInv OBVIOUS
<1>1. <<>> \in Seq(Row) /\ DOMAIN <<>> = {} BY EmptySeq
<1>2. \A i \in Imports : ImportFine(run[i], rows[i], fate[i], setup)
  BY <1>1 DEF Init, ImportFine, Table, Cut, Fates, RunStates
<1>3. \A w \in Workers :
          LET i == job[w].import IN JobFine(w, job[w], run[i], rows[i], fate[i], setup)
  BY IdleShape, IdleBlank DEF Init, JobFine, Settling
<1>4. Finishers BY IdleBlank DEF Init, Finishers, Apart, Finisher
<1> QED BY <1>2, <1>3, <1>4 DEF Init, TableInv

(* Every step keeps every queue, and what every worker relies on.           *)
LEMMA NextTableInv == IInv /\ TableInv /\ [Next]_vars => TableInv'
<1> SUFFICES ASSUME IInv, TableInv, [Next]_vars PROVE TableInv' OBVIOUS
<1>1. ASSUME NEW w \in Workers, JobStep(w) PROVE TableInv'
  <2>1. CASE Opening(w) BY <2>1, LookingFine, ClaimRunFine, CreateFine, DiscardFine DEF Opening
  <2>2. CASE Finishing(w) BY <2>2, RemovingFine, AddingUpFine DEF Finishing
  <2>3. CASE Enqueuing(w)
    BY <2>3, CheckDuplicateFine, ReserveFine, InsertFine, RefundFine, AdoptFine DEF Enqueuing
  <2>4. CASE Preparing(w)
    BY <2>4, SelectFine, TakeFine, VisitFine, GiveUpFine, AdvanceFine, ReleaseFine DEF Preparing
  <2>5. CASE Concluding(w)
    BY <2>5, ReadServicePagesFine, PersistFine, MarkFine, ReadStatsFine, DetectTemplatesFine,
       PreserveFine, SetPartialFine, AddingUpFine DEF Concluding
  <2> QED BY <1>1, <2>1, <2>2, <2>3, <2>4, <2>5 DEF JobStep
<1>2. CASE StartupStep BY <1>2, ProcessFine DEF StartupStep
<1>3. CASE Outside BY <1>3, ProcessFine, StartFine, CancelFine DEF Outside
<1>4. CASE UNCHANGED vars
  <2>1. UNCHANGED <<setup, run, rows, fate, job>> BY <1>4 DEF vars, tables
  <2>2. Finishers' BY <2>1 DEF TableInv, Finishers, Apart, Finisher
  <2> QED BY <2>1, <2>2 DEF TableInv
<1> QED BY <1>1, <1>2, <1>3, <1>4 DEF Next

(* What every import and every call relies on: rows are found once, behind  *)
(* a done or visited page lie its links, a batch keeps to its table.        *)
THEOREM TableInvariant == Spec => []TableInv
<1>1. Init => TableInv BY InitTableInv
<1>2. IInv /\ TableInv /\ [Next]_vars => TableInv' BY NextTableInv
<1> QED BY <1>1, <1>2, InductiveInvariant, PTL DEF Spec

-----------------------------------------------------------------------------
(* What the queues come to *)

(* The accounted bytes stay a number.                                       *)
LEMMA NextReserved ==
    ASSUME IInv, TableInv, reserved \in Nat, [Next]_vars PROVE reserved' \in Nat
<1>1. ASSUME NEW w \in Workers, JobStep(w) PROVE reserved' \in Nat
  <2>1. job[w].step \in Summed => job[w].sum \in Nat BY DEF TableInv, JobFine
  <2>2. CASE Opening(w)
    BY <2>2 DEF Opening, Find, Lookup, ClaimRun, ListDiscarded, Discard, Create, Access, Read,
                SetRun, tables
  <2>3. CASE Finishing(w)
    <3>1. CASE GiveBack(w)
      <4>1. job[w].sum \in Nat BY <2>1, <3>1 DEF GiveBack, At, Summed
      <4>2. UNCHANGED reserved \/ reserved' = Less(job[w].sum)
        BY <3>1 DEF GiveBack, Access, SetReserved, tables
      <4> QED BY <4>1, <4>2 DEF Less
    <3> QED BY <2>3, <3>1 DEF Finishing, Measure, DeletePages, DeleteRun, Access, Read, SetRows, tables
  <2>4. CASE Enqueuing(w)
    <3>1. CASE Reserve(w) \/ Refund(w)
      <4>1. UNCHANGED reserved \/ reserved' = reserved + 1 \/ reserved' = Less(1)
        BY <3>1 DEF Reserve, Refund, Access, SetReserved, Read, tables
      <4> QED BY <4>1 DEF Less
    <3> QED BY <2>4, <3>1 DEF Enqueuing, CheckDuplicate, Insert, Adopt, Access, Read, SetRows,
                              SetRow, tables
  <2>5. CASE Preparing(w)
    BY <2>5 DEF Preparing, Select, Take, Visit, GiveUp, Advance, Release, Access, Read, SetRows,
                SetRow, tables
  <2>6. CASE Concluding(w)
    <3>1. CASE WriteUp(w)
      <4>1. job[w].sum \in Nat BY <2>1, <3>1 DEF WriteUp, At, Summed
      <4> QED BY <3>1, <4>1 DEF WriteUp, Access, SetReserved, tables
    <3> QED BY <2>6, <3>1 DEF Concluding, ReadServicePages, Persist, Mark, ReadStats,
               DetectTemplates, Preserve, SetPartial, AddUp, Access, Read, SetRow, SetRun, tables
  <2> QED BY <1>1, <2>2, <2>3, <2>4, <2>5, <2>6 DEF JobStep
<1>2. CASE StartupStep
  BY <1>2 DEF StartupStep, Boot, RecoverRuns, RecoverPages, Recovered, Access, SetRows, tables
<1>3. CASE Outside BY <1>3 DEF Outside, Cancel, Start, Crash, tables
<1>4. CASE UNCHANGED vars BY <1>4 DEF vars, tables
<1> QED BY <1>1, <1>2, <1>3, <1>4 DEF Next

(* A queue names each of its pages once.                                    *)
LEMMA PagesAreRows ==
    ASSUME NEW t \in Seq(Row), \A k, l \in DOMAIN t : t[k].page = t[l].page => k = l
    PROVE  Cardinality(Paged(t)) = Len(t)
<1> DEFINE f == [k \in DOMAIN t |-> t[k].page]
<1>1. DOMAIN t = 1..Len(t) /\ Len(t) \in Nat BY LenProperties
<1>2. f \in Bijection(DOMAIN t, Paged(t))
  BY DEF Bijection, Injection, Surjection, IsInjective, Paged
<1>3. IsFiniteSet(DOMAIN t) /\ Cardinality(DOMAIN t) = Len(t) BY <1>1, FS_Interval
<1>4. ExistsBijection(DOMAIN t, Paged(t)) BY <1>2 DEF ExistsBijection
<1> QED BY <1>3, <1>4, FS_Bijection

(* The queue is well formed and covers what was discovered.                 *)
LEMMA TablesCover == IInv /\ TableInv /\ reserved \in Nat => DiscoveredNotLost
<1> SUFFICES ASSUME IInv, TableInv, reserved \in Nat PROVE DiscoveredNotLost OBVIOUS
<1>1. \A i \in Imports : Queued(i) = Paged(rows[i]) /\ Broken(i) = Cut(fate[i])
  BY DEF Queued, Paged, Broken, Cut
<1>2. \A i \in Imports : Table(rows[i], fate[i], Links) /\ run[i].state \in RunStates
  BY DEF TableInv, ImportFine, Links
<1>3. \A i \in Imports : \A k \in DOMAIN rows[i] :
          /\ rows[i][k] \in Row /\ RowOK(rows[i][k], rows[i], fate[i], Links)
          /\ Len(Links[rows[i][k].page]) \in Nat
  <2> SUFFICES ASSUME NEW i \in Imports, NEW k \in DOMAIN rows[i]
               PROVE  /\ rows[i][k] \in Row /\ RowOK(rows[i][k], rows[i], fate[i], Links)
                      /\ Len(Links[rows[i][k].page]) \in Nat
    OBVIOUS
  <2>1. rows[i][k] \in Row BY <1>2, ElementOfSeq, LenProperties DEF Table
  <2>2. Links \in [Pages -> Seq(Pages)] BY FrontierAssumption DEF TableInv, Links
  <2>3. Links[rows[i][k].page] \in Seq(Pages) BY <2>1, <2>2 DEF Row
  <2> QED BY <1>2, <2>1, <2>3, LenProperties DEF Table
<1>4. TypeOK
  <2>1. \A i \in Imports : \A k \in DOMAIN rows[i] :
            /\ rows[i][k].page \in Pages
            /\ rows[i][k].state \in {"pending", "processing", "done"}
            /\ rows[i][k].cursor \in 0..Len(Links[rows[i][k].page])
    BY <1>3 DEF Row, States, RowOK
  <2>2. \A i \in Imports : Cardinality(Queued(i)) = Len(rows[i])
    BY <1>1, <1>2, PagesAreRows DEF Table
  <2>3. \A w \in Workers : job[w].import \in Imports \cup {0} BY DEF TableInv, JobFine
  <2>4. phase \in {"down", "recovering", "up"} BY DEF IInv, Serving
  <2> QED BY <1>2, <2>1, <2>2, <2>3, <2>4 DEF TypeOK, RunStates
<1>5. ASSUME NEW i \in Imports, NEW k \in DOMAIN rows[i]
      PROVE  LET e == rows[i][k]
                 n == IF e.state # "done" THEN e.cursor
                      ELSE IF e.page \in Broken(i) THEN 0 ELSE Len(Links[e.page])
             IN \A x \in 1..n : Links[e.page][x] \in Queued(i)
  <2>1. RowOK(rows[i][k], rows[i], fate[i], Links) BY <1>3
  <2> QED BY <1>1, <2>1 DEF RowOK, Covers
<1> QED BY <1>4, <1>5 DEF DiscoveredNotLost

(* No discovered link is lost, wherever an import is interrupted            *)
(* (AddImportFrontierPage, SetImportFrontierPageState, the cursor of        *)
(* prepareWholeRemoteSiteImport, RecoverImportFrontiers).                   *)
THEOREM DiscoveredNotLostAlways == Spec => []DiscoveredNotLost
<1>1. Init => reserved \in Nat BY DEF Init
<1>2. IInv /\ TableInv /\ reserved \in Nat /\ [Next]_vars => (reserved \in Nat)'
  BY NextReserved
<1>3. IInv /\ TableInv /\ reserved \in Nat => DiscoveredNotLost BY TablesCover
<1> QED BY <1>1, <1>2, <1>3, InductiveInvariant, TableInvariant, PTL DEF Spec

(* An import is finished only when every page that can be reached over      *)
(* pages that loaded was stored or reported, in whatever number of calls,   *)
(* interruptions and retries (the stats read before FinishImportFrontier).  *)
THEOREM FinishedIsCompleteAlways == Spec => []FinishedIsComplete
<1>1. IInv /\ TableInv => FinishedIsComplete
  <2> SUFFICES ASSUME IInv, TableInv, NEW w \in Jobs, Completing(w),
                      NEW p \in Reachable(job[w].import)
               PROVE  fate[job[w].import][p] # "none"
    BY DEF FinishedIsComplete
  <2> DEFINE i == job[w].import
             t == rows[i]
             f == fate[i]
             S == Paged(t)
  <2>1. w \in Workers /\ job[w].step = "measure" /\ job[w].then = "rebuild"
    BY DEF Workers, Completing
  <2>2. i \in Imports BY <2>1 DEF IInv, Shape, Settling
  <2>3. JobFine(w, job[w], run[i], t, f, setup) /\ ImportFine(run[i], t, f, setup)
    BY <2>1, <2>2 DEF TableInv
  <2>4. run[i].state = "running" /\ AllDone(t) BY <2>1, <2>3 DEF JobFine, Settling
  <2>5. Table(t, f, Links) /\ Root[run[i].source] \in S
    BY <2>3, <2>4 DEF ImportFine, AllDone, Links, Root
  <2>6. \A k \in DOMAIN t : t[k] \in Row BY <2>5, ElementOfSeq, LenProperties DEF Table
  <2>7. Linked(Links) BY FrontierAssumption DEF TableInv, Linked, Links
  <2>8. S \subseteq Pages BY <2>6 DEF Paged, Row
  <2>9. \A q \in S : f[q] # "none" /\ (q \notin Cut(f) => Covers(t, Links, q, Len(Links[q])))
    BY <2>4, <2>5 DEF Paged, AllDone, Table, RowOK
  <2>10. ASSUME NEW q \in S, q \notin Broken(i) PROVE Range(Links[q]) \subseteq S
    <3>1. q \notin Cut(f) BY <2>10 DEF Broken, Cut
    <3>2. Links[q] \in Seq(Pages) BY <2>7, <2>8 DEF Linked
    <3>3. DOMAIN Links[q] = 1..Len(Links[q]) BY <3>2, LenProperties
    <3> QED BY <2>9, <3>1, <3>3 DEF Covers, Range
  <2>11. p \in S
    <3>1. S \in SUBSET Pages BY <2>8
    <3> HIDE DEF S
    <3> QED BY <2>5, <2>10, <3>1 DEF Reachable
  <2> QED BY <2>9, <2>11
<1> QED BY <1>1, InductiveInvariant, TableInvariant, PTL

-----------------------------------------------------------------------------
(* What a worker relies on between its reading and its writing              *)

Booking == {"insert", "refund", "delete_pages", "delete_run", "give_back", "write_up"}

(* A worker that is refused its row gives back its reservation, unless it   *)
(* was cancelled: then the row may be there.                                *)
Ceded(w, r) == w \in Jobs /\ r.cancelled /\ (r.queue # <<>> \/ r.kind # "grab")

(* A worker with record r, whose import has n rows, of total rows in all,   *)
(* for which res are accounted.                                             *)
Booked(w, r, n, total, res) ==
    /\ r.step = "insert" => total < res
    /\ r.step = "refund" => Ceded(w, r) \/ total < res
    /\ r.step = "delete_pages" => r.sum = n
    /\ r.step \in {"delete_run", "give_back"} => total + r.sum <= res
    /\ r.step = "write_up" => r.sum = total

QuotaInv ==
    ~disturbed =>
        /\ Total <= reserved /\ reserved <= Budget
        /\ \A w \in Workers : Booked(w, job[w], Len(rows[job[w].import]), Total, reserved)
-----------------------------------------------------------------------------
(* The length of the queue                                                  *)

(* As long as no queue changes its length, neither does their total.        *)
LEMMA SameRows ==
    ASSUME \A i \in Imports : DOMAIN rows'[i] = DOMAIN rows[i] PROVE Total' = Total
<1>1. QueueRows' = QueueRows BY DEF QueueRows
<1> QED BY <1>1 DEF Total

(* Nor does any of them change its length then.                             *)
LEMMA SameLengths ==
    ASSUME TableInv, TableInv', \A i \in Imports : DOMAIN rows'[i] = DOMAIN rows[i]
    PROVE  \A i \in Imports : Len(rows'[i]) = Len(rows[i])
<1> SUFFICES ASSUME NEW i \in Imports PROVE Len(rows'[i]) = Len(rows[i]) OBVIOUS
<1>1. rows[i] \in Seq(Row) /\ rows'[i] \in Seq(Row) BY DEF TableInv, ImportFine, Table
<1>2. /\ Len(rows[i]) \in Nat /\ DOMAIN rows[i] = 1..Len(rows[i])
      /\ Len(rows'[i]) \in Nat /\ DOMAIN rows'[i] = 1..Len(rows'[i])
  BY <1>1, LenProperties
<1>3. 1..Len(rows[i]) = 1..Len(rows'[i]) BY <1>2
<1>4. \A m, n \in Nat : 1..m = 1..n => m = n
  <2> SUFFICES ASSUME NEW m \in Nat, NEW n \in Nat, 1..m = 1..n PROVE m = n OBVIOUS
  <2>1. m > 0 => m \in 1..n OBVIOUS
  <2>2. n > 0 => n \in 1..m OBVIOUS
  <2> QED BY <2>1, <2>2
<1> QED BY <1>2, <1>3, <1>4

(* One more row.                                                            *)
LEMMA OneMoreRow ==
    ASSUME TableInv, NEW i \in Imports, NEW e, rows' = [rows EXCEPT ![i] = Append(@, e)], e \in Row
    PROVE  Total' = Total + 1 /\ Total \in Nat
<1>1. IsFiniteSet(QueueRows) /\ Total \in Nat BY TablesAre, FiniteQueue
<1>2. rows[i] \in Seq(Row) /\ DOMAIN rows = Imports BY TablesAre DEF TableInv
<1>3. DOMAIN rows[i] = 1..Len(rows[i]) /\ Len(rows[i]) \in Nat BY <1>2, LenProperties
<1>4. DOMAIN rows'[i] = 1..(Len(rows[i]) + 1)
  <2>1. rows'[i] = Append(rows[i], e) BY <1>2
  <2> QED BY <1>2, <2>1, AppendProperties, LenProperties
<1>5. \A k \in Imports \ {i} : rows'[k] = rows[k] BY <1>2
<1> DEFINE x == <<i, Len(rows[i]) + 1>>
<1>6. x \notin QueueRows
  <2>1. Len(rows[i]) + 1 \notin DOMAIN rows[i] BY <1>3
  <2> QED BY <2>1 DEF QueueRows
<1>7. QueueRows' = QueueRows \cup {x}
  <2>1. DOMAIN rows'[i] = DOMAIN rows[i] \cup {Len(rows[i]) + 1} BY <1>3, <1>4
  <2>2. QueueRows' = UNION {{k} \X DOMAIN rows'[k] : k \in Imports} BY DEF QueueRows
  <2>3. \A y : y \in QueueRows' <=> \E k \in Imports : y \in {k} \X DOMAIN rows'[k] BY <2>2
  <2>4. \A y : y \in QueueRows <=> \E k \in Imports : y \in {k} \X DOMAIN rows[k] BY DEF QueueRows
  <2>5. \A y : y \in {i} \X DOMAIN rows'[i] <=> y \in {i} \X DOMAIN rows[i] \/ y = x
    BY <2>1
  <2> HIDE DEF x
  <2>6. \A y : y \in QueueRows' <=> y \in QueueRows \/ y = x
    BY <1>5, <2>3, <2>4, <2>5
  <2> QED BY <2>6
<1>8. Cardinality(QueueRows \cup {x}) = Cardinality(QueueRows) + 1
  <2> HIDE DEF x
  <2> QED BY <1>1, <1>6, FS_AddElement
<1> QED BY <1>1, <1>7, <1>8 DEF Total

(* All rows of an import less.                                              *)
LEMMA RowsLess ==
    ASSUME TableInv, NEW i \in Imports, rows' = [rows EXCEPT ![i] = <<>>]
    PROVE  /\ Total' = Total - Len(rows[i]) /\ Total \in Nat /\ Len(rows[i]) \in Nat
           /\ Total' \in Nat
<1>1. IsFiniteSet(QueueRows) /\ Total \in Nat BY TablesAre, FiniteQueue
<1>2. rows[i] \in Seq(Row) /\ DOMAIN rows = Imports BY TablesAre DEF TableInv
<1>3. DOMAIN rows[i] = 1..Len(rows[i]) /\ Len(rows[i]) \in Nat BY <1>2, LenProperties
<1> DEFINE S == {i} \X DOMAIN rows[i]
<1>4. IsFiniteSet(S) /\ Cardinality(S) = Len(rows[i])
  <2>1. IsFiniteSet(DOMAIN rows[i]) /\ Cardinality(DOMAIN rows[i]) = Len(rows[i])
    BY <1>3, FS_Interval
  <2>2. IsFiniteSet({i}) /\ Cardinality({i}) = 1 BY FS_Singleton
  <2>3. IsFiniteSet(S) /\ Cardinality(S) = 1 * Len(rows[i]) BY ZenonT(30), <2>1, <2>2, FS_Product
  <2> QED BY <1>3, <2>3
<1>5. \A k \in Imports \ {i} : rows'[k] = rows[k] BY <1>2
<1>6. DOMAIN rows'[i] = {} BY <1>2, EmptySeq
<1>7. QueueRows' = QueueRows \ S
  <2>1. QueueRows' = UNION {{k} \X DOMAIN rows'[k] : k \in Imports} BY DEF QueueRows
  <2>2. \A y : y \in QueueRows' <=> \E k \in Imports : y \in {k} \X DOMAIN rows'[k] BY <2>1
  <2>3. \A y : y \in QueueRows <=> \E k \in Imports : y \in {k} \X DOMAIN rows[k] BY DEF QueueRows
  <2>4. \A y : y \notin {i} \X DOMAIN rows'[i] BY <1>6
  <2>5. \A y : \A k \in Imports \ {i} : y \in {k} \X DOMAIN rows[k] => y \notin S OBVIOUS
  <2>6. \A y : y \in QueueRows' <=> y \in QueueRows /\ y \notin S
    BY <1>5, <2>2, <2>3, <2>4, <2>5
  <2> QED BY <2>6
<1>8. QueueRows \cap S = S BY DEF QueueRows
<1>9. Cardinality(QueueRows \ S) = Cardinality(QueueRows) - Cardinality(S) /\ IsFiniteSet(QueueRows \ S)
  <2> HIDE DEF S
  <2> QED BY <1>1, <1>8, FS_Difference
<1> QED BY <1>1, <1>3, <1>4, <1>7, <1>9, FS_CardinalityType DEF Total

-----------------------------------------------------------------------------
(* Steps that account for nothing                                           *)

Calm(r) == DOMAIN r = Fields /\ r.step \notin Booking

(* What the answers of a worker lead to is not accounting.                  *)
LEMMA CalmAnswers ==
    ASSUME NEW r, DOMAIN r = Fields
    PROVE  /\ Calm(NextPage(r)) /\ \A paused : Calm(Conclude(r, paused))
           /\ Calm(Proceed(r)) /\ Calm(Marked(r)) /\ Calm(Taken(r))
           /\ \A cleanup : Calm(ToPartial(r, cleanup))
           /\ \A step : step \notin Booking => Calm([r EXCEPT !.step = step])
           /\ Calm(Idle)
<1>1. \A q : DOMAIN q = Fields => Calm(NextPage(q))
  BY DEF NextPage, Calm, Fields, Booking
<1>2. \A paused : Calm(Conclude(r, paused))
  <2> DEFINE kept == [r EXCEPT !.buffer = IF FirstVisit(r) THEN @ \cup {r.queue[r.at]} ELSE @]
             ended == [kept EXCEPT !.completed = Append(@, r.queue[r.at])]
  <2>1. DOMAIN kept = Fields /\ DOMAIN ended = Fields BY DEF Fields
  <2>2. Calm(NextPage(ended))
    <3> HIDE DEF ended
    <3> QED BY <1>1, <2>1
  <2>3. Calm([kept EXCEPT !.step = "advance"])
    <3> HIDE DEF kept
    <3> QED BY <2>1 DEF Calm, Fields, Booking
  <2> QED BY <2>2, <2>3 DEF Conclude
<1>3. \A step : step \notin Booking => Calm([r EXCEPT !.step = step])
  BY DEF Calm, Fields
<1>4. Calm(Proceed(r)) BY <1>2, <1>3 DEF Proceed, Booking
<1>5. Calm(Marked(r)) BY <1>3 DEF Marked, Booking
<1>6. Calm(Taken(r)) BY DEF Taken, Calm, Fields, Booking
<1>7. \A cleanup : Calm(ToPartial(r, cleanup)) BY DEF ToPartial, Calm, Fields, Booking
<1>8. Calm(Idle) BY IdleShape DEF Calm, Booking
<1> QED BY <1>1, <1>2, <1>3, <1>4, <1>5, <1>6, <1>7, <1>8

(* Nor is what a handler answers, or a cancellation of it.                  *)
LEMMA CalmHandlers ==
    ASSUME NEW w, DOMAIN job[w] = Fields
    PROVE  /\ Calm(Refused(w)) /\ Calm(Paused(w)) /\ Calm(Known(w)) /\ Calm(Prepared(w))
           /\ \A step : step \notin Booking => Calm(To(w, step))
<1>1. Calm(Refused(w)) BY DEF Refused, To, Calm, Fields, Booking
<1>2. Calm(Paused(w)) BY <1>1, CalmAnswers DEF Paused
<1>3. \A step : step \notin Booking => Calm(To(w, step)) BY DEF Calm, Fields, To
<1>4. Calm(Known(w))
  <2> DEFINE r == [job[w] EXCEPT !.cursor = @ + 1]
  <2>1. DOMAIN r = Fields BY DEF Fields
  <2>2. Calm(Proceed(r))
    <3> HIDE DEF r
    <3> QED BY <2>1, CalmAnswers
  <2> QED BY <1>3, <2>2 DEF Known, Booking
<1>5. Calm(Prepared(w)) BY <1>3, CalmAnswers DEF Prepared, Booking
<1> QED BY <1>1, <1>2, <1>3, <1>4, <1>5

(* Nor is either end of an access to one of those.                          *)
LEMMA CalmEither ==
    ASSUME NEW w, NEW then, NEW otherwise, Either(w, then, otherwise), Calm(then), Calm(otherwise)
    PROVE  \E next : job' = [job EXCEPT ![w] = next] /\ Calm(next)
<1>1. Calm([otherwise EXCEPT !.cancelled = TRUE]) BY DEF Calm, Fields
<1>2. Calm(Idle) BY IdleShape DEF Calm, Booking
<1> QED BY <1>1, <1>2 DEF Either

(* No queue changed its length and nothing was accounted: what the worker   *)
(* relies on from now on is all there is to see to.                         *)
LEMMA StillStep ==
    ASSUME IInv, TableInv, TableInv', QuotaInv, UNCHANGED setup, UNCHANGED reserved,
           disturbed => disturbed', \A i \in Imports : DOMAIN rows'[i] = DOMAIN rows[i],
           NEW w \in Workers, NEW next, job' = [job EXCEPT ![w] = next],
           ~disturbed => Booked(w, next, Len(rows'[next.import]), Total, reserved)
    PROVE  QuotaInv'
<1>1. Total' = Total BY SameRows
<1>2. \A v \in Workers : job'[v] = IF v = w THEN next ELSE job[v] BY DEF IInv, Shape
<1>3. ASSUME ~disturbed', NEW v \in Workers
      PROVE  Booked(v, job'[v], Len(rows'[job'[v].import]), Total, reserved)
  <2>1. CASE v = w BY <1>2, <1>3, <2>1
  <2>2. CASE v # w
    <3>1. Booked(v, job[v], Len(rows[job[v].import]), Total, reserved) /\ job'[v] = job[v]
      BY <1>2, <1>3, <2>2 DEF QuotaInv
    <3>2. job[v].step = "delete_pages" => job[v].import \in Imports
      BY DEF IInv, Shape, Settling
    <3>3. \A i \in Imports : Len(rows'[i]) = Len(rows[i]) BY SameLengths
    <3> QED BY <3>1, <3>2, <3>3 DEF Booked
  <2> QED BY <2>1, <2>2
<1>4. Budget' = Budget BY DEF Budget
<1>5. ~disturbed' => /\ Total' <= reserved' /\ reserved' <= Budget'
                     /\ \A v \in Workers : Booked(v, job'[v], Len(rows'[job'[v].import]), Total', reserved')
  BY <1>1, <1>3, <1>4 DEF QuotaInv
<1> QED BY <1>5 DEF QuotaInv

(* So it is when the worker turns to something that accounts for nothing.   *)
LEMMA CalmStep ==
    ASSUME IInv, TableInv, TableInv', QuotaInv, UNCHANGED setup, UNCHANGED reserved,
           disturbed => disturbed', \A i \in Imports : DOMAIN rows'[i] = DOMAIN rows[i],
           NEW w \in Workers, \E next : job' = [job EXCEPT ![w] = next] /\ Calm(next)
    PROVE  QuotaInv'
<1>1. PICK next : job' = [job EXCEPT ![w] = next] /\ Calm(next) OBVIOUS
<1>2. Booked(w, next, Len(rows'[next.import]), Total, reserved)
  BY <1>1 DEF Calm, Booking, Booked
<1> QED BY <1>1, <1>2, StillStep

(* A worker accounts for rows: whoever else relies on the account is        *)
(* disturbed, unless nothing changed after all.                             *)
LEMMA AccountStep ==
    ASSUME IInv, QuotaInv, UNCHANGED setup, disturbed' = (disturbed \/ Disturbs),
           NEW w \in Workers, NEW next, job' = [job EXCEPT ![w] = next],
           ~disturbed' => /\ Total' <= reserved' /\ reserved' <= Budget
                          /\ Booked(w, next, Len(rows'[next.import]), Total', reserved'),
           \A i \in Imports : Total' = Total => Len(rows'[i]) = Len(rows[i])
    PROVE  QuotaInv'
<1>1. \A v \in Workers : job'[v] = IF v = w THEN next ELSE job[v] BY DEF IInv, Shape
<1>2. ASSUME ~disturbed', NEW v \in Workers
      PROVE  Booked(v, job'[v], Len(rows'[job'[v].import]), Total', reserved')
  <2>1. CASE v = w BY <1>1, <1>2, <2>1
  <2>2. CASE v # w
    <3>1. ~disturbed /\ ~Disturbs BY <1>2
    <3>2. Booked(v, job[v], Len(rows[job[v].import]), Total, reserved) /\ job'[v] = job[v]
      BY <1>1, <2>2, <3>1 DEF QuotaInv
    <3>3. job[v].step = "delete_pages" => job[v].import \in Imports
      BY DEF IInv, Shape, Settling
    <3>4. job[v].step \in Booking => reserved' = reserved /\ Total' = Total
      BY <3>1, <3>2 DEF Disturbs, Accounting, Booking
    <3>5. CASE job[v].step \in Booking BY <3>2, <3>3, <3>4, <3>5 DEF Booked
    <3>6. CASE job[v].step \notin Booking BY <3>2, <3>6 DEF Booked, Booking
    <3> QED BY <3>5, <3>6
  <2> QED BY <2>1, <2>2
<1>3. Budget' = Budget BY DEF Budget
<1>4. ~disturbed' => /\ Total' <= reserved' /\ reserved' <= Budget'
                     /\ \A v \in Workers : Booked(v, job'[v], Len(rows'[job'[v].import]), Total', reserved')
  BY <1>2, <1>3
<1> QED BY <1>4 DEF QuotaInv

-----------------------------------------------------------------------------
(* The steps of importing, one by one *)

(* A call that looks for its run, claims or creates one.                    *)
LEMMA CalmOpening ==
    ASSUME IInv, NEW w \in Workers, Opening(w)
    PROVE  /\ \E next : job' = [job EXCEPT ![w] = next] /\ Calm(next)
           /\ UNCHANGED setup /\ UNCHANGED <<rows, reserved>> /\ (disturbed => disturbed')
<1> DEFINE r == job[w]
           claim(i) == [To(w, "claim") EXCEPT !.import = i]
           exists(i) == [To(w, "exists") EXCEPT !.import = i]
           listed == [To(w, "discard") EXCEPT
                         !.targets = {<<i, run[i].state>> : i \in {k \in Imports : run[k].state \in Listed(w)}}]
           rest(e) == [r EXCEPT !.targets = @ \ {e}]
           clean(e) == [rest(e) EXCEPT !.step = "measure", !.import = e[1], !.then = "discard"]
<1>1. DOMAIN r = Fields BY DEF IInv, Shape
<1>2. /\ \A step : step \notin Booking => Calm(To(w, step))
      /\ Calm(Idle)
  BY <1>1, CalmHandlers, CalmAnswers
<1>3. \A i : Calm(claim(i)) /\ Calm(exists(i)) BY <1>1 DEF To, Calm, Fields, Booking
<1>4. Calm(listed) BY <1>1 DEF To, Calm, Fields, Booking
<1>5. \A e : Calm(clean(e)) /\ DOMAIN rest(e) = Fields /\ rest(e).step = r.step
  BY <1>1 DEF Calm, Fields, Booking
<1>6. /\ UNCHANGED setup /\ UNCHANGED <<rows, reserved>> /\ (disturbed => disturbed')
  BY DEF Opening, Find, Lookup, ClaimRun, ListDiscarded, Discard, Create, Access, Read, SetRun,
         tables, Frame
<1>7. CASE Find(w)
  <2>1. \/ Either(w, To(w, "list"), Idle) \/ \E i \in Imports : Either(w, claim(i), Idle)
    BY <1>7 DEF Find, Access, Become, Cancellable, Either
  <2> HIDE DEF claim
  <2> QED BY <1>2, <1>3, <1>6, <2>1, CalmEither DEF Booking
<1>8. CASE Lookup(w)
  <2>1. \/ Either(w, To(w, "claim"), Idle) \/ Either(w, Idle, Idle)
    BY <1>8 DEF Lookup, Access, Become, Cancellable, Either
  <2> QED BY <1>2, <1>6, <2>1, CalmEither DEF Booking
<1>9. CASE ClaimRun(w)
  <2>1. \/ Either(w, To(w, "select"), Idle) \/ Either(w, Idle, Idle)
    BY <1>9 DEF ClaimRun, Access, Become, Cancellable, Either
  <2> QED BY <1>2, <1>6, <2>1, CalmEither DEF Booking
<1>10. CASE ListDiscarded(w)
  <2>1. Either(w, listed, Idle)
    BY <1>10 DEF ListDiscarded, Access, Become, Cancellable, Either
  <2> HIDE DEF listed
  <2> QED BY <1>2, <1>4, <1>6, <2>1, CalmEither
<1>11. CASE Discard(w)
  <2>1. r.step = "discard" BY <1>11 DEF Discard, At
  <2>2. \E e : Either(w, clean(e), Idle) \/ Either(w, rest(e), Idle)
    BY <1>11 DEF Discard, Access, Become, Cancellable, Either
  <2>3. \A e : Calm(rest(e)) BY <1>5, <2>1 DEF Calm, Booking
  <2> HIDE DEF clean, rest
  <2> QED BY <1>2, <1>5, <1>6, <2>2, <2>3, CalmEither
<1>12. CASE Create(w)
  <2>1. \E i \in Imports : Either(w, exists(i), Idle)
    BY <1>12 DEF Create, Access, Become, Cancellable, Either
  <2> HIDE DEF exists
  <2> QED BY <1>2, <1>3, <1>6, <2>1, CalmEither
<1> QED BY <1>7, <1>8, <1>9, <1>10, <1>11, <1>12 DEF Opening

(* The work on a page: its links are looked up and adopted.                 *)
LEMMA CalmLinks ==
    ASSUME IInv, TableInv, NEW w \in Workers, CheckDuplicate(w) \/ Adopt(w)
    PROVE  /\ \E next : job' = [job EXCEPT ![w] = next] /\ Calm(next)
           /\ UNCHANGED setup /\ UNCHANGED reserved /\ (disturbed => disturbed')
           /\ \A i \in Imports : DOMAIN rows'[i] = DOMAIN rows[i]
<1> DEFINE r == job[w]
           more == [r EXCEPT !.queue = Append(@, Target(w)), !.cursor = @ + 1]
<1>1. DOMAIN r = Fields /\ DOMAIN rows = Imports BY DEF IInv, Shape, TableInv
<1>2. /\ UNCHANGED setup /\ UNCHANGED reserved /\ (disturbed => disturbed')
  BY DEF CheckDuplicate, Adopt, Access, Read, SetRow, tables, Frame
<1>3. \A i \in Imports : DOMAIN rows'[i] = DOMAIN rows[i]
  BY <1>1 DEF CheckDuplicate, Adopt, Access, Read, SetRow, tables
<1>4. CASE CheckDuplicate(w)
  <2>1. Either(w, IF Target(w) \in Queued(r.import) THEN Known(w) ELSE To(w, "reserve"), Refused(w))
    BY <1>4 DEF CheckDuplicate, Access, Become, Cancellable, Either
  <2>2. Calm(Known(w)) /\ Calm(To(w, "reserve")) /\ Calm(Refused(w))
    BY <1>1, CalmHandlers DEF Booking
  <2> QED BY <1>2, <1>3, <2>1, <2>2, CalmEither
<1>5. CASE Adopt(w)
  <2>1. Either(w, Proceed(more), Refused(w))
    BY <1>5 DEF Adopt, Access, Become, Cancellable, Either
  <2>2. DOMAIN more = Fields BY <1>1 DEF Fields
  <2>3. Calm(Refused(w)) BY <1>1, CalmHandlers
  <2>4. Calm(Proceed(more))
    <3> HIDE DEF more
    <3> QED BY <2>2, CalmAnswers
  <2> HIDE DEF more
  <2> QED BY <1>2, <1>3, <2>1, <2>3, <2>4, CalmEither
<1> QED BY <1>4, <1>5

(* A batch: claimed, visited and released.                                  *)
LEMMA CalmPreparing ==
    ASSUME IInv, TableInv, NEW w \in Workers, Preparing(w)
    PROVE  /\ \E next : job' = [job EXCEPT ![w] = next] /\ Calm(next)
           /\ UNCHANGED setup /\ UNCHANGED reserved /\ (disturbed => disturbed')
           /\ \A i \in Imports : DOMAIN rows'[i] = DOMAIN rows[i]
<1> DEFINE r == job[w]
           Batched(queue) == [r EXCEPT !.at = 1, !.queue = queue]
           next == [r EXCEPT !.at = @ + 1]
           without == [r EXCEPT !.queue = Remove(@, Page(w))]
           visiting == [r EXCEPT !.misses = 0, !.cursor = CursorOf(r.import, Page(w))]
           leaving == [To(w, "release") EXCEPT !.error = FALSE]
           missing == [To(w, "give_up") EXCEPT !.misses = @ + 1]
<1>1. DOMAIN r = Fields /\ DOMAIN rows = Imports BY DEF IInv, Shape, TableInv
<1>2. /\ \A queue : DOMAIN Batched(queue) = Fields
      /\ DOMAIN next = Fields /\ DOMAIN without = Fields /\ DOMAIN visiting = Fields
      /\ Calm(leaving) /\ Calm(missing)
  BY <1>1 DEF Fields, To, Calm, Booking
<1>3. /\ \A queue : Calm(Taken(Batched(queue)))
      /\ Calm(Taken(next)) /\ Calm(Taken(without)) /\ Calm(Proceed(visiting))
      /\ Calm(NextPage(r)) /\ Calm(Prepared(w)) /\ Calm(ToPartial(r, TRUE))
  <2> HIDE DEF Batched, next, without, visiting, r
  <2>1. \A x : DOMAIN x = Fields => Calm(Taken(x)) /\ Calm(Proceed(x)) BY CalmAnswers
  <2>2. Calm(NextPage(r)) /\ Calm(Prepared(w)) /\ Calm(ToPartial(r, TRUE))
    BY <1>1, CalmAnswers, CalmHandlers DEF r
  <2> QED BY <1>2, <2>1, <2>2
<1>4. /\ UNCHANGED setup /\ UNCHANGED reserved /\ (disturbed => disturbed')
  BY DEF Preparing, Select, Take, Visit, GiveUp, Advance, Release, Access, SetRows, SetRow, Read,
         tables, Frame
<1>5. \A i \in Imports : DOMAIN rows'[i] = DOMAIN rows[i]
  <2>1. CASE Release(w)
    BY <1>1, <2>1 DEF Release, Access, SetRows, tables, Released
  <2>2. CASE GiveUp(w)
    BY <1>1, <2>2 DEF GiveUp, Access, tables
  <2>3. CASE Select(w) \/ Visit(w)
    BY <2>3 DEF Select, Visit, Access, Read, tables
  <2>4. CASE Take(w)
    BY <1>1, <2>4 DEF Take, Access, Read, SetRow, tables
  <2>5. CASE Advance(w)
    BY <1>1, <2>5 DEF Advance, Access, SetRow, tables
  <2> QED BY <2>1, <2>2, <2>3, <2>4, <2>5 DEF Preparing
<1>6. PICK then, otherwise : Either(w, then, otherwise) /\ Calm(then) /\ Calm(otherwise)
  <2>1. CASE Select(w)
    <3>1. PICK queue : Either(w, Taken(Batched(queue)), ToPartial(r, TRUE))
      BY <2>1 DEF Select, Access, Become, Cancellable, Either
    <3> QED BY <3>1, <1>3
  <2>2. CASE Take(w)
    <3>1. \/ Either(w, Taken(next), ToPartial(r, TRUE))
          \/ Either(w, Taken(without), ToPartial(r, TRUE))
      BY <2>2 DEF Take, Access, Become, Cancellable, Either
    <3> QED BY <3>1, <1>3
  <2>3. CASE Visit(w)
    <3>1. \/ Either(w, leaving, leaving) \/ Either(w, Proceed(visiting), Proceed(visiting))
          \/ Either(w, missing, missing)
      BY <2>3 DEF Visit, Become, Either
    <3> QED BY <3>1, <1>2, <1>3
  <2>4. CASE GiveUp(w) \/ Advance(w)
    <3>1. Either(w, NextPage(r), NextPage(r))
      BY <2>4 DEF GiveUp, Advance, Access, Become, Cancellable, Either
    <3> QED BY <3>1, <1>3
  <2>5. CASE Release(w)
    <3>1. Either(w, Prepared(w), Prepared(w))
      BY <2>5 DEF Release, Access, Become, Cancellable, Either
    <3> QED BY <3>1, <1>3
  <2> QED BY <2>1, <2>2, <2>3, <2>4, <2>5 DEF Preparing
<1> QED BY <1>4, <1>5, <1>6, CalmEither

(* The end of a batch: what was collected is stored, the run left or        *)
(* finished.                                                                *)
LEMMA CalmWriting ==
    ASSUME IInv, TableInv, NEW w \in Workers,
           \/ ReadServicePages(w) \/ Persist(w) \/ Mark(w) \/ ReadStats(w)
           \/ DetectTemplates(w) \/ Preserve(w) \/ SetPartial(w)
    PROVE  /\ \E next : job' = [job EXCEPT ![w] = next] /\ Calm(next)
           /\ UNCHANGED setup /\ UNCHANGED reserved /\ (disturbed => disturbed')
           /\ \A i \in Imports : DOMAIN rows'[i] = DOMAIN rows[i]
<1> DEFINE r == job[w]
           start == [r EXCEPT !.at = 1]
           next == [r EXCEPT !.at = @ + 1]
           known == [r EXCEPT !.now = Progress(r.import), !.then = "rebuild", !.cleanup = FALSE]
           AsKnown(step) == [known EXCEPT !.step = step]
           adding == [To(w, "add_up") EXCEPT !.again = FALSE]
<1>1. DOMAIN r = Fields /\ DOMAIN rows = Imports BY DEF IInv, Shape, TableInv
<1>2. DOMAIN start = Fields /\ DOMAIN next = Fields /\ DOMAIN known = Fields
  BY <1>1 DEF Fields
<1>3. Calm(adding) BY <1>1 DEF Fields, To, Calm, Booking
<1>4. /\ Calm(Marked(start)) /\ Calm(Marked(next))
      /\ \A step : step \notin Booking => Calm(AsKnown(step)) /\ Calm(To(w, step))
      /\ Calm(ToPartial(r, TRUE)) /\ Calm(ToPartial(r, FALSE)) /\ Calm(Idle)
  <2> HIDE DEF start, next, known, r
  <2>1. \A x : DOMAIN x = Fields =>
            Calm(Marked(x)) /\ \A step : step \notin Booking => Calm([x EXCEPT !.step = step])
    BY CalmAnswers
  <2>2. /\ \A step : step \notin Booking => Calm(To(w, step))
        /\ Calm(ToPartial(r, TRUE)) /\ Calm(ToPartial(r, FALSE)) /\ Calm(Idle)
    BY <1>1, CalmAnswers, CalmHandlers DEF r
  <2> QED BY <1>2, <2>1, <2>2
<1>5. /\ UNCHANGED setup /\ UNCHANGED reserved /\ (disturbed => disturbed')
  BY DEF ReadServicePages, Persist, Mark, ReadStats, DetectTemplates, Preserve, SetPartial, Access,
         SetRun, SetRow, Read, tables, Frame
<1>6. \A i \in Imports : DOMAIN rows'[i] = DOMAIN rows[i]
  BY <1>1 DEF ReadServicePages, Persist, Mark, ReadStats, DetectTemplates, Preserve, SetPartial,
              Access, SetRun, SetRow, Read, tables
<1>7. PICK then, otherwise : Either(w, then, otherwise) /\ Calm(then) /\ Calm(otherwise)
  <2>1. CASE ReadServicePages(w)
    <3>1. Either(w, To(w, "persist"), Idle)
      BY <2>1 DEF ReadServicePages, Access, Become, Cancellable, Either
    <3> QED BY <3>1, <1>4 DEF Booking
  <2>2. CASE Persist(w)
    <3>1. Either(w, Marked(start), ToPartial(r, FALSE))
      BY <2>2 DEF Persist, Access, Become, Cancellable, Either
    <3> QED BY <3>1, <1>4
  <2>3. CASE Mark(w)
    <3>1. Either(w, Marked(next), ToPartial(r, FALSE))
      BY <2>3 DEF Mark, Access, Become, Cancellable, Either
    <3> QED BY <3>1, <1>4
  <2>4. CASE ReadStats(w)
    <3>1. PICK step \in {"partial", "measure", "detect", "stats"} :
              Either(w, AsKnown(step), ToPartial(r, FALSE))
      BY <2>4 DEF ReadStats, Access, Become, Cancellable, Either
    <3> QED BY <3>1, <1>4 DEF Booking
  <2>5. CASE DetectTemplates(w)
    <3>1. \/ Either(w, To(w, "measure"), ToPartial(r, TRUE))
          \/ Either(w, To(w, "measure"), To(w, "preserve"))
      BY <2>5 DEF DetectTemplates, Access, Become, Cancellable, Either
    <3> QED BY <3>1, <1>4 DEF Booking
  <2>6. CASE Preserve(w)
    <3>1. Either(w, ToPartial(r, TRUE), ToPartial(r, TRUE))
      BY <2>6 DEF Preserve, Access, Become, Cancellable, Either
    <3> QED BY <3>1, <1>4
  <2>7. CASE SetPartial(w)
    <3>1. Either(w, Idle, Idle) \/ Either(w, adding, adding)
      BY <2>7 DEF SetPartial, Access, Become, Cancellable, Either
    <3> QED BY <3>1, <1>3, <1>4
  <2> QED BY <2>1, <2>2, <2>3, <2>4, <2>5, <2>6, <2>7
<1> QED BY <1>5, <1>6, <1>7, CalmEither

-----------------------------------------------------------------------------
(* The steps that account for rows                                          *)

(* What they all rest on.                                                   *)
LEMMA Numbers ==
    ASSUME IInv, TableInv, reserved \in Nat
    PROVE  /\ Total \in Nat /\ Budget \in Nat /\ DOMAIN rows = Imports
           /\ \A w \in Workers : DOMAIN job[w] = Fields
           /\ \A i \in Imports : Len(rows[i]) \in Nat
<1>1. \A i \in Imports : Len(rows[i]) \in Nat BY TablesAre, LenProperties
<1>2. Budget \in Nat BY FrontierAssumption DEF TableInv, Budget
<1> QED BY <1>1, <1>2, TablesAre, FiniteQueue DEF IInv, Shape, TableInv

(* A row is accounted for before it is stored.                              *)
LEMMA ReserveBooked ==
    ASSUME IInv, TableInv, TableInv', reserved \in Nat, QuotaInv, NEW w \in Workers, Reserve(w)
    PROVE  QuotaInv'
<1> DEFINE r == job[w]
<1>1. /\ DOMAIN r = Fields /\ Total \in Nat /\ Budget \in Nat BY Numbers
<1>2. UNCHANGED setup /\ UNCHANGED rows /\ disturbed' = (disturbed \/ Disturbs)
  BY DEF Reserve, Access, SetReserved, Read, tables, Frame
<1>3. Calm(Paused(w)) /\ Calm(Refused(w)) BY <1>1, CalmHandlers
<1>4. CASE ~HasRoom \/ UNCHANGED reserved
  <2>1. Either(w, Paused(w), Refused(w)) \/ Either(w, Refused(w), Refused(w))
        \/ (HasRoom /\ reserved' = reserved + 1)
    BY DEF Reserve, Access, Become, Cancellable, Either, SetReserved
  <2>2. UNCHANGED reserved BY <1>4 DEF Reserve, Access, Read, tables
  <2>3. Either(w, Paused(w), Refused(w)) \/ Either(w, Refused(w), Refused(w))
    BY <1>4, <2>1, <2>2
  <2>4. \A i \in Imports : DOMAIN rows'[i] = DOMAIN rows[i] BY <1>2
  <2> QED BY <1>2, <1>3, <2>2, <2>3, <2>4, CalmEither, CalmStep
<1>5. CASE HasRoom /\ reserved' # reserved
  <2>1. /\ reserved' = reserved + 1 /\ reserved < Budget
        /\ \/ job' = [job EXCEPT ![w] = To(w, "insert")]
           \/ job' = [job EXCEPT ![w] = Idle]
           \/ job' = [job EXCEPT ![w] = [Refused(w) EXCEPT !.cancelled = TRUE]]
    BY <1>5 DEF Reserve, Access, Become, SetReserved, HasRoom, tables
  <2>2. PICK next : /\ job' = [job EXCEPT ![w] = next]
                    /\ next.step = "insert" \/ Calm(next)
    <3>1. To(w, "insert").step = "insert" BY <1>1 DEF To, Fields
    <3>2. Calm([Refused(w) EXCEPT !.cancelled = TRUE]) BY <1>3 DEF Calm, Fields
    <3>3. Calm(Idle) BY <1>1, CalmAnswers
    <3> QED BY <2>1, <3>1, <3>2, <3>3
  <2>3. Total' = Total BY <1>2, SameRows
  <2>4. ~disturbed' => /\ Total' <= reserved' /\ reserved' <= Budget
                       /\ Booked(w, next, Len(rows'[next.import]), Total', reserved')
    <3>1. ~disturbed' => Total <= reserved BY <1>2 DEF QuotaInv
    <3> QED BY <1>1, <2>1, <2>2, <2>3, <3>1 DEF Booked, Calm, Booking
  <2> QED BY <1>2, <2>2, <2>4, AccountStep
<1> QED BY <1>4, <1>5

(* The row is stored, or gives its reservation back.                        *)
LEMMA InsertBooked ==
    ASSUME IInv, TableInv, TableInv', reserved \in Nat, QuotaInv, NEW w \in Workers, Insert(w)
    PROVE  QuotaInv'
<1> DEFINE r == job[w]
           i == r.import
           e == Entry(Target(w))
           kept == [To(w, "adopt") EXCEPT !.found = @ + 1]
           further == [r EXCEPT !.found = @ + 1, !.cursor = @ + 1]
           then == IF AddsRoot(w) THEN To(w, "select")
                   ELSE IF Len(r.queue) < Batch THEN kept ELSE Proceed(further)
           failed == To(w, "refund")
           late == [failed EXCEPT !.cancelled = TRUE]
<1>1. At(w, r.step) /\ r.step = "insert" /\ UNCHANGED setup /\ disturbed' = (disturbed \/ Disturbs)
      /\ UNCHANGED reserved
  BY DEF Insert, At, Frame, Access, SetRows, tables
<1>2. /\ w \in Jobs /\ i \in Imports /\ DOMAIN r = Fields
      /\ Linked(Links) /\ Table(rows[i], fate[i], Links) /\ Works(r, rows[i], fate[i], Links)
      /\ Root \in [Sources -> Pages] /\ r.source \in Sources
  BY <1>1, Owned DEF Owning
<1>3. /\ Total \in Nat /\ Budget \in Nat BY Numbers
<1>4. e \in Row
  <2>1. Target(w) \in Pages
    <3>1. CASE r.queue = <<>> BY <1>2, <3>1 DEF Target, AddsRoot
    <3>2. CASE r.queue # <<>>
      <4>1. /\ r.cursor \in Nat /\ r.cursor < Len(Links[r.queue[r.at]]) /\ r.queue[r.at] \in Pages
        BY <1>1, <1>2, <3>2, AtPage DEF Linking
      <4>2. Links[r.queue[r.at]] \in Seq(Pages) BY <1>2, <4>1 DEF Linked
      <4>3. Links[r.queue[r.at]][r.cursor + 1] \in Pages
        BY <4>1, <4>2, ElementOfSeq, LenProperties
      <4> QED BY <3>2, <4>3 DEF Target, AddsRoot, Page
    <3> QED BY <3>1, <3>2
  <2> QED BY <2>1 DEF Entry, Row, States
<1>5. Calm(then)
  <2>1. DOMAIN further = Fields /\ Calm(kept) BY <1>2 DEF Fields, To, Calm, Booking
  <2>2. Calm(To(w, "select")) BY <1>2, CalmHandlers DEF Booking
  <2> HIDE DEF further, kept
  <2>3. Calm(Proceed(further)) BY <2>1, CalmAnswers
  <2> QED BY <2>1, <2>2, <2>3
<1>6. /\ failed.step = "refund" /\ late.step = "refund" /\ late.cancelled
      /\ late.queue = r.queue /\ late.kind = r.kind
  BY <1>2 DEF To, Fields
<1>7. ~disturbed => Total < reserved /\ reserved <= Budget
  BY <1>1 DEF QuotaInv, Booked
<1>8. \/ /\ rows' = [rows EXCEPT ![i] = Append(@, e)] /\ job' = [job EXCEPT ![w] = then]
      \/ UNCHANGED rows /\ job' = [job EXCEPT ![w] = failed]
      \/ /\ rows' = [rows EXCEPT ![i] = Append(@, e)] /\ Cancellable(w, Context(w))
         /\ job' = [job EXCEPT ![w] = Idle] \/ job' = [job EXCEPT ![w] = late]
  <2>1. \/ /\ rows' = [rows EXCEPT ![i] = Append(@, e)] /\ job' = [job EXCEPT ![w] = then]
        \/ UNCHANGED rows /\ job' = [job EXCEPT ![w] = failed]
        \/ /\ rows' = [rows EXCEPT ![i] = Append(@, e)] /\ Cancellable(w, Context(w))
           /\ job' = [job EXCEPT ![w] = IF failed = Idle THEN Idle ELSE late]
    BY DEF Insert, Access, Become, SetRows, tables
  <2> HIDE DEF then, failed, late
  <2> QED BY <2>1
<1> HIDE DEF then, failed, late, e
<1>9. CASE UNCHANGED rows /\ job' = [job EXCEPT ![w] = failed]
  <2>1. \A k \in Imports : DOMAIN rows'[k] = DOMAIN rows[k] BY <1>9
  <2>2. ~disturbed => Booked(w, failed, Len(rows'[failed.import]), Total, reserved)
    BY <1>6, <1>7 DEF Booked
  <2>3. disturbed => disturbed' BY <1>1
  <2> QED BY <1>1, <1>9, <2>1, <2>2, <2>3, StillStep
<1>10. CASE rows' = [rows EXCEPT ![i] = Append(@, e)]
  <2>1. Total' = Total + 1 /\ Total \in Nat BY <1>2, <1>4, <1>10, OneMoreRow
  <2>2. PICK next : /\ job' = [job EXCEPT ![w] = next]
                    /\ Calm(next) \/ (next.step = "refund" /\ Ceded(w, next))
    <3>1. CASE job' = [job EXCEPT ![w] = then] BY <1>5, <3>1
    <3>2. CASE job' = [job EXCEPT ![w] = Idle] BY <1>2, <3>2, CalmAnswers
    <3>3. CASE Cancellable(w, Context(w)) /\ job' = [job EXCEPT ![w] = late]
      <4>1. Ceded(w, late) BY <1>2, <1>6, <3>3 DEF Ceded, Cancellable, Context, AddsRoot
      <4> QED BY <1>6, <3>3, <4>1
    <3>4. CASE UNCHANGED rows /\ job' = [job EXCEPT ![w] = failed]
      <4>1. Total' = Total BY <3>4, SameRows
      <4> QED BY <2>1, <4>1
    <3> QED BY <1>8, <3>1, <3>2, <3>3, <3>4
  <2>3. ~disturbed' => /\ Total' <= reserved' /\ reserved' <= Budget
                       /\ Booked(w, next, Len(rows'[next.import]), Total', reserved')
    <3>1. ~disturbed' => Total < reserved /\ reserved <= Budget BY <1>1, <1>7
    <3> QED BY <1>1, <2>1, <2>2, <3>1 DEF Booked, Calm, Booking
  <2>4. \A k \in Imports : Total' = Total => Len(rows'[k]) = Len(rows[k]) BY <2>1
  <2> QED BY <1>1, <2>2, <2>3, <2>4, AccountStep
<1> QED BY <1>8, <1>9, <1>10

(* The reservation of a row that is not there is given back.                *)
LEMMA RefundBooked ==
    ASSUME IInv, TableInv, TableInv', reserved \in Nat, QuotaInv, NEW w \in Workers, Refund(w)
    PROVE  QuotaInv'
<1> DEFINE r == job[w]
<1>1. /\ r.step = "refund" /\ UNCHANGED setup /\ UNCHANGED rows /\ disturbed' = (disturbed \/ Disturbs)
      /\ DOMAIN r = Fields /\ Total \in Nat /\ Budget \in Nat
  BY Numbers DEF Refund, At, Frame, Access, SetReserved, tables
<1>2. \E next : job' = [job EXCEPT ![w] = next] /\ Calm(next)
  <2>1. Either(w, Refused(w), Refused(w))
    BY DEF Refund, Access, Become, Cancellable, Either
  <2> QED BY <1>1, <2>1, CalmHandlers, CalmEither
<1>3. UNCHANGED reserved \/ (~Ceded(w, r) /\ reserved' = Less(1))
  BY DEF Refund, Access, Dead, Cancellable, Context, AddsRoot, Ceded, SetReserved, tables
<1>4. CASE UNCHANGED reserved
  <2>1. \A i \in Imports : DOMAIN rows'[i] = DOMAIN rows[i] BY <1>1
  <2> QED BY <1>1, <1>2, <1>4, <2>1, CalmStep
<1>5. CASE ~Ceded(w, r) /\ reserved' = Less(1)
  <2>1. PICK next : job' = [job EXCEPT ![w] = next] /\ Calm(next) BY <1>2
  <2>2. ~disturbed' => Total < reserved /\ reserved <= Budget
    BY <1>1, <1>5 DEF QuotaInv, Booked
  <2>3. Total' = Total BY <1>1, SameRows
  <2>4. ~disturbed' => /\ Total' <= reserved' /\ reserved' <= Budget
                       /\ Booked(w, next, Len(rows'[next.import]), Total', reserved')
    BY <1>1, <1>5, <2>1, <2>2, <2>3 DEF Less, Booked, Calm, Booking
  <2> QED BY <1>1, <2>1, <2>4, AccountStep
<1> QED BY <1>3, <1>4, <1>5

(* A run and its rows are removed, and their reservation is given back.     *)
LEMMA FinishingBooked ==
    ASSUME IInv, TableInv, TableInv', reserved \in Nat, QuotaInv, NEW w \in Workers, Finishing(w)
    PROVE  QuotaInv'
<1> DEFINE r == job[w]
           i == r.import
<1>1. /\ UNCHANGED setup /\ disturbed' = (disturbed \/ Disturbs) /\ DOMAIN r = Fields
      /\ i \in Imports /\ Total \in Nat /\ Budget \in Nat /\ DOMAIN rows = Imports
      /\ r.step \in Settling \cup {"give_back"}
  BY Numbers DEF Finishing, Measure, DeletePages, DeleteRun, GiveBack, At, Frame, IInv, Shape, Settling
<1>2. r.step \in Summed => r.sum \in Nat BY DEF TableInv, JobFine
<1>3. Calm(Idle) BY <1>1, CalmAnswers
<1>4. CASE Measure(w)
  <2> DEFINE measured == [To(w, "delete_pages") EXCEPT !.sum = Len(rows[i])]
  <2>1. UNCHANGED rows /\ UNCHANGED reserved BY <1>4 DEF Measure, Access, Read, tables
  <2>2. job' = [job EXCEPT ![w] = measured] \/ job' = [job EXCEPT ![w] = Idle]
    BY <1>4 DEF Measure, Access, Become
  <2>3. measured.step = "delete_pages" /\ measured.import = i /\ measured.sum = Len(rows[i])
    BY <1>1 DEF To, Fields
  <2> HIDE DEF measured
  <2>4. PICK next : /\ job' = [job EXCEPT ![w] = next]
                    /\ \/ Calm(next)
                       \/ next.step = "delete_pages" /\ next.import = i /\ next.sum = Len(rows[i])
    BY <1>3, <2>2, <2>3
  <2>5. Booked(w, next, Len(rows'[next.import]), Total, reserved)
    BY <2>1, <2>4 DEF Booked, Calm, Booking
  <2>6. \A k \in Imports : DOMAIN rows'[k] = DOMAIN rows[k] BY <2>1
  <2> QED BY <1>1, <2>1, <2>4, <2>5, <2>6, StillStep
<1>5. CASE DeletePages(w)
  <2>1. r.step = "delete_pages" /\ UNCHANGED reserved
        /\ (UNCHANGED rows \/ rows' = [rows EXCEPT ![i] = <<>>])
    BY <1>5 DEF DeletePages, Access, SetRows, tables, At
  <2>2. \/ job' = [job EXCEPT ![w] = Idle]
        \/ job' = [job EXCEPT ![w] = To(w, "delete_run")] /\ rows' = [rows EXCEPT ![i] = <<>>]
    BY <1>5 DEF DeletePages, Access, Become, SetRows
  <2>3. ~disturbed => r.sum = Len(rows[i]) /\ Total <= reserved /\ reserved <= Budget
    BY <2>1 DEF QuotaInv, Booked
  <2>4. CASE UNCHANGED rows /\ job' = [job EXCEPT ![w] = Idle]
    <3>1. \A k \in Imports : DOMAIN rows'[k] = DOMAIN rows[k] BY <2>4
    <3> QED BY <1>1, <1>3, <2>1, <2>4, <3>1, CalmStep
  <2>5. CASE rows' = [rows EXCEPT ![i] = <<>>]
    <3>1. /\ Total' = Total - Len(rows[i]) /\ Total' \in Nat /\ Len(rows[i]) \in Nat
      BY <1>1, <2>5, RowsLess
    <3>2. PICK next : /\ job' = [job EXCEPT ![w] = next]
                      /\ Calm(next) \/ (next.step = "delete_run" /\ next.sum = r.sum)
      <4>1. To(w, "delete_run").step = "delete_run" /\ To(w, "delete_run").sum = r.sum
        BY <1>1 DEF To, Fields
      <4> QED BY <1>3, <2>2, <4>1
    <3>3. ~disturbed' => /\ Total' <= reserved' /\ reserved' <= Budget
                         /\ Booked(w, next, Len(rows'[next.import]), Total', reserved')
      <4>1. ~disturbed' => r.sum = Len(rows[i]) /\ Total <= reserved /\ reserved <= Budget
        BY <1>1, <2>3
      <4>2. ~disturbed' => Total' <= reserved' /\ reserved' <= Budget /\ Total' + r.sum <= reserved'
        BY <1>1, <2>1, <3>1, <4>1
      <4> QED BY <3>2, <4>2 DEF Booked, Calm, Booking
    <3>4. \A k \in Imports : Total' = Total => Len(rows'[k]) = Len(rows[k])
      <4>1. Len(<<>>) = 0 BY EmptySeq
      <4> QED BY <1>1, <2>5, <3>1, <4>1
    <3> QED BY <1>1, <3>2, <3>3, <3>4, AccountStep
  <2> QED BY <2>1, <2>2, <2>4, <2>5
<1>6. CASE DeleteRun(w)
  <2>1. r.step = "delete_run" /\ UNCHANGED rows /\ UNCHANGED reserved
    BY <1>6 DEF DeleteRun, Access, tables, At
  <2>2. job' = [job EXCEPT ![w] = To(w, "give_back")] \/ job' = [job EXCEPT ![w] = Idle]
    BY <1>6 DEF DeleteRun, Access, Become
  <2>3. PICK next : /\ job' = [job EXCEPT ![w] = next]
                    /\ Calm(next) \/ (next.step = "give_back" /\ next.sum = r.sum)
    <3>1. To(w, "give_back").step = "give_back" /\ To(w, "give_back").sum = r.sum
      BY <1>1 DEF To, Fields
    <3> QED BY <1>3, <2>2, <3>1
  <2>4. ~disturbed => Booked(w, next, Len(rows'[next.import]), Total, reserved)
    BY <2>1, <2>3 DEF QuotaInv, Booked, Calm, Booking
  <2>5. \A k \in Imports : DOMAIN rows'[k] = DOMAIN rows[k] BY <2>1
  <2> QED BY <1>1, <2>1, <2>3, <2>4, <2>5, StillStep
<1>7. CASE GiveBack(w)
  <2>1. r.step = "give_back" /\ UNCHANGED rows /\ (UNCHANGED reserved \/ reserved' = Less(r.sum))
    BY <1>7 DEF GiveBack, Access, SetReserved, tables, At
  <2>2. PICK next : job' = [job EXCEPT ![w] = next] /\ Calm(next)
    <3> DEFINE adding == [To(w, "add_up") EXCEPT !.again = TRUE]
    <3>1. Calm(adding) BY <1>1 DEF Calm, To, Fields, Booking
    <3>2. Calm(To(w, "discard")) BY <1>1, CalmHandlers DEF Booking
    <3>3. \/ job' = [job EXCEPT ![w] = Idle] \/ job' = [job EXCEPT ![w] = adding]
          \/ job' = [job EXCEPT ![w] = To(w, "discard")]
      BY <1>7 DEF GiveBack, Access, Become
    <3> HIDE DEF adding
    <3> QED BY <1>3, <3>1, <3>2, <3>3
  <2>3. Total' = Total BY <2>1, SameRows
  <2>4. ~disturbed' => Total + r.sum <= reserved /\ Total <= reserved /\ reserved <= Budget
    BY <1>1, <2>1 DEF QuotaInv, Booked
  <2>5. r.sum \in Nat BY <1>2, <2>1 DEF Summed
  <2>6. ~disturbed' => Total' <= reserved' /\ reserved' <= Budget
    BY <1>1, <2>1, <2>3, <2>4, <2>5 DEF Less
  <2>7. Booked(w, next, Len(rows'[next.import]), Total', reserved')
    BY <2>2 DEF Booked, Calm, Booking
  <2> QED BY <1>1, <2>1, <2>2, <2>6, <2>7, AccountStep
<1> QED BY <1>4, <1>5, <1>6, <1>7 DEF Finishing

(* The account is made up anew.                                             *)
LEMMA AddingUpBooked ==
    ASSUME IInv, TableInv, TableInv', reserved \in Nat, QuotaInv, NEW w \in Workers,
           AddUp(w) \/ WriteUp(w)
    PROVE  QuotaInv'
<1> DEFINE r == job[w]
<1>1. /\ UNCHANGED setup /\ disturbed' = (disturbed \/ Disturbs) /\ DOMAIN r = Fields
      /\ Total \in Nat /\ Budget \in Nat /\ UNCHANGED rows /\ r.step \in {"add_up", "write_up"}
  BY Numbers DEF AddUp, WriteUp, Access, SetReserved, Read, tables, At, Frame
<1>2. \A i \in Imports : DOMAIN rows'[i] = DOMAIN rows[i] BY <1>1
<1>3. Total' = Total BY <1>2, SameRows
<1>4. Calm(Idle) BY <1>1, CalmAnswers
<1>5. CASE AddUp(w)
  <2> DEFINE up == To(w, "write_up")
             sum == [up EXCEPT !.sum = Total]
             zero == [up EXCEPT !.sum = 0]
             late == [zero EXCEPT !.cancelled = TRUE]
  <2>1. r.step = "add_up" /\ UNCHANGED reserved BY <1>5 DEF AddUp, At, Access, Read, tables
  <2>2. \E next \in {sum, zero, late, Idle} : job' = [job EXCEPT ![w] = next]
    BY <1>5 DEF AddUp, Access, Become
  <2>3. /\ sum.step = "write_up" /\ sum.sum = Total
        /\ zero.step = "write_up" /\ zero.sum = 0
        /\ late.step = "write_up" /\ late.sum = 0
    <3>1. DOMAIN up = Fields /\ up.step = "write_up" BY <1>1 DEF To, Fields
    <3> HIDE DEF up
    <3> QED BY <3>1 DEF Fields
  <2> HIDE DEF sum, zero, late
  <2>4. PICK next : /\ job' = [job EXCEPT ![w] = next]
                    /\ Calm(next) \/ next.step = "write_up"
    BY <1>4, <2>2, <2>3
  <2>5. w \in Jobs
    BY <2>1, FrontierAssumption DEF IInv, Serving, Workers, Settling
  <2>6. ~disturbed' /\ next.step = "write_up" => next.sum = Total
    <3>1. job'[w] = next BY <2>4 DEF IInv, Shape
    <3> QED BY <1>1, <2>1, <2>5, <3>1 DEF Disturbs
  <2>7. ~disturbed' => /\ Total' <= reserved' /\ reserved' <= Budget
                       /\ Booked(w, next, Len(rows'[next.import]), Total', reserved')
    BY <1>1, <1>3, <2>1, <2>4, <2>6 DEF QuotaInv, Booked, Calm, Booking
  <2> QED BY <1>1, <2>4, <2>7, AccountStep
<1>6. CASE WriteUp(w)
  <2>1. r.step = "write_up" /\ (UNCHANGED reserved \/ reserved' = r.sum)
    BY <1>6 DEF WriteUp, At, Access, SetReserved, tables
  <2>2. PICK next : job' = [job EXCEPT ![w] = next] /\ Calm(next)
    <3> DEFINE adding == [To(w, "add_up") EXCEPT !.again = FALSE]
               looking == [Idle EXCEPT !.step = "lookup", !.kind = r.kind, !.source = r.source,
                                       !.import = r.import, !.first = FALSE, !.before = r.now]
    <3>1. Calm(adding) /\ Calm(looking)
      BY <1>1, IdleShape DEF Calm, To, Fields, Booking
    <3>2. Either(w, adding, adding) \/ Either(w, looking, looking) \/ Either(w, Idle, Idle)
      BY <1>6 DEF WriteUp, Access, Become, Cancellable, Either, Ended
    <3> HIDE DEF adding, looking
    <3> QED BY <1>4, <3>1, <3>2, CalmEither
  <2>3. ~disturbed' => r.sum = Total /\ Total <= reserved /\ reserved <= Budget
    BY <1>1, <2>1 DEF QuotaInv, Booked
  <2>4. ~disturbed' => /\ Total' <= reserved' /\ reserved' <= Budget
                       /\ Booked(w, next, Len(rows'[next.import]), Total', reserved')
    BY <1>1, <1>3, <2>1, <2>2, <2>3 DEF Booked, Calm, Booking
  <2> QED BY <1>1, <2>2, <2>4, AccountStep
<1> QED BY <1>5, <1>6

(* Calls come and go, and the process with them.                            *)
LEMMA ProcessBooked ==
    ASSUME IInv, TableInv, TableInv', reserved \in Nat, QuotaInv, StartupStep \/ Outside
    PROVE  QuotaInv'
<1>1. /\ \A w \in Workers : DOMAIN job[w] = Fields
      /\ Startup \in Workers /\ Jobs \subseteq Workers /\ DOMAIN rows = Imports
  BY Numbers DEF Workers
<1>2. UNCHANGED setup /\ UNCHANGED reserved /\ (disturbed => disturbed')
  <2>1. CASE Boot BY <2>1 DEF Boot, tables
  <2>2. CASE RecoverRuns BY <2>2 DEF RecoverRuns, Access, Frame, tables
  <2>3. CASE RecoverPages BY <2>3 DEF RecoverPages, Access, SetRows, Frame, tables
  <2>4. CASE Recovered BY <2>4 DEF Recovered, Access, Frame, tables
  <2>5. CASE Crash BY <2>5 DEF Crash, tables
  <2>6. ASSUME NEW j \in Jobs, Cancel(j) PROVE UNCHANGED setup /\ UNCHANGED reserved /\ (disturbed => disturbed')
    BY <2>6 DEF Cancel, tables
  <2>7. ASSUME NEW j \in Jobs, NEW kind, Start(j, kind) PROVE UNCHANGED setup /\ UNCHANGED reserved /\ (disturbed => disturbed')
    BY <2>7 DEF Start, tables
  <2> QED BY <2>1, <2>2, <2>3, <2>4, <2>5, <2>6, <2>7 DEF StartupStep, Outside
<1>3. \A i \in Imports : DOMAIN rows'[i] = DOMAIN rows[i]
  <2>1. UNCHANGED rows \/ rows' = [i \in Imports |-> Released(rows[i])]
    <3>1. CASE StartupStep
      BY <3>1 DEF StartupStep, Boot, RecoverRuns, RecoverPages, Recovered, Access, SetRows, tables
    <3>2. CASE Outside BY <3>2 DEF Outside, Cancel, Start, Crash, tables
    <3> QED BY <3>1, <3>2
  <2> QED BY <2>1 DEF Released
<1>4. Calm(Idle) BY <1>1, CalmAnswers
<1>5. CASE StartupStep
  <2> DEFINE first == [Idle EXCEPT !.step = "recover_runs"]
  <2>1. Calm(first) BY IdleShape DEF Calm, Fields, Booking
  <2>2. Calm(To(Startup, "recover_pages")) /\ Calm(To(Startup, "list"))
    BY <1>1, CalmHandlers DEF Booking
  <2>3. \E next \in {first, To(Startup, "recover_pages"), To(Startup, "list"), Idle} :
            job' = [job EXCEPT ![Startup] = next]
    BY <1>5 DEF StartupStep, Boot, RecoverRuns, RecoverPages, Recovered, Access, Become
  <2> HIDE DEF first
  <2>4. \E next : job' = [job EXCEPT ![Startup] = next] /\ Calm(next)
    BY <1>4, <2>1, <2>2, <2>3
  <2> QED BY <1>1, <1>2, <1>3, <2>4, CalmStep
<1>6. ASSUME NEW j \in Jobs, NEW kind, Start(j, kind) PROVE QuotaInv'
  <2> DEFINE find(s) == [Idle EXCEPT !.step = "find", !.kind = kind, !.source = s]
             lookup(i) == [Idle EXCEPT !.step = "lookup", !.kind = kind,
                                       !.source = run[i].source, !.import = i]
  <2>1. \/ \E s : job' = [job EXCEPT ![j] = find(s)]
        \/ \E i : job' = [job EXCEPT ![j] = lookup(i)]
    BY <1>6 DEF Start, Become
  <2>2. \A x : Calm(find(x)) /\ Calm(lookup(x)) BY IdleShape DEF Calm, Fields, Booking
  <2> HIDE DEF find, lookup
  <2>3. \E next : job' = [job EXCEPT ![j] = next] /\ Calm(next) BY <2>1, <2>2
  <2> QED BY <1>1, <1>2, <1>3, <2>3, CalmStep
<1>7. ASSUME NEW j \in Jobs, Cancel(j) PROVE QuotaInv'
  <2> DEFINE r == job[j]
             q == [r EXCEPT !.cancelled = TRUE]
  <2>1. job' = [job EXCEPT ![j] = q] /\ UNCHANGED rows BY <1>7 DEF Cancel, Become, tables
  <2>2. DOMAIN r = Fields BY <1>1
  <2>3. /\ q.step = r.step /\ q.import = r.import /\ q.sum = r.sum /\ q.queue = r.queue
        /\ q.kind = r.kind /\ q.cancelled
    BY <2>2 DEF Fields
  <2> HIDE DEF q
  <2>4. Ceded(j, r) => Ceded(j, q) BY <2>3 DEF Ceded
  <2>5. ~disturbed => Booked(j, q, Len(rows'[q.import]), Total, reserved)
    <3>1. ~disturbed => Booked(j, r, Len(rows[r.import]), Total, reserved) BY <1>1 DEF QuotaInv
    <3> QED BY <2>1, <2>3, <2>4, <3>1 DEF Booked
  <2> QED BY <1>1, <1>2, <1>3, <2>1, <2>5, StillStep
<1>8. CASE Crash
  <2>1. Total' = Total BY <1>3, SameRows
  <2>2. \A w \in Workers : job'[w] = Idle BY <1>8 DEF Crash
  <2>3. \A w \in Workers : Booked(w, job'[w], Len(rows'[job'[w].import]), Total', reserved')
    BY <2>2, IdleShape DEF Booked
  <2>4. ~disturbed' => Total' <= reserved' /\ reserved' <= Budget'
    BY <1>2, <2>1 DEF QuotaInv, Budget
  <2> QED BY <2>3, <2>4 DEF QuotaInv
<1> QED BY <1>5, <1>6, <1>7, <1>8 DEF Outside

(* Nothing is queued at first.                                              *)
LEMMA InitQuota == Init => QuotaInv
<1> SUFFICES ASSUME Init PROVE QuotaInv OBVIOUS
<1>1. DOMAIN <<>> = {} BY EmptySeq
<1>2. QueueRows = {} BY <1>1 DEF Init, QueueRows
<1>3. Total = 0 BY <1>2, FS_EmptySet DEF Total
<1>4. Budget \in Nat BY FrontierAssumption DEF Init, Budget
<1>5. \A w \in Workers : Booked(w, job[w], Len(rows[job[w].import]), Total, reserved)
  BY IdleShape DEF Init, Booked
<1> QED BY <1>3, <1>4, <1>5 DEF Init, QuotaInv

(* Every step keeps the account.                                            *)
LEMMA NextQuota == IInv /\ TableInv /\ TableInv' /\ reserved \in Nat /\ QuotaInv /\ [Next]_vars
                       => QuotaInv'
<1> SUFFICES ASSUME IInv, TableInv, TableInv', reserved \in Nat, QuotaInv, [Next]_vars
             PROVE  QuotaInv'
  OBVIOUS
<1>1. ASSUME NEW w \in Workers, JobStep(w) PROVE QuotaInv'
  <2>1. CASE Opening(w)
    <3>1. /\ \E next : job' = [job EXCEPT ![w] = next] /\ Calm(next)
          /\ UNCHANGED setup /\ UNCHANGED reserved /\ (disturbed => disturbed')
          /\ \A i \in Imports : DOMAIN rows'[i] = DOMAIN rows[i]
      BY <2>1, CalmOpening
    <3> QED BY <3>1, CalmStep
  <2>2. CASE Finishing(w) BY <2>2, FinishingBooked
  <2>3. CASE Enqueuing(w)
    <3>1. CASE CheckDuplicate(w) \/ Adopt(w) BY <3>1, CalmLinks, CalmStep
    <3> QED BY <2>3, <3>1, ReserveBooked, InsertBooked, RefundBooked DEF Enqueuing
  <2>4. CASE Preparing(w) BY <2>4, CalmPreparing, CalmStep
  <2>5. CASE Concluding(w)
    <3>1. CASE AddUp(w) \/ WriteUp(w) BY <3>1, AddingUpBooked
    <3>2. CASE \/ ReadServicePages(w) \/ Persist(w) \/ Mark(w) \/ ReadStats(w)
               \/ DetectTemplates(w) \/ Preserve(w) \/ SetPartial(w)
      BY <3>2, CalmWriting, CalmStep
    <3> QED BY <2>5, <3>1, <3>2 DEF Concluding
  <2> QED BY <1>1, <2>1, <2>2, <2>3, <2>4, <2>5 DEF JobStep
<1>2. CASE StartupStep \/ Outside BY <1>2, ProcessBooked
<1>3. CASE UNCHANGED vars
  <2>1. UNCHANGED <<setup, rows, reserved, job, disturbed>> BY <1>3 DEF vars, tables
  <2>2. Total' = Total /\ Budget' = Budget BY <2>1, SameRows DEF Budget
  <2> QED BY <2>1, <2>2 DEF QuotaInv
<1> QED BY <1>1, <1>2, <1>3 DEF Next

(* The quota covers the queue and stays within the budget, as long as no two*)
(* workers account between each other's reading and writing, whatever fails,*)
(* is cancelled late or is discarded twice (reserveImportQueueBytes,        *)
(* FinishImportFrontier, rebuildDomainStorageUsage).                        *)
THEOREM QueueIsCoveredAlways == Spec => []QueueIsCovered
<1>1. Init => QuotaInv /\ reserved \in Nat
  BY InitQuota DEF Init
<1>2. IInv /\ TableInv /\ TableInv' /\ reserved \in Nat /\ QuotaInv /\ [Next]_vars
          => QuotaInv' /\ (reserved \in Nat)'
  BY NextQuota, NextReserved
<1>3. QuotaInv => QueueIsCovered BY DEF QuotaInv, QueueIsCovered
<1> QED BY <1>1, <1>2, <1>3, InductiveInvariant, TableInvariant, PTL DEF Spec
=============================================================================
