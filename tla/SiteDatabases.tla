----------------------------- MODULE SiteDatabases -----------------------------
(***************************************************************************)
(* The database of one site, as its callers meet it: the router that opens,*)
(* hands out, closes and forgets owners (perSiteDBRouter of sitebrush.go)  *)
(* and an owner, one writing goroutine and several reading ones behind     *)
(* bounded queues (siteFileDatabase).                                      *)
(*                                                                         *)
(* A call asks the router for the owner, sends one operation to a queue,   *)
(* waits for the answer and, when the answer is a set of rows, reads and   *)
(* closes it.  It may stop waiting: its context ends with its browser, or  *)
(* the owner says that it has stopped.  Nobody withdraws the operation.    *)
(*                                                                         *)
(* Every goroutine has a handle with one connection, which rows that were  *)
(* not closed keep.  The context of an ended call closes its rows.         *)
(***************************************************************************)
EXTENDS Naturals, Sequences, FiniteSets

CONSTANTS
    Callers,    \* handlers and background jobs, one access at a time
    Readers,    \* reading goroutines of an owner
    Writer,     \* the writing goroutine of an owner
    Owners,     \* the owners that are there at a time, closed ones included
    None,
    Capacity,   \* of each queue
    Setups      \* what is considered, see Setup

Kinds   == {"write", "general", "rows"}
Workers == Readers \cup {Writer}

(* A setup: what each caller asks for, whose contexts end before an answer, *)
(* who has a context that never ends, who may create the database, whether  *)
(* the site is removed now and then, and whether the program shuts down.    *)
Setup ==
    [kinds : [Callers -> SUBSET Kinds], leaving : SUBSET Callers, endless : SUBSET Callers,
     creating : SUBSET Callers, removes : BOOLEAN, shuts : BOOLEAN]

(* siteDBOperation: of whom, and whether that caller awaits the answer: the *)
(* context of an operation may be done, or go on although its caller left.  *)
(* An operation is late when its caller has changed the database since.     *)
Operations ==
    [of : Callers, kind : Kinds, ctx : {"awaited", "left", "done"}, late : BOOLEAN]

ASSUME DatabasesAssumption ==
    /\ Writer \notin Readers /\ IsFiniteSet(Readers)
    /\ None \notin Owners \cup Callers \cup Operations
    /\ Callers \cap {"remover", "shutdown", "nobody"} = {}
    /\ Capacity \in Nat \ {0}
    /\ Setups \subseteq Setup

VARIABLES
    setup,
    call,       \* what each caller is doing
    router,     \* the goroutine of the router
    remover,    \* the removal of the site: idle, asking, waiting, forgotten
    file,       \* whether the database is in its directory
    own,        \* the state and the queues of each owner
    work,       \* the operation each goroutine of an owner is busy with
    conn        \* whose rows keep the connection of a goroutine, if any

vars == <<setup, call, router, remover, file, own, work, conn>>

(* runOperation makes one whose answer is awaited.                          *)
Operation(c, kind) == [of |-> c, kind |-> kind, ctx |-> "awaited", late |-> FALSE]

NoCall  == [step |-> "idle", kind |-> "none", owner |-> None, answer |-> "none", rows |-> None]
Fresh   == [state |-> "open", closing |-> FALSE, turn |-> "write", ended |-> {},
            write |-> <<>>, general |-> <<>>, rows |-> <<>>]
Unused  == [Fresh EXCEPT !.state = "closed", !.ended = Readers]

Init ==
    /\ setup \in Setups
    /\ call = [c \in Callers |-> NoCall]
    /\ router = [step |-> "idle", for |-> None, open |-> None, known |-> TRUE]
    /\ remover = "idle"
    /\ file = TRUE
    /\ own = [o \in Owners |-> Unused]
    /\ work = [o \in Owners |-> [w \in Workers |-> None]]
    /\ conn = [o \in Owners |-> [w \in Workers |-> None]]

-----------------------------------------------------------------------------
(* Callers *)

At(c, step) == call[c].step = step

Start(c) ==
    /\ At(c, "idle")
    /\ \E kind \in setup.kinds[c] :
          call' = [call EXCEPT ![c] = [NoCall EXCEPT !.step = "ask", !.kind = kind]]
    /\ UNCHANGED <<setup, router, remover, file, own, work, conn>>

(* databaseForContext: the router takes one request at a time.              *)
Over(c) == [NoCall EXCEPT !.step = "over"]

Ask(c) ==
    /\ At(c, "ask")
    /\ \/ /\ router.step = "idle"
          /\ router' = [router EXCEPT !.step = "lookup", !.for = c]
          /\ call' = [call EXCEPT ![c].step = "asked"]
       \/ /\ router.step = "stopped"
          /\ call' = [call EXCEPT ![c] = Over(c)]
          /\ UNCHANGED router
    /\ UNCHANGED <<setup, remover, file, own, work, conn>>

(* What happens to the operations of a call that no longer waits.           *)
Marked(op, c, ctx) ==
    IF op # None /\ op.of = c /\ op.ctx # "done" THEN [op EXCEPT !.ctx = ctx] ELSE op
InQueue(queue, c, ctx) == [i \in DOMAIN queue |-> Marked(queue[i], c, ctx)]
MarkAll(c, ctx) ==
    /\ own' = [o \in Owners |-> [own[o] EXCEPT !.write = InQueue(@, c, ctx),
                                    !.general = InQueue(@, c, ctx), !.rows = InQueue(@, c, ctx)]]
    /\ work' = [o \in Owners |-> [w \in Workers |-> Marked(work[o][w], c, ctx)]]

(* runOperation: both selects may find the owner stopped, the queue is      *)
(* taken by chance even then.                                               *)
Stopped(o) == own[o].state # "open"

HasRoom(queue) == Len(queue) < Capacity

Submit(c) ==
    /\ At(c, "submit")
    /\ LET o    == call[c].owner
           kind == call[c].kind
       IN /\ HasRoom(own[o][kind])
          /\ own' = [own EXCEPT ![o][kind] = Append(@, Operation(c, kind))]
    /\ call' = [call EXCEPT ![c].step = "wait"]
    /\ UNCHANGED <<setup, router, remover, file, work, conn>>

Refused(c) ==
    /\ At(c, "submit") \/ At(c, "wait")
    /\ Stopped(call[c].owner)
    /\ call' = [call EXCEPT ![c] = Over(c)]
    /\ MarkAll(c, "left")
    /\ UNCHANGED <<setup, router, remover, file, conn>>

Receive(c) ==
    /\ At(c, "wait") /\ call[c].answer # "none"
    /\ call' = [call EXCEPT ![c] = IF @.answer = "rows" THEN [@ EXCEPT !.step = "rows"] ELSE Over(c)]
    /\ UNCHANGED <<setup, router, remover, file, own, work, conn>>

CloseRows(c) ==
    /\ At(c, "rows")
    /\ conn' = [conn EXCEPT ![call[c].owner][call[c].rows] = None]
    /\ call' = [call EXCEPT ![c] = Over(c)]
    /\ UNCHANGED <<setup, router, remover, file, own, work>>

(* The rows a context closes when it ends.                                  *)
NotReclaimed(c) == conn
Reclaimed(c) ==
    [o \in Owners |-> [w \in Workers |-> IF conn[o][w] = c THEN None ELSE conn[o][w]]]

(* The context of a handler ends when it returns; that of a background job  *)
(* goes on.                                                                 *)
Return(c) ==
    /\ At(c, "over")
    /\ call' = [call EXCEPT ![c] = NoCall]
    /\ IF c \in setup.endless THEN UNCHANGED <<own, work, conn>>
       ELSE MarkAll(c, "done") /\ conn' = Reclaimed(c)
    /\ UNCHANGED <<setup, router, remover, file>>

(* The browser goes away.  A request the router has taken is answered to    *)
(* nobody.                                                                  *)
Disconnect(c) ==
    /\ c \in setup.leaving /\ call[c].step \in {"ask", "asked", "submit", "wait", "rows"}
    /\ call' = [call EXCEPT ![c] = NoCall]
    /\ MarkAll(c, "done") /\ conn' = Reclaimed(c)
    /\ router' = IF router.for = c THEN [router EXCEPT !.for = "nobody"] ELSE router
    /\ UNCHANGED <<setup, remover, file>>

-----------------------------------------------------------------------------
(* The owner: run, runReader, completeOperation *)

Changes(op) == op.kind \in {"write", "general"}

(* An operation whose context is done is not begun.                         *)
BegunAnyway(op) == op
Begun(op) == IF op.ctx = "done" THEN None ELSE op

Take(o, w, queue) ==
    /\ own[o][queue] # <<>>
    /\ work' = [work EXCEPT ![o][w] = Begun(Head(own[o][queue]))]
    /\ own' = [own EXCEPT ![o][queue] = Tail(@)]

(* nextOperation: the two queues of the writer in turn, and when both are   *)
(* empty whatever comes, reads included.                                    *)
Other(queue) == IF queue = "write" THEN "general" ELSE "write"
WritesFirst(o) ==
    IF own[o].write # <<>> THEN "write"
    ELSE IF own[o].general # <<>> THEN "general"
    ELSE "rows"
NextQueue(o) ==
    IF own[o][own[o].turn] # <<>> THEN own[o].turn
    ELSE IF own[o][Other(own[o].turn)] # <<>> THEN Other(own[o].turn)
    ELSE "rows"

WriterTakes(o) ==
    /\ own[o].state = "open" /\ ~own[o].closing /\ work[o][Writer] = None
    /\ LET queue == NextQueue(o) IN
       /\ own[o][queue] # <<>>
       /\ work' = [work EXCEPT ![o][Writer] = Begun(Head(own[o][queue]))]
       /\ own' = [own EXCEPT ![o][queue] = Tail(@),
                             ![o].turn = IF queue = @ THEN Other(@) ELSE @]
    /\ UNCHANGED <<setup, call, router, remover, file, conn>>

(* A reader drains its queue before it ends.                                *)
ReaderTakes(o, w) ==
    /\ w \in Readers \ own[o].ended /\ work[o][w] = None
    /\ Take(o, w, "rows")
    /\ UNCHANGED <<setup, call, router, remover, file, conn>>

ReaderEnds(o, w) ==
    /\ w \in Readers \ own[o].ended /\ work[o][w] = None
    /\ own[o].state = "stopping" /\ own[o].rows = <<>>
    /\ own' = [own EXCEPT ![o].ended = @ \cup {w}]
    /\ UNCHANGED <<setup, call, router, remover, file, work, conn>>

(* Older operations of the caller that a change it waits for has passed.    *)
Passed(op, done) ==
    IF op # None /\ op.of = done.of /\ done.ctx = "awaited" /\ Changes(op) THEN [op EXCEPT !.late = TRUE] ELSE op
PassedIn(queue, done) == [i \in DOMAIN queue |-> Passed(queue[i], done)]

(* operation.run waits for the connection of the goroutine, and for no      *)
(* longer than the context; then it is done, or the context interrupts it.  *)
Run(o, w) ==
    /\ work[o][w] # None
    /\ LET op == work[o][w] IN
       /\ \/ /\ conn[o][w] = None
             /\ conn' = IF op.kind = "rows" /\ op.ctx # "done"
                        THEN [conn EXCEPT ![o][w] = op.of] ELSE conn
             /\ IF Changes(op)
                THEN /\ work' = [p \in Owners |-> [v \in Workers |->
                                   IF <<p, v>> = <<o, w>> THEN None ELSE Passed(work[p][v], op)]]
                     /\ own' = [p \in Owners |-> [own[p] EXCEPT !.write = PassedIn(@, op),
                                                                !.general = PassedIn(@, op)]]
                ELSE work' = [work EXCEPT ![o][w] = None] /\ UNCHANGED own
          \/ /\ op.ctx = "done"
             /\ work' = [work EXCEPT ![o][w] = None] /\ UNCHANGED <<own, conn>>
       /\ call' = IF op.ctx = "awaited"
                  THEN [call EXCEPT ![op.of].answer = IF op.kind = "rows" THEN "rows" ELSE "ok",
                                    ![op.of].rows = IF op.kind = "rows" THEN w ELSE None]
                  ELSE call
    /\ UNCHANGED <<setup, router, remover, file>>

(* The writer looks for a request to close first.  It stops the owner,      *)
(* waits for its readers, finishes what is queued, and closes its handle.   *)
Stop(o) ==
    /\ own[o].state = "open" /\ own[o].closing /\ work[o][Writer] = None
    /\ own' = [own EXCEPT ![o].state = "stopping"]
    /\ UNCHANGED <<setup, call, router, remover, file, work, conn>>

ReadersTold(o) == TRUE
ReadersEnded(o) == own[o].ended = Readers

FinishQueued(o) ==
    /\ own[o].state = "stopping" /\ ReadersEnded(o) /\ work[o][Writer] = None
    /\ \E queue \in {"write", "general"} : Take(o, Writer, queue)
    /\ UNCHANGED <<setup, call, router, remover, file, conn>>

CloseHandle(o) ==
    /\ own[o].state = "stopping" /\ ReadersEnded(o) /\ work[o][Writer] = None
    /\ own[o].write = <<>> /\ own[o].general = <<>>
    /\ own' = [own EXCEPT ![o].state = "closed"]
    /\ UNCHANGED <<setup, call, router, remover, file, work, conn>>

-----------------------------------------------------------------------------
(* The router: run, databaseForDomain, ForgetDomain, Close *)

Answer(result) ==
    /\ router' = [result EXCEPT !.step = "idle", !.for = None]
    /\ call' = IF router.for \in Callers
               THEN [call EXCEPT ![router.for] =
                       IF result.open = None THEN Over(router.for)
                       ELSE [@ EXCEPT !.step = "submit", !.owner = result.open]]
               ELSE call

(* database.Close, in the goroutine of the router.                          *)
Closing(o) ==
    /\ own' = [own EXCEPT ![o].closing = TRUE]
    /\ router' = [router EXCEPT !.step = "closing"]

Creating == router.for \in setup.creating

(* An owner whose file was removed still reads the old one: it is closed.   *)
Unlinked == router.open # None /\ ~file

Lookup ==
    /\ router.step = "lookup" /\ router.for \in Callers \cup {"nobody"}
    /\ \/ /\ router.open # None /\ ~Unlinked
          /\ Answer(router) /\ UNCHANGED <<file, own>>
       \/ /\ Unlinked
          /\ Closing(router.open) /\ UNCHANGED <<call, file>>
       \/ /\ router.open = None /\ ~Creating /\ ~(router.known /\ file)
          /\ Answer(router) /\ UNCHANGED <<file, own>>
    /\ UNCHANGED <<setup, remover, work, conn>>

(* A closed owner is gone when nobody holds it any more.                    *)
Forgotten(o) ==
    /\ own[o].state = "closed"
    /\ \A c \in Callers : call[c].owner # o

Open ==
    /\ router.step = "lookup" /\ router.for \in Callers \cup {"nobody"}
    /\ router.open = None /\ (Creating \/ (router.known /\ file))
    /\ \E o \in Owners :
          /\ Forgotten(o)
          /\ own' = [own EXCEPT ![o] = Fresh]
          /\ conn' = [conn EXCEPT ![o] = [w \in Workers |-> None]]
          /\ Answer([router EXCEPT !.open = o, !.known = TRUE])
    /\ file' = TRUE
    /\ UNCHANGED <<setup, remover, work>>

(* forgetDomainRequests and closeRequests.                                  *)
Forget ==
    /\ remover = "asking" /\ router.step = "idle"
    /\ remover' = "waiting"
    /\ router' = [router EXCEPT !.step = "lookup", !.for = "remover"]
    /\ UNCHANGED <<setup, call, file, own, work, conn>>

Shutdown ==
    /\ setup.shuts /\ router.step = "idle"
    /\ router' = [router EXCEPT !.step = "lookup", !.for = "shutdown"]
    /\ UNCHANGED <<setup, call, remover, file, own, work, conn>>

CloseOpen ==
    /\ router.step = "lookup" /\ router.for \in {"remover", "shutdown"} /\ router.open # None
    /\ Closing(router.open)
    /\ UNCHANGED <<setup, call, remover, file, work, conn>>

CloseAsked == TRUE
CloseReturns == router.open = None \/ own[router.open].state = "closed"

Discard ==
    /\ router.step = "closing" /\ CloseReturns
    /\ router' = [router EXCEPT !.step = "lookup", !.open = None, !.known = FALSE]
    /\ UNCHANGED <<setup, call, remover, file, own, work, conn>>

Forgot ==
    /\ router.step = "lookup" /\ router.for = "remover" /\ router.open = None
    /\ router' = [router EXCEPT !.step = "idle", !.for = None, !.known = FALSE]
    /\ remover' = "forgotten"
    /\ UNCHANGED <<setup, call, file, own, work, conn>>

ShutDown ==
    /\ router.step = "lookup" /\ router.for = "shutdown" /\ router.open = None
    /\ router' = [router EXCEPT !.step = "stopped", !.for = None]
    /\ UNCHANGED <<setup, call, remover, file, own, work, conn>>

(* deleteManagedSiteFiles: forget the site, then remove its database.       *)
Remove ==
    /\ \/ /\ setup.removes /\ remover = "idle" /\ file
          /\ remover' = "asking" /\ UNCHANGED file
       \/ /\ remover = "forgotten"
          /\ remover' = "idle" /\ file' = FALSE
    /\ UNCHANGED <<setup, call, router, own, work, conn>>

-----------------------------------------------------------------------------

Calling(c) == Ask(c) \/ Submit(c) \/ Refused(c) \/ Receive(c) \/ CloseRows(c) \/ Return(c)
Writing(o) == WriterTakes(o) \/ Stop(o) \/ FinishQueued(o) \/ CloseHandle(o)
Serving(o, w) == Run(o, w) \/ ReaderTakes(o, w) \/ ReaderEnds(o, w)
Routing == Lookup \/ Open \/ CloseOpen \/ Discard \/ Forgot \/ ShutDown

Next ==
    \/ \E c \in Callers : Start(c) \/ Calling(c) \/ Disconnect(c)
    \/ \E o \in Owners, w \in Workers : Serving(o, w)
    \/ \E o \in Owners : Writing(o)
    \/ Routing
    \/ Forget \/ Shutdown \/ Remove

Spec == Init /\ [][Next]_vars

(* Goroutines run on.  Those that wait to send on a channel are served in   *)
(* the order they came: a caller is not overtaken for ever at the router or *)
(* at a full queue.                                                         *)
FairSpec ==
    /\ Spec
    /\ \A c \in Callers : SF_vars(Calling(c))
    /\ \A o \in Owners, w \in Workers : WF_vars(Serving(o, w) \/ (w = Writer /\ Writing(o)))
    /\ WF_vars(Routing)

-----------------------------------------------------------------------------
(* Properties *)

(* One owner of the database at most has a goroutine or an open handle, and *)
(* it is the one the router knows, across removals, unlinked files, new     *)
(* registrations and the shutdown (databaseForDomain, ForgetDomain).        *)
Alive(o) == own[o].state # "closed"
OneOwner == \A o \in Owners : Alive(o) => router.open = o

(* When Close returns nothing of the owner touches the database any more:   *)
(* its readers have ended and no operation is under way or will be begun    *)
(* (run, finishQueuedOperations, close).                                    *)
ClosedIsQuiet ==
    \A o \in Owners : own[o].state = "closed" =>
        own[o].ended = Readers /\ \A w \in Workers : work[o][w] = None

(* A change a caller has given up, by leaving or because the owner stopped, *)
(* is never begun after a later change the same caller waits for was made,  *)
(* whichever queue or owner it was sent to (completeOperation,              *)
(* finishQueuedOperations).                                                 *)
NoLateChange == \A o \in Owners, w \in Workers : work[o][w] # None => ~work[o][w].late

(* Every access ends, when callers close their rows before the next one:    *)
(* no kind of work is starved by the others, whoever leaves and whatever is *)
(* closed meanwhile (nextOperation, runOperation, databaseForContext).      *)
CallsEnd == \A c \in Callers : call[c].step = "ask" ~> call[c].step \in {"over", "idle"}

(* Close returns, and with it the router goes on serving: no reader or      *)
(* writer is kept by rows of a caller that left (Close, ForgetDomain).      *)
CloseReturnsAtLast == router.step = "closing" ~> router.step # "closing"
=============================================================================
