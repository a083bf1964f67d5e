-------------------------- MODULE SiteDatabasesProofs --------------------------
(* Safety of SiteDatabases for every number of callers, readers and owners. *)
EXTENDS SiteDatabases, SequenceTheorems, TLAPS

(***************************************************************************)
(* The records keep their fields, so that every assignment above is one to *)
(* a field that is there.                                                  *)
(***************************************************************************)
OwnFields == {"state", "closing", "turn", "ended", "write", "general", "rows"}

CallShape ==
    /\ DOMAIN call = Callers
    /\ \A c \in Callers :
          /\ DOMAIN call[c] = {"step", "kind", "owner", "answer", "rows"}
          /\ call[c].kind \in Kinds \cup {"none"}

OwnShape ==
    /\ DOMAIN own = Owners
    /\ \A o \in Owners : DOMAIN own[o] = OwnFields /\ own[o].turn \in {"write", "general"}

WorkShape ==
    /\ DOMAIN work = Owners
    /\ \A o \in Owners : DOMAIN work[o] = Workers

RouterShape ==
    /\ DOMAIN router = {"step", "for", "open", "known"}
    /\ router.open \in Owners \cup {None}

Shape == setup \in Setup /\ CallShape /\ OwnShape /\ WorkShape /\ RouterShape

(* A reader that ended takes nothing any more.                              *)
EndedIsIdle == \A o \in Owners, w \in Readers : w \in own[o].ended => work[o][w] = None

IInv == Shape /\ OneOwner /\ EndedIsIdle /\ ClosedIsQuiet

-----------------------------------------------------------------------------
(* A step that leaves the stage of every owner and its readers alone, and   *)
(* hands work only to goroutines that have not ended, keeps the invariant.  *)
MayTake(o, w) == own[o].state # "closed" /\ w \notin own[o].ended
Quiet ==
    /\ router'.open = router.open
    /\ \A o \in Owners :
          /\ own'[o].state = own[o].state /\ own'[o].ended = own[o].ended
          /\ \A w \in Workers : (work[o][w] = None /\ ~MayTake(o, w)) => work'[o][w] = None

(* A quiet step keeps the three safety parts of the invariant: what it      *)
(* leaves alone is all they speak of.                                       *)
LEMMA QuietKeeps == IInv /\ Quiet => OneOwner' /\ EndedIsIdle' /\ ClosedIsQuiet'
BY DEF IInv, Quiet, MayTake, OneOwner, Alive, EndedIsIdle, ClosedIsQuiet, Workers

(* The stages and readers of owners after a change to their queues.         *)
LEMMA MarkAllKeeps ==
    ASSUME NEW c, NEW ctx, OwnShape, WorkShape, MarkAll(c, ctx)
    PROVE  /\ OwnShape' /\ WorkShape'
           /\ \A o \in Owners :
                 /\ own'[o].state = own[o].state /\ own'[o].ended = own[o].ended
                 /\ \A w \in Workers : work[o][w] = None => work'[o][w] = None
BY DEF OwnShape, WorkShape, OwnFields, MarkAll, Marked

(* The invariant holds before the first call: no owner has been opened and  *)
(* nothing is queued (newPerSiteDBRouter).                                  *)
LEMMA InitIInv == Init => IInv
<1> SUFFICES ASSUME Init PROVE IInv
    OBVIOUS
<1>1. setup \in Setup
    BY DatabasesAssumption DEF Init
<1>2. CallShape
    BY DEF Init, CallShape, NoCall
<1>3. OwnShape
    BY DEF Init, OwnShape, OwnFields, Unused, Fresh
<1>4. WorkShape /\ RouterShape
    BY DEF Init, WorkShape, RouterShape
<1>5. \A o \in Owners : own[o].state = "closed" /\ own[o].ended = Readers
    BY DEF Init, Unused, Fresh
<1>6. \A o \in Owners, w \in Workers : work[o][w] = None
    BY DEF Init
<1>7. OneOwner /\ EndedIsIdle /\ ClosedIsQuiet
    BY <1>5, <1>6 DEF OneOwner, Alive, EndedIsIdle, ClosedIsQuiet, Workers
<1> QED
    BY <1>1, <1>2, <1>3, <1>4, <1>7 DEF IInv, Shape

-----------------------------------------------------------------------------
(* Callers leave the owners and the router as they are, queues aside.       *)
LEMMA CallerStep ==
    ASSUME IInv, NEW c \in Callers, Start(c) \/ Calling(c) \/ Disconnect(c)
    PROVE  IInv'
<1> USE DEF IInv, Shape
<1>1. CASE Start(c)
  <2>1. CallShape'
    <3>1. PICK kind \in setup.kinds[c] :
            call' = [call EXCEPT ![c] = [NoCall EXCEPT !.step = "ask", !.kind = kind]]
      BY <1>1 DEF Start
    <3>2. setup.kinds \in [Callers -> SUBSET Kinds]
      BY DEF Setup
    <3>3. kind \in Kinds
      BY <3>2
    <3> QED
      BY <3>1, <3>3 DEF NoCall, CallShape
  <2>2. Quiet
    BY <1>1 DEF Start, Quiet
  <2> QED
    BY <1>1, <2>1, <2>2, QuietKeeps DEF Start, OwnShape, WorkShape, RouterShape
<1>2. CASE Ask(c)
  <2>1. CallShape'
    BY <1>2 DEF Ask, Over, NoCall, CallShape
  <2>2. RouterShape' /\ router'.open = router.open
    BY <1>2 DEF Ask, RouterShape
  <2>3. Quiet
    BY <1>2, <2>2 DEF Ask, Quiet
  <2> QED
    BY <1>2, <2>1, <2>2, <2>3, QuietKeeps DEF Ask, OwnShape, WorkShape
<1>3. CASE Submit(c)
  <2>1. CallShape'
    BY <1>3 DEF Submit, CallShape
  <2>2. /\ OwnShape'
        /\ \A o \in Owners : own'[o].state = own[o].state /\ own'[o].ended = own[o].ended
    BY <1>3 DEF Submit, OwnShape, OwnFields, CallShape, Kinds
  <2>3. Quiet
    BY <1>3, <2>2 DEF Submit, Quiet
  <2> QED
    BY <1>3, <2>1, <2>2, <2>3, QuietKeeps DEF Submit, WorkShape, RouterShape
<1>4. CASE Refused(c)
  <2>1. CallShape'
    BY <1>4 DEF Refused, Over, NoCall, CallShape
  <2>2. Quiet /\ OwnShape' /\ WorkShape'
    BY <1>4, MarkAllKeeps DEF Refused, Quiet
  <2> QED
    BY <1>4, <2>1, <2>2, QuietKeeps DEF Refused, RouterShape
<1>5. CASE Receive(c)
  <2>1. CallShape'
    BY <1>5 DEF Receive, Over, NoCall, CallShape
  <2>2. Quiet
    BY <1>5 DEF Receive, Quiet
  <2> QED
    BY <1>5, <2>1, <2>2, QuietKeeps DEF Receive, OwnShape, WorkShape, RouterShape
<1>6. CASE CloseRows(c)
  <2>1. CallShape'
    BY <1>6 DEF CloseRows, Over, NoCall, CallShape
  <2>2. Quiet
    BY <1>6 DEF CloseRows, Quiet
  <2> QED
    BY <1>6, <2>1, <2>2, QuietKeeps DEF CloseRows, OwnShape, WorkShape, RouterShape
<1>7. CASE Return(c)
  <2>1. CallShape'
    BY <1>7 DEF Return, NoCall, CallShape
  <2>2. Quiet /\ OwnShape' /\ WorkShape'
    <3>1. CASE c \in setup.endless
      BY <1>7, <3>1 DEF Return, Quiet, OwnShape, WorkShape
    <3>2. CASE c \notin setup.endless
      BY <1>7, <3>2, MarkAllKeeps DEF Return, Quiet
    <3> QED
      BY <3>1, <3>2
  <2> QED
    BY <1>7, <2>1, <2>2, QuietKeeps DEF Return, RouterShape
<1>8. CASE Disconnect(c)
  <2>1. CallShape'
    BY <1>8 DEF Disconnect, NoCall, CallShape
  <2>2. RouterShape' /\ router'.open = router.open
    BY <1>8 DEF Disconnect, RouterShape
  <2>3. Quiet /\ OwnShape' /\ WorkShape'
    BY <1>8, <2>2, MarkAllKeeps DEF Disconnect, Quiet
  <2> QED
    BY <1>8, <2>1, <2>2, <2>3, QuietKeeps DEF Disconnect
<1> QED
    BY <1>1, <1>2, <1>3, <1>4, <1>5, <1>6, <1>7, <1>8 DEF Calling

-----------------------------------------------------------------------------
(* Goroutines of an owner.                                                  *)
(* The goroutine of an owner takes a queued operation, in turn, or a        *)
(* request to close (run): it takes only while it is not closed.            *)
LEMMA RunKeeps ==
    ASSUME IInv, NEW o \in Owners, NEW w \in Workers, Run(o, w)
    PROVE  IInv'
<1> USE DEF IInv, Shape
<1> DEFINE op == work[o][w]
<1>1. CallShape'
  BY DEF Run, CallShape
<1>2. /\ OwnShape' /\ WorkShape'
      /\ \A p \in Owners :
            /\ own'[p].state = own[p].state /\ own'[p].ended = own[p].ended
            /\ \A v \in Workers : work[p][v] = None => work'[p][v] = None
  <2>1. CASE /\ work' = [p \in Owners |-> [v \in Workers |->
                           IF <<p, v>> = <<o, w>> THEN None ELSE Passed(work[p][v], op)]]
             /\ own' = [p \in Owners |-> [own[p] EXCEPT !.write = PassedIn(@, op),
                                                        !.general = PassedIn(@, op)]]
    BY <2>1 DEF OwnShape, WorkShape, OwnFields, Passed
  <2>2. CASE work' = [work EXCEPT ![o][w] = None] /\ own' = own
    BY <2>2 DEF OwnShape, WorkShape
  <2> QED
    BY <2>1, <2>2 DEF Run
<1>3. Quiet
  BY <1>2 DEF Run, Quiet
<1> QED
  BY <1>1, <1>2, <1>3, QuietKeeps DEF Run, RouterShape

(* The writer and the readers carry out what they took, and a reader ends   *)
(* only between two operations (runReadDatabase).                           *)
LEMMA ServingStep ==
    ASSUME IInv, NEW o \in Owners, NEW w \in Workers, Serving(o, w)
    PROVE  IInv'
<1> USE DEF IInv, Shape
<1>1. CASE Run(o, w)
  BY <1>1, RunKeeps
<1>2. CASE ReaderTakes(o, w)
  <2>1. OwnShape' /\ WorkShape'
    BY <1>2 DEF ReaderTakes, Take, OwnShape, WorkShape, OwnFields
  <2>2. MayTake(o, w)
    BY <1>2 DEF ReaderTakes, MayTake, ClosedIsQuiet
  <2>3. Quiet
    BY <1>2, <2>2 DEF ReaderTakes, Take, Quiet, OwnShape, WorkShape, OwnFields
  <2> QED
    BY <1>2, <2>1, <2>3, QuietKeeps DEF ReaderTakes, CallShape, RouterShape
<1>3. CASE ReaderEnds(o, w)
  <2>1. /\ OwnShape'
        /\ \A p \in Owners : own'[p].state = own[p].state
        /\ \A p \in Owners \ {o} : own'[p].ended = own[p].ended
        /\ own'[o].ended = own[o].ended \cup {w} /\ own[o].state = "stopping"
    BY <1>3 DEF ReaderEnds, OwnShape, OwnFields
  <2>2. work' = work /\ work[o][w] = None /\ router' = router
    BY <1>3 DEF ReaderEnds
  <2>3. OneOwner' /\ EndedIsIdle' /\ ClosedIsQuiet'
    BY <2>1, <2>2 DEF OneOwner, Alive, EndedIsIdle, ClosedIsQuiet
  <2> QED
    BY <1>3, <2>1, <2>3 DEF ReaderEnds, CallShape, WorkShape, RouterShape
<1> QED
  BY <1>1, <1>2, <1>3 DEF Serving

(* The steps in which an owner closes: every reader must have ended and the *)
(* queues must be drained before the files are closed (run,                 *)
(* finishQueuedOperations, close).                                          *)
LEMMA WritingStep ==
    ASSUME IInv, NEW o \in Owners, Writing(o)
    PROVE  IInv'
<1> USE DEF IInv, Shape
<1>w. Writer \in Workers /\ Writer \notin Readers
  BY DatabasesAssumption DEF Workers
<1>1. CASE WriterTakes(o)
  <2>1. PICK queue \in Kinds :
          /\ work' = [work EXCEPT ![o][Writer] = Begun(Head(own[o][queue]))]
          /\ own' = [own EXCEPT ![o][queue] = Tail(@),
                                ![o].turn = IF queue = @ THEN Other(@) ELSE @]
    <3>1. NextQueue(o) \in Kinds
      BY DEF NextQueue, Other, Kinds, OwnShape
    <3> QED
      BY <1>1, <3>1 DEF WriterTakes
  <2>2. /\ OwnShape' /\ WorkShape'
        /\ \A p \in Owners : own'[p].state = own[p].state /\ own'[p].ended = own[p].ended
    BY <2>1 DEF OwnShape, WorkShape, OwnFields, Kinds, Other
  <2>3. own[o].state = "open" /\ \A p \in Owners, w \in Workers :
          work[p][w] = None => work'[p][w] = None \/ (p = o /\ w = Writer)
    BY <1>1, <2>1 DEF WriterTakes, WorkShape
  <2>4. OneOwner' /\ EndedIsIdle' /\ ClosedIsQuiet'
    BY <1>1, <1>w, <2>2, <2>3 DEF WriterTakes, OneOwner, Alive, EndedIsIdle, ClosedIsQuiet, Workers
  <2> QED
    BY <1>1, <2>2, <2>4 DEF WriterTakes, CallShape, RouterShape
<1>2. CASE Stop(o)
  <2>1. /\ OwnShape'
        /\ \A p \in Owners : own'[p].ended = own[p].ended
        /\ \A p \in Owners \ {o} : own'[p].state = own[p].state
        /\ own[o].state = "open" /\ own'[o].state = "stopping"
    BY <1>2 DEF Stop, OwnShape, OwnFields
  <2>2. OneOwner' /\ EndedIsIdle' /\ ClosedIsQuiet'
    BY <1>2, <2>1 DEF Stop, OneOwner, Alive, EndedIsIdle, ClosedIsQuiet
  <2> QED
    BY <1>2, <2>1, <2>2 DEF Stop, CallShape, WorkShape, RouterShape
<1>3. CASE FinishQueued(o)
  <2>1. PICK queue \in {"write", "general"} : Take(o, Writer, queue)
    BY <1>3 DEF FinishQueued
  <2>2. /\ OwnShape' /\ WorkShape'
        /\ \A p \in Owners : own'[p].state = own[p].state /\ own'[p].ended = own[p].ended
    BY <2>1 DEF Take, OwnShape, WorkShape, OwnFields
  <2>3. own[o].state = "stopping" /\ \A p \in Owners, w \in Workers :
          work[p][w] = None => work'[p][w] = None \/ (p = o /\ w = Writer)
    BY <1>3, <2>1 DEF FinishQueued, Take, WorkShape
  <2>4. OneOwner' /\ EndedIsIdle' /\ ClosedIsQuiet'
    BY <1>3, <1>w, <2>2, <2>3 DEF FinishQueued, OneOwner, Alive, EndedIsIdle, ClosedIsQuiet, Workers
  <2> QED
    BY <1>3, <2>2, <2>4 DEF FinishQueued, CallShape, RouterShape
<1>4. CASE CloseHandle(o)
  <2>1. /\ OwnShape'
        /\ \A p \in Owners : own'[p].ended = own[p].ended
        /\ \A p \in Owners \ {o} : own'[p].state = own[p].state
        /\ own'[o].state = "closed"
    BY <1>4 DEF CloseHandle, OwnShape, OwnFields
  <2>2. own[o].ended = Readers /\ work[o][Writer] = None /\ work' = work /\ router' = router
    BY <1>4 DEF CloseHandle, ReadersEnded
  <2>3. \A w \in Workers : work[o][w] = None
    BY <2>2 DEF EndedIsIdle, Workers
  <2>4. OneOwner' /\ EndedIsIdle' /\ ClosedIsQuiet'
    BY <2>1, <2>2, <2>3 DEF OneOwner, Alive, EndedIsIdle, ClosedIsQuiet
  <2> QED
    BY <1>4, <2>1, <2>4 DEF CloseHandle, CallShape, WorkShape, RouterShape
<1> QED
  BY <1>1, <1>2, <1>3, <1>4 DEF Writing

-----------------------------------------------------------------------------
(* The router: it opens an owner only when it knows none, and forgets one   *)
(* only when its Close has returned.                                        *)
(* An answer of the router changes what its caller knows, and the owner it  *)
(* keeps is the one given.                                                  *)
LEMMA AnswerKeeps ==
    ASSUME CallShape, RouterShape, NEW result, DOMAIN result = DOMAIN router,
           result.open \in Owners \cup {None}, Answer(result)
    PROVE  CallShape' /\ RouterShape' /\ router'.open = result.open
BY DEF Answer, CallShape, RouterShape, Over, NoCall

(* A request of the router to close an owner only marks that owner.         *)
LEMMA ClosingKeeps ==
    ASSUME OwnShape, RouterShape, NEW o \in Owners, Closing(o)
    PROVE  /\ OwnShape' /\ RouterShape' /\ router'.open = router.open
           /\ \A p \in Owners : own'[p].state = own[p].state /\ own'[p].ended = own[p].ended
BY DEF OwnShape, RouterShape, OwnFields, Closing

(* The router answers callers, opens an owner and closes the one it forgets *)
(* (databaseForDomain, ForgetDomain, Close).                                *)
LEMMA RoutingStep ==
    ASSUME IInv, Routing
    PROVE  IInv'
<1> USE DEF IInv, Shape
<1>1. CASE Lookup
  <2>1. CASE Answer(router) /\ UNCHANGED <<file, own>>
    <3>1. CallShape' /\ RouterShape' /\ router'.open = router.open
      BY <2>1, AnswerKeeps DEF RouterShape
    <3>2. Quiet
      BY <1>1, <2>1, <3>1 DEF Lookup, Quiet
    <3> QED
      BY <1>1, <2>1, <3>1, <3>2, QuietKeeps DEF Lookup, OwnShape, WorkShape
  <2>2. CASE Unlinked /\ Closing(router.open) /\ UNCHANGED <<call, file>>
    <3>1. router.open \in Owners
      BY <2>2 DEF Unlinked, RouterShape
    <3>2. /\ OwnShape' /\ RouterShape' /\ router'.open = router.open
          /\ \A p \in Owners : own'[p].state = own[p].state /\ own'[p].ended = own[p].ended
      BY <2>2, <3>1, ClosingKeeps
    <3>3. work' = work
      BY <1>1 DEF Lookup
    <3>4. Quiet
      BY <3>2, <3>3 DEF Quiet
    <3> QED
      BY <1>1, <2>2, <3>2, <3>4, QuietKeeps DEF Lookup, CallShape, WorkShape
  <2> QED
    BY <1>1, <2>1, <2>2 DEF Lookup
<1>2. CASE Open
  <2>1. PICK o \in Owners :
          /\ Forgotten(o)
          /\ own' = [own EXCEPT ![o] = Fresh]
          /\ Answer([router EXCEPT !.open = o, !.known = TRUE])
    BY <1>2 DEF Open
  <2>2. CallShape' /\ RouterShape' /\ router'.open = o
    <3> DEFINE result == [router EXCEPT !.open = o, !.known = TRUE]
    <3>1. DOMAIN result = DOMAIN router /\ result.open = o
      BY DEF RouterShape
    <3>2. Answer(result)
      BY <2>1
    <3> HIDE DEF result
    <3> QED
      BY <3>1, <3>2, AnswerKeeps
  <2>3. /\ OwnShape'
        /\ own'[o].state = "open" /\ own'[o].ended = {} /\ own[o].state = "closed"
        /\ \A p \in Owners \ {o} : own'[p] = own[p]
    BY <2>1 DEF OwnShape, OwnFields, Fresh, Forgotten
  <2>4. router.open = None /\ work' = work /\ setup' = setup
    BY <1>2 DEF Open
  <2>5. \A p \in Owners : own[p].state = "closed"
    BY <2>4, DatabasesAssumption DEF OneOwner, Alive
  <2>6. OneOwner' /\ EndedIsIdle' /\ ClosedIsQuiet'
    BY <2>2, <2>3, <2>4, <2>5 DEF OneOwner, Alive, EndedIsIdle, ClosedIsQuiet
  <2> QED
    BY <2>2, <2>3, <2>4, <2>6 DEF WorkShape
<1>3. CASE CloseOpen
  <2>1. router.open \in Owners /\ Closing(router.open)
    BY <1>3 DEF CloseOpen, RouterShape
  <2>2. /\ OwnShape' /\ RouterShape' /\ router'.open = router.open
        /\ \A p \in Owners : own'[p].state = own[p].state /\ own'[p].ended = own[p].ended
    BY <2>1, ClosingKeeps
  <2>3. Quiet
    BY <1>3, <2>2 DEF CloseOpen, Quiet
  <2> QED
    BY <1>3, <2>2, <2>3, QuietKeeps DEF CloseOpen, CallShape, WorkShape
<1>4. CASE Discard
  <2>1. \A o \in Owners : own[o].state = "closed"
    BY <1>4, DatabasesAssumption DEF Discard, CloseReturns, OneOwner, Alive
  <2>2. OneOwner' /\ EndedIsIdle' /\ ClosedIsQuiet'
    BY <1>4, <2>1 DEF Discard, OneOwner, Alive, EndedIsIdle, ClosedIsQuiet
  <2> QED
    BY <1>4, <2>2 DEF Discard, CallShape, OwnShape, WorkShape, RouterShape
<1>5. CASE Forgot \/ ShutDown
  <2>1. RouterShape' /\ router'.open = router.open
    BY <1>5 DEF Forgot, ShutDown, RouterShape
  <2>2. Quiet
    BY <1>5, <2>1 DEF Forgot, ShutDown, Quiet
  <2> QED
    BY <1>5, <2>1, <2>2, QuietKeeps DEF Forgot, ShutDown, CallShape, OwnShape, WorkShape
<1> QED
  BY <1>1, <1>2, <1>3, <1>4, <1>5 DEF Routing

(* Forgetting a site, the end of the server and the removal of the file     *)
(* touch no owner themselves: they are requests, or changes on disk.        *)
LEMMA RemovalStep ==
    ASSUME IInv, Forget \/ Shutdown \/ Remove
    PROVE  IInv'
<1> USE DEF IInv, Shape
<1>1. RouterShape' /\ router'.open = router.open
  BY DEF Forget, Shutdown, Remove, RouterShape
<1>2. Quiet
  BY <1>1 DEF Forget, Shutdown, Remove, Quiet
<1> QED
  BY <1>1, <1>2, QuietKeeps DEF Forget, Shutdown, Remove, CallShape, OwnShape, WorkShape


-----------------------------------------------------------------------------
(* Every step keeps the invariant: callers, the writer, the readers, the    *)
(* close of an owner, the router and the removal of a site.                 *)
LEMMA NextIInv == IInv /\ [Next]_vars => IInv'
<1> SUFFICES ASSUME IInv, [Next]_vars PROVE IInv'
    OBVIOUS
<1>1. CASE UNCHANGED vars
  BY <1>1 DEF vars, IInv, Shape, CallShape, OwnShape, WorkShape, RouterShape,
     OneOwner, Alive, EndedIsIdle, ClosedIsQuiet
<1>2. ASSUME NEW c \in Callers, Start(c) \/ Calling(c) \/ Disconnect(c) PROVE IInv'
  BY <1>2, CallerStep
<1>3. ASSUME NEW o \in Owners, NEW w \in Workers, Serving(o, w) PROVE IInv'
  BY <1>3, ServingStep
<1>4. ASSUME NEW o \in Owners, Writing(o) PROVE IInv'
  BY <1>4, WritingStep
<1>5. CASE Routing
  BY <1>5, RoutingStep
<1>6. CASE Forget \/ Shutdown \/ Remove
  BY <1>6, RemovalStep
<1> QED
  BY <1>1, <1>2, <1>3, <1>4, <1>5, <1>6 DEF Next

(* The invariant holds in every reachable state of the router, its owners   *)
(* and their callers (perSiteDBRouter, siteFileDatabase).                   *)
THEOREM InductiveInvariant == Spec => []IInv
BY InitIInv, NextIInv, PTL DEF Spec

(* At most one owner of the database of a site is alive, the one the router *)
(* knows, for any number of callers, readers and owners (databaseForDomain, *)
(* ForgetDomain).                                                           *)
THEOREM OneOwnerAlways == Spec => []OneOwner
<1>1. IInv => OneOwner
  BY DEF IInv
<1> QED
  BY <1>1, InductiveInvariant, PTL

(* When Close of an owner returns, none of its goroutines touches the       *)
(* database any more, nor ever will (run, finishQueuedOperations, close).   *)
THEOREM ClosedIsQuietAlways == Spec => []ClosedIsQuiet
<1>1. IInv => ClosedIsQuiet
  BY DEF IInv
<1> QED
  BY <1>1, InductiveInvariant, PTL
-----------------------------------------------------------------------------
(***************************************************************************)
(* What a caller has given up is never begun late.  The account follows    *)
(* every queued or taken operation: one that is awaited is the only one of *)
(* its caller, who waits at that owner; one that was left belongs to an    *)
(* owner that is stopping, and the router gives nobody an owner meanwhile; *)
(* one that a later change has passed is done, and will not be begun.      *)
(***************************************************************************)
Waits(c, o, kind) ==
    call[c].step = "wait" /\ call[c].owner = o /\ call[c].answer = "none" /\ call[c].kind = kind

GoodOp(o, op) ==
    /\ op \in Operations
    /\ op.ctx = "awaited" => Waits(op.of, o, op.kind)
    /\ op.ctx = "left" /\ Alive(o) => own[o].state = "stopping" /\ call[op.of].owner # o

Awaits(op, c) == op.ctx = "awaited" /\ op.of = c

Queued(o, queue) ==
    /\ own[o][queue] \in Seq(Operations)
    /\ \A i \in 1..Len(own[o][queue]) :
          LET op == own[o][queue][i] IN
          /\ GoodOp(o, op) /\ op.kind = queue
          /\ op.late /\ Alive(o) => op.ctx = "done"
          /\ op.ctx = "awaited" =>
                \A j \in 1..Len(own[o][queue]) : Awaits(own[o][queue][j], op.of) => i = j

Taken(o, w) ==
    LET op == work[o][w] IN
    op # None =>
        /\ GoodOp(o, op) /\ ~op.late
        /\ Changes(op) => w = Writer
        /\ op.ctx = "awaited" =>
              /\ \A v \in Workers \ {w} : work[o][v] # None => ~Awaits(work[o][v], op.of)
              /\ \A queue \in Kinds : \A i \in 1..Len(own[o][queue]) :
                    ~Awaits(own[o][queue][i], op.of)

CallerOK(c) ==
    /\ call[c].step \in {"ask", "asked", "submit", "wait", "rows"} => call[c].kind \in Kinds
    /\ call[c].step \in {"submit", "wait", "rows"} => call[c].owner \in Owners
    /\ call[c].step \in {"idle", "ask", "asked", "over"} => call[c].owner = None
    /\ call[c].step \in {"ask", "asked", "submit"} => call[c].answer = "none"

RouterOK ==
    /\ router.step \in {"lookup", "closing"} /\ router.for \in Callers => call[router.for].step = "asked"
    /\ \A o \in Owners : Alive(o) =>
          /\ own[o].state \in {"open", "stopping"}
          /\ own[o].closing \/ own[o].state = "stopping" => router.step = "closing"

Account ==
    /\ \A o \in Owners, queue \in Kinds : Queued(o, queue)
    /\ \A o \in Owners, w \in Workers : Taken(o, w)
    /\ \A c \in Callers : CallerOK(c)
    /\ RouterOK

(* GoodOp after a step, of an operation as it is now.                       *)
GoodNext(o, op) ==
    /\ op \in Operations
    /\ op.ctx = "awaited" =>
          /\ call'[op.of].step = "wait" /\ call'[op.of].owner = o
          /\ call'[op.of].answer = "none" /\ call'[op.of].kind = op.kind
    /\ op.ctx = "left" /\ own'[o].state # "closed" =>
          own'[o].state = "stopping" /\ call'[op.of].owner # o

(* A queue whose operations are marked stays a queue.                       *)
LEMMA MarkedQueue ==
    ASSUME NEW q \in Seq(Operations), NEW r \in [1..Len(q) -> Operations]
    PROVE  r \in Seq(Operations) /\ Len(r) = Len(q)
<1>1. Len(q) \in Nat BY LenProperties
<1>2. r \in Seq(Operations) BY <1>1, SeqDef
<1> QED BY <1>1, <1>2, LenProperties

(* No operation of a caller that does not wait is awaited.                  *)
LEMMA OnlyWaitersAwait ==
    ASSUME Account, NEW c \in Callers, call[c].step # "wait" \/ call[c].answer # "none"
    PROVE  /\ \A o \in Owners, w \in Workers : work[o][w] # None => ~Awaits(work[o][w], c)
           /\ \A o \in Owners, queue \in Kinds : \A i \in 1..Len(own[o][queue]) :
                 ~Awaits(own[o][queue][i], c)
BY DEF Account, Queued, Taken, GoodOp, Waits, Awaits

(* Before the first call nothing is queued (newPerSiteDBRouter).            *)
LEMMA InitAccount == Init => Account
<1> SUFFICES ASSUME Init PROVE Account
  OBVIOUS
<1>1. \A o \in Owners : own[o].write = <<>> /\ own[o].general = <<>> /\ own[o].rows = <<>>
  BY DEF Init, Unused, Fresh
<1>2. \A o \in Owners, queue \in Kinds : Queued(o, queue)
  <2> TAKE o \in Owners, queue \in Kinds
  <2>1. own[o][queue] = <<>> BY <1>1 DEF Kinds
  <2> QED BY <2>1, EmptySeq DEF Queued
<1>3. \A o \in Owners, w \in Workers : Taken(o, w) BY DEF Init, Taken
<1>4. \A c \in Callers : CallerOK(c) BY DEF Init, NoCall, CallerOK
<1>5. RouterOK BY DEF Init, RouterOK, Alive, Unused, Fresh
<1> QED BY <1>2, <1>3, <1>4, <1>5 DEF Account

(* A step that changes only what callers and the router know.               *)
LEMMA CallsOnly ==
    ASSUME Account, own' = own, work' = work, RouterOK', \A c \in Callers : CallerOK(c)',
           \A c \in Callers : \A o, kind : Waits(c, o, kind) => Waits(c, o, kind)',
           \/ router.step # "closing"
           \/ \A c \in Callers : call'[c].owner \in {call[c].owner, None}
    PROVE  Account'
<1>1. \A o \in Owners : Alive(o)' <=> Alive(o) BY DEF Alive
<1>2. ASSUME NEW o \in Owners, NEW op, GoodOp(o, op) PROVE GoodNext(o, op)
  <2>1. op \in Operations /\ op.of \in Callers BY <1>2 DEF GoodOp, Operations
  <2>2. op.ctx = "awaited" =>
          /\ call'[op.of].step = "wait" /\ call'[op.of].owner = o
          /\ call'[op.of].answer = "none" /\ call'[op.of].kind = op.kind
    BY <1>2, <2>1 DEF GoodOp, Waits
  <2>3. op.ctx = "left" /\ Alive(o) => own[o].state = "stopping" /\ call'[op.of].owner # o
    BY <1>2, <2>1, DatabasesAssumption DEF GoodOp, Account, RouterOK
  <2> QED BY <2>1, <2>2, <2>3 DEF GoodNext, Alive
<1>3. \A op : \A o \in Owners : GoodNext(o, op) => GoodOp(o, op)'
  BY DEF GoodOp, GoodNext, Waits, Alive
<1>4. \A o \in Owners, queue \in Kinds : Queued(o, queue)'
  BY <1>1, <1>2, <1>3 DEF Account, Queued, Awaits
<1>5. \A o \in Owners, w \in Workers : Taken(o, w)'
  BY <1>2, <1>3 DEF Account, Taken, Awaits, Changes
<1> QED BY <1>4, <1>5 DEF Account

(* A step after which a caller waits no longer and its operations are left, *)
(* at an owner that is stopping, or done.                                   *)
LEMMA CallerLeaves ==
    ASSUME IInv, Account, NEW c \in Callers, NEW ctx \in {"left", "done"}, MarkAll(c, ctx),
           RouterOK', \A d \in Callers : CallerOK(d)',
           \A d \in Callers \ {c} : call'[d] = call[d], call'[c].owner = None,
           ctx = "left" => call[c].step \in {"submit", "wait"} /\ Stopped(call[c].owner)
    PROVE  Account'
<1>0. OwnShape /\ WorkShape BY DEF IInv, Shape
<1>1. \A o \in Owners :
        /\ own'[o].state = own[o].state /\ (Alive(o)' <=> Alive(o))
        /\ \A queue \in Kinds : own'[o][queue] = InQueue(own[o][queue], c, ctx)
  BY <1>0 DEF MarkAll, OwnShape, OwnFields, Alive, Kinds
<1>2. \A o \in Owners, w \in Workers : work'[o][w] = Marked(work[o][w], c, ctx)
  BY DEF MarkAll
<1>3. ASSUME NEW op \in Operations
      PROVE  LET m == Marked(op, c, ctx) IN
             /\ m \in Operations /\ m.of = op.of /\ m.kind = op.kind /\ m.late = op.late
             /\ op.of # c => m = op
             /\ op.of = c => m.ctx \in {ctx, "done"}
             /\ op.ctx = "done" => m = op
  BY DatabasesAssumption DEF Marked, Operations
<1>4. ASSUME NEW o \in Owners, NEW op, GoodOp(o, op) PROVE GoodNext(o, Marked(op, c, ctx))
  <2> DEFINE m == Marked(op, c, ctx)
  <2> SUFFICES GoodNext(o, m) OBVIOUS
  <2>1. op \in Operations /\ op.of \in Callers BY <1>4 DEF GoodOp, Operations
  <2>3. CASE op.of # c
    <3>1. m = op /\ call'[op.of] = call[op.of] BY <1>3, <2>1, <2>3
    <3>2. op \in Operations /\ GoodOp(o, op) BY <1>4, <2>1
    <3> HIDE DEF m
    <3> QED BY <1>1, <3>1, <3>2 DEF GoodOp, GoodNext, Waits, Alive
  <2>4. CASE op.of = c
    <3>1. m \in Operations /\ m.of = c /\ m.ctx \in {ctx, "done"} BY <1>3, <2>1, <2>4
    <3>2. m.ctx = "left" /\ Alive(o) => own[o].state = "stopping"
      <4> SUFFICES ASSUME m.ctx = "left", Alive(o) PROVE own[o].state = "stopping"
        OBVIOUS
      <4>1. ctx = "left" /\ op.ctx # "done" BY <1>3, <2>1, <3>1
      <4>2. op.ctx \in {"awaited", "left"} BY <2>1, <4>1 DEF Operations
      <4>3. own[o].state \in {"open", "stopping"} BY DEF Account, RouterOK
      <4> QED BY <1>4, <2>4, <4>1, <4>2, <4>3 DEF GoodOp, Waits, Stopped
    <3>3. o # None BY DatabasesAssumption
    <3>4. m.ctx # "awaited" BY <3>1
    <3> HIDE DEF m
    <3> QED BY <1>1, <3>1, <3>2, <3>3, <3>4 DEF GoodNext, Alive
  <2> QED BY <2>3, <2>4
<1>5. ASSUME NEW o \in Owners, NEW queue \in Kinds
      PROVE  /\ Queued(o, queue)'
             /\ Len(own'[o][queue]) = Len(own[o][queue])
             /\ \A i \in 1..Len(own[o][queue]) :
                   /\ own[o][queue][i] \in Operations
                   /\ own'[o][queue][i] = Marked(own[o][queue][i], c, ctx)
  <2> DEFINE q == own[o][queue]
             r == InQueue(q, c, ctx)
  <2>1. Queued(o, queue) BY DEF Account
  <2>2. r = [i \in DOMAIN q |-> Marked(q[i], c, ctx)] /\ \A i \in 1..Len(q) : r[i] = Marked(q[i], c, ctx)
    BY <2>1 DEF InQueue, Queued
  <2>3. \A i \in 1..Len(q) : q[i] \in Operations /\ GoodOp(o, q[i])
    BY <2>1 DEF Queued, GoodOp
  <2>4. \A i \in 1..Len(q) :
          /\ r[i] \in Operations /\ r[i].of = q[i].of /\ r[i].kind = q[i].kind
          /\ r[i].late = q[i].late /\ (q[i].ctx = "done" => r[i].ctx = "done")
          /\ r[i].ctx = "awaited" => q[i].ctx = "awaited"
    <3> TAKE i \in 1..Len(q)
    <3>1. q[i] \in Operations BY <2>3
    <3> HIDE DEF r, q
    <3> QED BY <1>3, <2>2, <3>1
  <2> HIDE DEF r
  <2>5. r \in Seq(Operations) /\ Len(r) = Len(q)
    <3>1. own[o][queue] \in Seq(Operations) BY <2>1 DEF Queued
    <3>2. DOMAIN q = 1..Len(q) BY <3>1, LenProperties
    <3>3. r \in [1..Len(q) -> Operations] BY <2>2, <2>4, <3>2
    <3> QED BY <3>1, <3>3, MarkedQueue
  <2>6. \A i \in 1..Len(r) : GoodNext(o, r[i]) BY <1>4, <2>2, <2>3, <2>5
  <2>7. own'[o][queue] = r BY <1>1 DEF r
  <2>8. \A i \in 1..Len(r) : GoodOp(o, own[o][queue][i])'
    BY <2>6, <2>7 DEF GoodOp, GoodNext, Waits, Alive
  <2>9. Queued(o, queue)' BY <1>1, <2>1, <2>4, <2>5, <2>7, <2>8 DEF Queued, Awaits
  <2> QED BY <2>2, <2>3, <2>5, <2>7, <2>9
<1>6. ASSUME NEW o \in Owners, NEW w \in Workers PROVE Taken(o, w)'
  <2> DEFINE op == work[o][w]
             m  == Marked(op, c, ctx)
  <2>1. work'[o][w] = m BY <1>2
  <2> SUFFICES ASSUME m # None PROVE Taken(o, w)'
    BY <2>1 DEF Taken
  <2>2. op # None BY DEF Marked
  <2>3. op \in Operations /\ GoodOp(o, op) /\ ~op.late /\ (Changes(op) => w = Writer)
    BY <2>2 DEF Account, Taken, GoodOp
  <2>4. GoodNext(o, m) BY <1>4, <2>3
  <2>5. /\ m \in Operations /\ m.of = op.of /\ m.kind = op.kind /\ m.late = op.late
        /\ m.ctx = "awaited" => op.of # c /\ op.ctx = "awaited"
    <3> HIDE DEF m, op
    <3> QED BY <1>3, <2>3, <2>4 DEF m
  <2> HIDE DEF m
  <2>6. GoodOp(o, work[o][w])' BY <2>1, <2>4 DEF GoodOp, GoodNext, Waits, Alive
  <2>7. ASSUME m.ctx = "awaited", NEW v \in Workers \ {w}, work'[o][v] # None
        PROVE  ~Awaits(work'[o][v], m.of)
    <3> DEFINE n == work[o][v]
    <3>1. n # None /\ work'[o][v] = Marked(n, c, ctx) BY <1>2, <2>7 DEF Marked
    <3>2. n \in Operations BY <3>1 DEF Account, Taken, GoodOp
    <3>3. ~Awaits(n, op.of) BY <2>2, <2>5, <2>7, <3>1 DEF Account, Taken
    <3> HIDE DEF n, op
    <3> QED BY <1>3, <2>5, <2>7, <3>1, <3>2, <3>3 DEF Awaits
  <2>8. ASSUME m.ctx = "awaited", NEW queue \in Kinds, NEW i \in 1..Len(own'[o][queue])
        PROVE  ~Awaits(own'[o][queue][i], m.of)
    <3> DEFINE n == own[o][queue][i]
    <3>1. /\ i \in 1..Len(own[o][queue]) /\ n \in Operations
          /\ own'[o][queue][i] = Marked(n, c, ctx)
      BY <1>5, <2>8
    <3>2. ~Awaits(n, op.of) BY <2>2, <2>5, <2>8, <3>1 DEF Account, Taken
    <3> HIDE DEF n, op
    <3> QED BY <1>3, <2>5, <2>8, <3>1, <3>2 DEF Awaits
  <2> QED BY <2>1, <2>3, <2>5, <2>6, <2>7, <2>8 DEF Taken, Changes
<1> QED BY <1>5, <1>6 DEF Account

(* A caller whose owner is there sends it one operation (runOperation).     *)
LEMMA SubmitKeeps ==
    ASSUME IInv, Account, NEW c \in Callers, Submit(c)
    PROVE  Account'
<1> DEFINE o    == call[c].owner
           kind == call[c].kind
           q    == own[o][kind]
           new  == Operation(c, kind)
<1>0. OwnShape /\ CallShape BY DEF IInv, Shape
<1>1. o \in Owners /\ kind \in Kinds /\ call[c].answer = "none" /\ call[c].step = "submit"
  BY DEF Submit, At, Account, CallerOK
<1>2. /\ call'[c].step = "wait" /\ call'[c].owner = o /\ call'[c].kind = kind
      /\ call'[c].answer = "none" /\ \A d \in Callers \ {c} : call'[d] = call[d]
  BY <1>0, <1>1 DEF Submit, CallShape
<1>3. /\ \A p \in Owners : own'[p].state = own[p].state /\ own'[p].closing = own[p].closing
      /\ own'[o][kind] = Append(q, new)
      /\ \A p \in Owners, k \in Kinds : <<p, k>> # <<o, kind>> => own'[p][k] = own[p][k]
  BY <1>0, <1>1 DEF Submit, OwnShape, OwnFields, Kinds
<1>4. q \in Seq(Operations) BY <1>1 DEF Account, Queued
<1>5. new \in Operations /\ new.of = c /\ new.kind = kind /\ new.ctx = "awaited" /\ new.late = FALSE
  BY <1>1 DEF Operation, Operations
<1>6. ASSUME NEW p \in Owners, NEW op, GoodOp(p, op) PROVE GoodNext(p, op)
  <2>1. op \in Operations /\ op.of \in Callers BY <1>6 DEF GoodOp, Operations
  <2>2. call'[op.of].owner = call[op.of].owner BY <1>2, <2>1
  <2>3. op.ctx = "awaited" => call'[op.of] = call[op.of] BY <1>1, <1>2, <1>6, <2>1 DEF GoodOp, Waits
  <2> QED BY <1>3, <1>6, <2>1, <2>2, <2>3 DEF GoodOp, GoodNext, Waits, Alive
<1>7. /\ \A p \in Owners, w \in Workers : work[p][w] # None => ~Awaits(work[p][w], c)
      /\ \A p \in Owners, k \in Kinds : \A i \in 1..Len(own[p][k]) : ~Awaits(own[p][k][i], c)
  BY <1>1, OnlyWaitersAwait
<1>8. \A p \in Owners : Alive(p)' <=> Alive(p) BY <1>3 DEF Alive
<1> HIDE DEF new, q
<1>9. ASSUME NEW p \in Owners, NEW k \in Kinds PROVE Queued(p, k)'
  <2>1. Queued(p, k) BY DEF Account
  <2>2. CASE <<p, k>> # <<o, kind>>
    <3>1. own'[p][k] = own[p][k] BY <1>3, <2>2
    <3>2. \A i \in 1..Len(own[p][k]) : GoodOp(p, own[p][k][i])'
      BY <1>6, <2>1, <3>1 DEF Queued, GoodNext, GoodOp, Waits, Alive
    <3> QED BY <1>8, <2>1, <3>1, <3>2 DEF Queued, Awaits
  <2>3. CASE p = o /\ k = kind
    <3> DEFINE r == Append(q, new)
    <3>1. own'[p][k] = r /\ own[p][k] = q BY <1>3, <2>3 DEF q
    <3>2. /\ r \in Seq(Operations) /\ Len(r) = Len(q) + 1 /\ r[Len(q) + 1] = new
          /\ \A i \in 1..Len(q) : r[i] = q[i]
      BY <1>4, <1>5
    <3>3. \A i \in 1..Len(q) : ~Awaits(q[i], c) BY <1>7, <2>3, <3>1
    <3>4. Len(q) \in Nat BY <1>4
    <3> HIDE DEF r
    <3>5. GoodNext(p, new) BY <1>2, <1>5, <2>3 DEF GoodNext
    <3>6. \A i \in 1..Len(q) : GoodNext(p, q[i]) BY <1>6, <2>1, <3>1 DEF Queued
    <3>7. ASSUME NEW i \in 1..Len(r)
          PROVE  /\ GoodNext(p, r[i]) /\ r[i].kind = k
                 /\ r[i].late /\ Alive(p) => r[i].ctx = "done"
                 /\ r[i].ctx = "awaited" => \A j \in 1..Len(r) : Awaits(r[j], r[i].of) => i = j
      <4>1. i \in 1..Len(q) \/ i = Len(q) + 1 BY <3>2, <3>4
      <4>2. CASE i \in 1..Len(q)
        <5>1. r[i] = q[i] /\ q[i].kind = k /\ (q[i].late /\ Alive(p) => q[i].ctx = "done")
          BY <2>1, <3>1, <3>2, <4>2 DEF Queued
        <5>2. q[i].ctx = "awaited" => \A j \in 1..Len(q) : Awaits(q[j], q[i].of) => i = j
          BY <2>1, <3>1, <4>2 DEF Queued
        <5>3. q[i].ctx = "awaited" => ~Awaits(new, q[i].of)
          BY <1>5, <3>3, <4>2 DEF Awaits
        <5> QED BY <3>2, <3>4, <3>6, <4>2, <5>1, <5>2, <5>3
      <4>3. CASE i = Len(q) + 1
        <5>1. \A j \in 1..Len(r) : Awaits(r[j], c) => j = i BY <3>2, <3>3, <3>4, <4>3
        <5> QED BY <1>5, <2>3, <3>2, <3>5, <4>3, <5>1
      <4> QED BY <4>1, <4>2, <4>3
    <3> QED BY <1>8, <3>1, <3>2, <3>7 DEF Queued, GoodOp, GoodNext, Waits, Awaits, Alive
  <2> QED BY <2>2, <2>3
<1>10. ASSUME NEW p \in Owners, NEW w \in Workers PROVE Taken(p, w)'
  <2>1. work' = work BY DEF Submit
  <2> SUFFICES ASSUME work[p][w] # None PROVE Taken(p, w)'
    BY <2>1 DEF Taken
  <2> DEFINE op == work[p][w]
  <2>2. Taken(p, w) /\ GoodOp(p, op) /\ op \in Operations BY DEF Account, Taken, GoodOp
  <2>3. GoodNext(p, op) BY <1>6, <2>2
  <2>4. op.of # c \/ op.ctx # "awaited" BY <1>7 DEF Awaits
  <2>5. ASSUME op.ctx = "awaited", NEW k \in Kinds, NEW i \in 1..Len(own'[p][k])
        PROVE  ~Awaits(own'[p][k][i], op.of)
    <3>1. \A j \in 1..Len(own[p][k]) : ~Awaits(own[p][k][j], op.of)
      BY <2>2, <2>5 DEF Taken
    <3>2. CASE <<p, k>> # <<o, kind>>
      BY <1>3, <2>5, <3>1, <3>2
    <3>3. CASE p = o /\ k = kind
      <4>1. own'[p][k] = Append(q, new) /\ own[p][k] = q BY <1>3, <3>3 DEF q
      <4>2. (i \in 1..Len(q) /\ own'[p][k][i] = q[i]) \/ own'[p][k][i] = new
        BY <1>4, <1>5, <2>5, <4>1
      <4> QED BY <1>5, <2>4, <2>5, <3>1, <4>1, <4>2 DEF Awaits
    <3> QED BY <3>2, <3>3
  <2>6. GoodOp(p, work[p][w])' BY <2>1, <2>3 DEF GoodOp, GoodNext, Waits, Alive
  <2> QED BY <2>1, <2>2, <2>5, <2>6 DEF Taken, Changes
<1>11. ASSUME NEW d \in Callers PROVE CallerOK(d)'
  BY <1>1, <1>2 DEF Account, CallerOK
<1>12. RouterOK'
  <2>1. router' = router BY DEF Submit
  <2>2. router.step \in {"lookup", "closing"} => router.for # c BY <1>1 DEF Account, RouterOK
  <2> QED BY <1>2, <1>3, <1>8, <2>1, <2>2 DEF Account, RouterOK
<1> QED BY <1>9, <1>10, <1>11, <1>12 DEF Account

(* A goroutine takes the oldest operation of a queue, unless it is done     *)
(* (nextOperation, runReader, finishQueuedOperations).                      *)
LEMMA TakeKeeps ==
    ASSUME IInv, Account, NEW o \in Owners, NEW w \in Workers, NEW queue \in Kinds,
           Alive(o), own[o][queue] # <<>>, work[o][w] = None, queue # "rows" => w = Writer,
           work' = [work EXCEPT ![o][w] = Begun(Head(own[o][queue]))],
           own'[o][queue] = Tail(own[o][queue]),
           \A p \in Owners, k \in Kinds : <<p, k>> # <<o, queue>> => own'[p][k] = own[p][k],
           \A p \in Owners : own'[p].state = own[p].state /\ own'[p].closing = own[p].closing,
           call' = call, router' = router
    PROVE  Account'
<1> DEFINE q == own[o][queue]
           h == Head(q)
           t == Tail(q)
<1>0. WorkShape BY DEF IInv, Shape
<1>1. Queued(o, queue) /\ q \in Seq(Operations) /\ q # <<>> BY DEF Account, Queued
<1>2. /\ t \in Seq(Operations) /\ Len(t) + 1 = Len(q) /\ Len(q) \in Nat \ {0} /\ h = q[1]
      /\ \A i \in 1..Len(t) : t[i] = q[i + 1] /\ i + 1 \in 1..Len(q)
  BY <1>1
<1>3. \A p \in Owners : Alive(p)' <=> Alive(p) BY DEF Alive
<1>4. \A p \in Owners : \A op : GoodOp(p, op) => GoodNext(p, op)
  BY DEF GoodOp, GoodNext, Waits, Alive
<1>5. own'[o][queue] = t OBVIOUS
<1>6. \A p \in Owners, v \in Workers : <<p, v>> # <<o, w>> => work'[p][v] = work[p][v]
  BY <1>0 DEF WorkShape
<1>7. work'[o][w] = Begun(h) BY <1>0 DEF WorkShape
<1>8. h \in Operations /\ GoodOp(o, h) /\ h.kind = queue /\ (h.late => h.ctx = "done")
  BY <1>1, <1>2 DEF Queued, GoodOp
<1>9. h.ctx = "awaited" => \A i \in 1..Len(t) : ~Awaits(t[i], h.of)
  <2> SUFFICES ASSUME h.ctx = "awaited", NEW i \in 1..Len(t), Awaits(t[i], h.of) PROVE FALSE
    OBVIOUS
  <2>1. i + 1 \in 1..Len(q) /\ Awaits(q[i + 1], q[1].of) /\ 1 \in 1..Len(q) BY <1>2
  <2>2. 1 = i + 1 BY <1>1, <1>2, <2>1 DEF Queued
  <2> QED BY <1>2, <2>2
<1> HIDE DEF h, t
<1>10. ASSUME NEW p \in Owners, NEW k \in Kinds PROVE Queued(p, k)'
  <2>1. Queued(p, k) BY DEF Account
  <2>2. CASE <<p, k>> # <<o, queue>>
    <3>1. own'[p][k] = own[p][k] BY <2>2
    <3>2. \A i \in 1..Len(own[p][k]) : GoodOp(p, own[p][k][i])'
      BY <1>4, <2>1, <3>1 DEF Queued, GoodNext, GoodOp, Waits, Alive
    <3> QED BY <1>3, <2>1, <3>1, <3>2 DEF Queued, Awaits
  <2>3. CASE p = o /\ k = queue
    <3>1. own'[p][k] = t BY <1>5, <2>3
    <3>2. ASSUME NEW i \in 1..Len(t)
          PROVE  /\ GoodNext(p, t[i]) /\ t[i].kind = k
                 /\ t[i].late /\ Alive(p) => t[i].ctx = "done"
                 /\ t[i].ctx = "awaited" => \A j \in 1..Len(t) : Awaits(t[j], t[i].of) => i = j
      <4>1. t[i] = q[i + 1] /\ i + 1 \in 1..Len(q) /\ i \in Nat BY <1>2
      <4>2. /\ GoodOp(p, t[i]) /\ t[i].kind = k
            /\ t[i].late /\ Alive(p) => t[i].ctx = "done"
            /\ t[i].ctx = "awaited" =>
                 \A j \in 1..Len(q) : Awaits(q[j], t[i].of) => i + 1 = j
        BY <1>1, <2>3, <4>1 DEF Queued
      <4>3. \A j \in 1..Len(t) : t[j] = q[j + 1] /\ j + 1 \in 1..Len(q) /\ j \in Nat BY <1>2
      <4> QED BY <1>4, <4>1, <4>2, <4>3
    <3> QED BY <1>2, <1>3, <3>1, <3>2 DEF Queued, GoodOp, GoodNext, Waits, Awaits, Alive
  <2> QED BY <2>2, <2>3
<1>11. \A p \in Owners, k \in Kinds, c \in Callers :
         (\A i \in 1..Len(own[p][k]) : ~Awaits(own[p][k][i], c))
            => (\A i \in 1..Len(own'[p][k]) : ~Awaits(own'[p][k][i], c))
  <2> SUFFICES ASSUME NEW p \in Owners, NEW k \in Kinds, NEW c \in Callers,
                      \A i \in 1..Len(own[p][k]) : ~Awaits(own[p][k][i], c),
                      NEW i \in 1..Len(own'[p][k])
               PROVE  ~Awaits(own'[p][k][i], c)
    OBVIOUS
  <2>1. CASE <<p, k>> # <<o, queue>> BY <2>1
  <2>2. CASE p = o /\ k = queue
    <3>1. i \in 1..Len(t) /\ own'[p][k][i] = t[i] BY <1>5, <2>2
    <3> QED BY <1>2, <2>2, <3>1
  <2> QED BY <2>1, <2>2
<1>12. ASSUME NEW p \in Owners, NEW v \in Workers PROVE Taken(p, v)'
  <2> SUFFICES ASSUME work'[p][v] # None PROVE Taken(p, v)'
    BY DEF Taken
  <2> DEFINE n == work'[p][v]
  <2>1. CASE <<p, v>> # <<o, w>>
    <3>1. n = work[p][v] /\ Taken(p, v) /\ n \in Operations /\ GoodOp(p, n) /\ n.of \in Callers
      BY <1>6, <2>1 DEF Account, Taken, GoodOp, Operations
    <3>2. GoodOp(p, work[p][v])' BY <1>4, <3>1 DEF GoodOp, GoodNext, Waits, Alive
    <3>3. ASSUME n.ctx = "awaited", NEW u \in Workers \ {v}, work'[p][u] # None
          PROVE  ~Awaits(work'[p][u], n.of)
      <4>1. CASE <<p, u>> # <<o, w>> BY <1>6, <3>1, <3>3, <4>1 DEF Taken
      <4>2. CASE p = o /\ u = w
        <5>1. work'[p][u] = h BY <1>7, <3>3, <4>2 DEF Begun
        <5>2. ~Awaits(q[1], n.of) BY <1>2, <3>1, <3>3, <4>2 DEF Taken
        <5> QED BY <1>2, <5>1, <5>2
      <4> QED BY <4>1, <4>2
    <3>4. n.ctx = "awaited" =>
            \A k \in Kinds : \A i \in 1..Len(own'[p][k]) : ~Awaits(own'[p][k][i], n.of)
      BY <1>11, <3>1 DEF Taken
    <3> QED BY <3>1, <3>2, <3>3, <3>4 DEF Taken, Changes
  <2>2. CASE p = o /\ v = w
    <3>1. n = h /\ h.ctx # "done" BY <1>7, <2>2 DEF Begun
    <3>2. GoodOp(p, work[p][v])' BY <1>4, <1>8, <2>2, <3>1 DEF GoodOp, GoodNext, Waits, Alive
    <3>3. ~h.late /\ (Changes(h) => w = Writer) BY <1>8, <3>1 DEF Changes, Operations, Kinds
    <3>4. ASSUME n.ctx = "awaited", NEW u \in Workers \ {v}, work'[p][u] # None
          PROVE  ~Awaits(work'[p][u], n.of)
      <4>1. work'[p][u] = work[p][u] /\ Taken(p, u) BY <1>6, <2>2, <3>4 DEF Account
      <4>2. work[p][u].ctx = "awaited" => ~Awaits(q[1], work[p][u].of)
        BY <1>2, <2>2, <3>4, <4>1 DEF Taken
      <4> QED BY <1>2, <3>1, <3>4, <4>1, <4>2 DEF Awaits
    <3>5. ASSUME n.ctx = "awaited", NEW k \in Kinds, NEW i \in 1..Len(own'[p][k])
          PROVE  ~Awaits(own'[p][k][i], n.of)
      <4>1. CASE k = queue BY <1>5, <1>9, <2>2, <3>1, <3>5, <4>1
      <4>2. CASE k # queue
        <5>1. own'[p][k][i] = own[p][k][i] /\ i \in 1..Len(own[p][k]) /\ Queued(p, k)
          BY <2>2, <3>5, <4>2 DEF Account
        <5>2. own[p][k][i].kind = k /\ GoodOp(p, own[p][k][i]) BY <5>1 DEF Queued
        <5>3. h.kind = queue /\ (Awaits(own[p][k][i], h.of) => call[h.of].kind = k)
          BY <1>8, <5>2 DEF GoodOp, Waits, Awaits
        <5>4. call[h.of].kind = queue BY <1>8, <3>1, <3>5 DEF GoodOp, Waits
        <5> QED BY <3>1, <4>2, <5>1, <5>3, <5>4
      <4> QED BY <4>1, <4>2
    <3> QED BY <2>2, <3>1, <3>2, <3>3, <3>4, <3>5 DEF Taken, Changes
  <2> QED BY <2>1, <2>2
<1>13. \A c \in Callers : CallerOK(c)' BY DEF Account, CallerOK
<1>14. RouterOK' BY <1>3 DEF Account, RouterOK
<1> QED BY <1>10, <1>12, <1>13, <1>14 DEF Account

(* An operation is done: what its caller gave up before is late from now    *)
(* on, and was done with already (completeOperation).                       *)
LEMMA RunAccount ==
    ASSUME IInv, Account, NEW o \in Owners, NEW w \in Workers, Run(o, w)
    PROVE  Account'
<1> DEFINE op == work[o][w]
<1>0. CallShape /\ OwnShape /\ WorkShape BY DEF IInv, Shape
<1>1. /\ op # None /\ Taken(o, w) /\ op \in Operations /\ GoodOp(o, op) /\ op.of \in Callers
      /\ Changes(op) => w = Writer
  BY DEF Run, Account, Taken, GoodOp, Operations
<1>2. Alive(o) BY <1>1 DEF IInv, ClosedIsQuiet, Alive
<1>3. \A p \in Owners : Alive(p) => p = o BY <1>2 DEF IInv, OneOwner
<1>4. router' = router BY DEF Run
<1>5. /\ \A d \in Callers : /\ call'[d].step = call[d].step /\ call'[d].owner = call[d].owner
                            /\ call'[d].kind = call[d].kind
      /\ \A d \in Callers : d # op.of \/ op.ctx # "awaited" => call'[d] = call[d]
  BY <1>0, <1>1 DEF Run, CallShape
<1>6. op.ctx = "awaited" => call[op.of].step = "wait" /\ call[op.of].owner = o
  BY <1>1 DEF GoodOp, Waits
<1>7. ASSUME op.ctx = "awaited"
      PROVE  /\ \A p \in Owners, v \in Workers :
                   <<p, v>> # <<o, w>> /\ work[p][v] # None => ~Awaits(work[p][v], op.of)
             /\ \A p \in Owners, k \in Kinds : \A i \in 1..Len(own[p][k]) :
                   ~Awaits(own[p][k][i], op.of)
  <2>1. \A x : \A p \in Owners : GoodOp(p, x) /\ Awaits(x, op.of) => p = o
    BY <1>6, <1>7 DEF GoodOp, Waits, Awaits
  <2>2. \A v \in Workers \ {w} : work[o][v] # None => ~Awaits(work[o][v], op.of)
    BY <1>1, <1>7 DEF Taken
  <2>3. \A k \in Kinds : \A i \in 1..Len(own[o][k]) : ~Awaits(own[o][k][i], op.of)
    BY <1>1, <1>7 DEF Taken
  <2> HIDE DEF op
  <2>4. \A p \in Owners, v \in Workers : work[p][v] # None => GoodOp(p, work[p][v])
    BY DEF Account, Taken
  <2>5. \A p \in Owners, k \in Kinds : \A i \in 1..Len(own[p][k]) : GoodOp(p, own[p][k][i])
    BY DEF Account, Queued
  <2> QED BY <2>1, <2>2, <2>3, <2>4, <2>5
<1>8. ASSUME NEW x \in Operations
      PROVE  LET y == Passed(x, op) IN
             /\ y \in Operations /\ y.of = x.of /\ y.kind = x.kind /\ y.ctx = x.ctx
             /\ ~(op.ctx = "awaited" /\ x.of = op.of /\ Changes(x)) => y = x
  BY DEF Passed, Operations
<1>9. \A p \in Owners :
        /\ own'[p].state = own[p].state /\ own'[p].closing = own[p].closing
        /\ \A k \in Kinds : own'[p][k] \in {own[p][k], PassedIn(own[p][k], op)}
  <2>1. CASE own' = [p \in Owners |-> [own[p] EXCEPT !.write = PassedIn(@, op),
                                                     !.general = PassedIn(@, op)]]
    BY <1>0, <2>1 DEF OwnShape, OwnFields, Kinds
  <2>2. CASE own' = own BY <2>2
  <2> QED BY <2>1, <2>2 DEF Run
<1>10. \A p \in Owners, v \in Workers : work'[p][v] # None =>
          <<p, v>> # <<o, w>> /\ work'[p][v] = work[p][v]
  <2>1. CASE /\ Changes(op)
             /\ work' = [p \in Owners |-> [v \in Workers |->
                           IF <<p, v>> = <<o, w>> THEN None ELSE Passed(work[p][v], op)]]
    <3> SUFFICES ASSUME NEW p \in Owners, NEW v \in Workers, work'[p][v] # None
                 PROVE  <<p, v>> # <<o, w>> /\ work'[p][v] = work[p][v]
      OBVIOUS
    <3> DEFINE x == work[p][v]
    <3>1. <<p, v>> # <<o, w>> /\ work'[p][v] = Passed(x, op) BY <2>1
    <3>2. x # None BY <3>1 DEF Passed
    <3>3. p = o BY <1>3, <3>2 DEF IInv, ClosedIsQuiet, Alive
    <3>4. x \in Operations /\ (Changes(x) => v = Writer)
      BY <3>2 DEF Account, Taken, GoodOp
    <3>5. ~Changes(x) BY <1>1, <2>1, <3>1, <3>3, <3>4
    <3> HIDE DEF x, op
    <3> QED BY <3>1, <3>5 DEF Passed, x
  <2>2. CASE work' = [work EXCEPT ![o][w] = None] BY <1>0, <2>2 DEF WorkShape
  <2> QED BY <2>1, <2>2 DEF Run
<1>11. \A p \in Owners : Alive(p)' <=> Alive(p) BY <1>9 DEF Alive
<1>12. ASSUME NEW p \in Owners, NEW x, GoodOp(p, x), ~(op.ctx = "awaited" /\ Awaits(x, op.of)),
              NEW y \in Operations, y.of = x.of, y.kind = x.kind, y.ctx = x.ctx
       PROVE  GoodNext(p, y)
  <2>1. x.of \in Callers BY <1>12 DEF GoodOp, Operations
  <2>2. x.ctx = "awaited" => call'[x.of] = call[x.of] BY <1>5, <1>12, <2>1 DEF Awaits
  <2> HIDE DEF op
  <2> QED BY <1>5, <1>9, <1>12, <2>1, <2>2 DEF GoodOp, GoodNext, Waits, Alive
<1>13. ASSUME NEW p \in Owners, NEW k \in Kinds
       PROVE  /\ Len(own'[p][k]) = Len(own[p][k]) /\ own'[p][k] \in Seq(Operations)
              /\ \A i \in 1..Len(own[p][k]) :
                    own'[p][k][i] \in {own[p][k][i], Passed(own[p][k][i], op)}
  <2> DEFINE q == own[p][k]
             r == PassedIn(q, op)
  <2>1. q \in Seq(Operations) BY DEF Account, Queued
  <2>2. DOMAIN q = 1..Len(q) /\ \A i \in 1..Len(q) : q[i] \in Operations
    BY <2>1, LenProperties
  <2>3. r = [i \in DOMAIN q |-> Passed(q[i], op)] BY DEF PassedIn
  <2> HIDE DEF r, q
  <2>4. r \in [1..Len(q) -> Operations] BY <1>8, <2>2, <2>3
  <2>5. r \in Seq(Operations) /\ Len(r) = Len(q) BY <2>1, <2>4, MarkedQueue
  <2>6. \A i \in 1..Len(q) : r[i] = Passed(q[i], op) BY <2>2, <2>3
  <2>7. own'[p][k] \in {q, r} BY <1>9 DEF q, r
  <2> QED BY <2>1, <2>5, <2>6, <2>7 DEF q
<1>14. ASSUME NEW p \in Owners, NEW k \in Kinds, NEW i \in 1..Len(own[p][k])
       PROVE  LET x == own[p][k][i]
                  y == own'[p][k][i]
              IN /\ y.of = x.of /\ y.kind = x.kind /\ y.ctx = x.ctx /\ GoodNext(p, y)
                 /\ y.late /\ Alive(p) => y.ctx = "done"
  <2> DEFINE x == own[p][k][i]
             y == own'[p][k][i]
  <2>1. GoodOp(p, x) /\ x \in Operations /\ (x.late /\ Alive(p) => x.ctx = "done")
    BY DEF Account, Queued, GoodOp
  <2>2. ~(op.ctx = "awaited" /\ Awaits(x, op.of)) BY <1>7
  <2>3. y \in {x, Passed(x, op)} BY <1>13
  <2> HIDE DEF x, y
  <2>4. y \in Operations /\ y.of = x.of /\ y.kind = x.kind /\ y.ctx = x.ctx
    BY <1>8, <2>1, <2>3
  <2>5. GoodNext(p, y) BY <1>12, <2>1, <2>2, <2>4
  <2>6. CASE y = x BY <2>1, <2>4, <2>5, <2>6 DEF x, y
  <2>7. CASE y # x
    <3>1. op.ctx = "awaited" /\ x.of = op.of BY <1>8, <2>1, <2>3, <2>7
    <3>2. x.ctx # "awaited" BY <2>2, <3>1 DEF Awaits
    <3>3. x.ctx = "left" /\ Alive(p) => call[op.of].owner # p BY <2>1, <3>1 DEF GoodOp
    <3>4. Alive(p) => x.ctx = "done" BY <1>3, <1>6, <2>1, <3>1, <3>2, <3>3 DEF Operations
    <3> QED BY <2>4, <2>5, <3>4 DEF x, y
  <2> QED BY <2>6, <2>7
<1>15. ASSUME NEW p \in Owners, NEW k \in Kinds PROVE Queued(p, k)'
  <2>1. Queued(p, k) BY DEF Account
  <2>2. \A i \in 1..Len(own'[p][k]) : GoodOp(p, own[p][k][i])'
    BY <1>13, <1>14 DEF GoodOp, GoodNext, Waits, Alive
  <2> DEFINE q == own[p][k]
             r == own'[p][k]
  <2>3. Len(r) = Len(q) /\ r \in Seq(Operations) BY <1>13
  <2>4. \A i \in 1..Len(q) : /\ r[i].of = q[i].of /\ r[i].kind = q[i].kind /\ r[i].ctx = q[i].ctx
                             /\ r[i].late /\ Alive(p) => r[i].ctx = "done"
    BY <1>14
  <2>5. \A i \in 1..Len(q) :
          /\ q[i].kind = k
          /\ q[i].ctx = "awaited" => \A j \in 1..Len(q) : Awaits(q[j], q[i].of) => i = j
    BY <2>1 DEF Queued
  <2>6. \A i \in 1..Len(q) :
          r[i].ctx = "awaited" => \A j \in 1..Len(q) : Awaits(r[j], r[i].of) => i = j
    <3> HIDE DEF r, q
    <3>1. \A i \in 1..Len(q) : r[i].of = q[i].of /\ r[i].ctx = q[i].ctx BY <2>4
    <3>2. \A i \in 1..Len(q) :
            q[i].ctx = "awaited" => \A j \in 1..Len(q) : Awaits(q[j], q[i].of) => i = j
      BY <2>5
    <3> QED BY <3>1, <3>2 DEF Awaits
  <2>7. \A i \in 1..Len(r) : r[i].kind = k /\ (r[i].late /\ Alive(p) => r[i].ctx = "done")
    BY <2>3, <2>4, <2>5
  <2> QED BY <1>11, <2>2, <2>3, <2>6, <2>7 DEF Queued, Awaits
<1>16. ASSUME NEW p \in Owners, NEW v \in Workers PROVE Taken(p, v)'
  <2> SUFFICES ASSUME work'[p][v] # None PROVE Taken(p, v)'
    BY DEF Taken
  <2> DEFINE x == work[p][v]
  <2>1. work'[p][v] = x /\ x # None /\ <<p, v>> # <<o, w>> BY <1>10
  <2>2. Taken(p, v) /\ GoodOp(p, x) /\ x \in Operations BY <2>1 DEF Account, Taken, GoodOp
  <2>3. ~(op.ctx = "awaited" /\ Awaits(x, op.of)) BY <1>7, <2>1
  <2>4. GoodNext(p, x) BY <1>12, <2>2, <2>3
  <2>5. GoodOp(p, work[p][v])' BY <2>1, <2>4 DEF GoodOp, GoodNext, Waits, Alive
  <2>6. x.ctx = "awaited" =>
          /\ \A u \in Workers \ {v} : work'[p][u] # None => ~Awaits(work'[p][u], x.of)
          /\ \A k \in Kinds : \A i \in 1..Len(own'[p][k]) : ~Awaits(own'[p][k][i], x.of)
    BY <1>10, <1>13, <1>14, <2>1, <2>2 DEF Taken, Awaits
  <2> QED BY <2>1, <2>2, <2>5, <2>6 DEF Taken, Changes
<1>17. \A c \in Callers : CallerOK(c)'
  BY <1>5, <1>6 DEF Account, CallerOK
<1>18. RouterOK' BY <1>4, <1>5, <1>9, <1>11 DEF Account, RouterOK
<1> QED BY <1>15, <1>16, <1>17, <1>18 DEF Account

(* Callers ask, wait, read and leave (runOperation).                        *)
LEMMA CallerAccount ==
    ASSUME IInv, Account, NEW c \in Callers, Start(c) \/ Calling(c) \/ Disconnect(c)
    PROVE  Account'
<1>0. CallShape BY DEF IInv, Shape
<1>1. CallerOK(c) /\ RouterOK BY DEF Account
<1>2. ASSUME \A d \in Callers \ {c} : call'[d] = call[d], CallerOK(c)'
      PROVE  \A d \in Callers : CallerOK(d)'
  <2>1. \A d \in Callers \ {c} : CallerOK(d)' BY <1>2 DEF Account, CallerOK
  <2> QED BY <1>2, <2>1
<1>3. \A d \in Callers \ {c} : call'[d] = call[d]
  BY <1>0 DEF CallShape, Start, Calling, Disconnect, Ask, Submit, Refused, Receive, CloseRows, Return
<1>4. CASE Start(c)
  <2>1. CallerOK(c)'
    <3>1. PICK kind \in setup.kinds[c] :
            call' = [call EXCEPT ![c] = [NoCall EXCEPT !.step = "ask", !.kind = kind]]
      BY <1>4 DEF Start
    <3>2. kind \in Kinds
      <4>1. setup.kinds \in [Callers -> SUBSET Kinds] BY DEF IInv, Shape, Setup
      <4> QED BY <4>1
    <3> QED BY <1>0, <3>1, <3>2 DEF CallShape, NoCall, CallerOK
  <2>2. call[c].step = "idle" /\ own' = own /\ work' = work /\ router' = router
    BY <1>4 DEF Start, At
  <2>3. RouterOK' BY <1>1, <1>3, <2>2 DEF RouterOK, Alive
  <2>4. call'[c].owner = None BY <1>0, <1>4 DEF Start, CallShape, NoCall
  <2>5. \A d \in Callers : \A o, kind : Waits(d, o, kind) => Waits(d, o, kind)'
    BY <1>3, <2>2 DEF Waits
  <2> QED BY <1>2, <1>3, <2>1, <2>2, <2>3, <2>4, <2>5, CallsOnly
<1>5. CASE Ask(c)
  <2>1. call[c].step = "ask" /\ own' = own /\ work' = work BY <1>5 DEF Ask, At
  <2>2. CallerOK(c)' /\ call'[c].owner = None
    BY <1>0, <1>1, <1>5, <2>1 DEF Ask, CallShape, Over, NoCall, CallerOK
  <2>3. RouterOK'
    <3>1. CASE router.step = "idle" /\ router' = [router EXCEPT !.step = "lookup", !.for = c]
               /\ call' = [call EXCEPT ![c].step = "asked"]
      <4>1. router'.step = "lookup" /\ router'.for = c BY <3>1 DEF IInv, Shape, RouterShape
      <4>2. call'[c].step = "asked" BY <1>0, <3>1 DEF CallShape
      <4> QED BY <1>1, <2>1, <3>1, <4>1, <4>2 DEF RouterOK, Alive
    <3>2. CASE router.step = "stopped" /\ router' = router
      BY <1>1, <2>1, <3>2 DEF RouterOK, Alive
    <3> QED BY <1>5, <3>1, <3>2 DEF Ask
  <2>4. \A d \in Callers : \A o, kind : Waits(d, o, kind) => Waits(d, o, kind)'
    BY <1>3, <2>1 DEF Waits
  <2> QED BY <1>2, <1>3, <2>1, <2>2, <2>3, <2>4, CallsOnly
<1>6. CASE Submit(c) BY <1>6, SubmitKeeps
<1>7. ASSUME Receive(c) \/ CloseRows(c) PROVE Account'
  <2>1. /\ own' = own /\ work' = work /\ router' = router
        /\ call[c].step \in {"wait", "rows"} /\ (call[c].step = "wait" => call[c].answer # "none")
    BY <1>7 DEF Receive, CloseRows, At
  <2>2. CallerOK(c)' /\ call'[c].owner \in {call[c].owner, None}
    BY <1>0, <1>1, <1>7, <2>1 DEF Receive, CloseRows, CallShape, Over, NoCall, CallerOK
  <2>3. RouterOK' BY <1>1, <1>3, <2>1 DEF RouterOK, Alive
  <2>4. \A d \in Callers : \A o, kind : Waits(d, o, kind) => Waits(d, o, kind)'
    BY <1>3, <2>1 DEF Waits
  <2> QED BY <1>2, <1>3, <2>1, <2>2, <2>3, <2>4, CallsOnly
<1>8. ASSUME NEW ctx \in {"left", "done"}, MarkAll(c, ctx), CallerOK(c)', call'[c].owner = None,
             router'.step = router.step, router'.for \in {router.for, "nobody"},
             router'.for = c => call[c].step # "asked",
             ctx = "left" => call[c].step \in {"submit", "wait"} /\ Stopped(call[c].owner)
      PROVE  Account'
  <2>1. \A o \in Owners : own'[o].state = own[o].state /\ own'[o].closing = own[o].closing
    BY <1>8 DEF IInv, Shape, OwnShape, OwnFields, MarkAll
  <2>2. RouterOK'
    <3>1. \A o \in Owners : Alive(o)' <=> Alive(o) BY <2>1 DEF Alive
    <3> QED BY <1>1, <1>3, <1>8, <2>1, <3>1, DatabasesAssumption DEF RouterOK
  <2> QED BY <1>2, <1>3, <1>8, <2>2, CallerLeaves
<1>9. CASE Refused(c)
  <2>1. call[c].step \in {"submit", "wait"} /\ router' = router BY <1>9 DEF Refused, At
  <2>2. CallerOK(c)' /\ call'[c].owner = None
    BY <1>0, <1>9 DEF Refused, CallShape, Over, NoCall, CallerOK
  <2> QED BY <1>8, <1>9, <2>1, <2>2 DEF Refused
<1>10. CASE Return(c)
  <2>1. call[c].step = "over" /\ router' = router BY <1>10 DEF Return, At
  <2>2. CallerOK(c)' /\ call'[c].owner = None
    BY <1>0, <1>10 DEF Return, CallShape, NoCall, CallerOK
  <2>3. CASE MarkAll(c, "done") BY <1>8, <2>1, <2>2, <2>3
  <2>4. CASE own' = own /\ work' = work
    <3>1. RouterOK' BY <1>1, <1>3, <2>1, <2>4 DEF RouterOK, Alive
    <3>2. \A d \in Callers : \A o, kind : Waits(d, o, kind) => Waits(d, o, kind)'
      BY <1>3, <2>1 DEF Waits
    <3> QED BY <1>2, <1>3, <2>2, <2>4, <3>1, <3>2, CallsOnly
  <2> QED BY <1>10, <2>3, <2>4 DEF Return
<1>11. CASE Disconnect(c)
  <2>1. CallerOK(c)' /\ call'[c].owner = None
    BY <1>0, <1>11 DEF Disconnect, CallShape, NoCall, CallerOK
  <2>2. /\ router'.step = router.step /\ router'.for \in {router.for, "nobody"} /\ router'.for # c
    BY <1>11, DatabasesAssumption DEF Disconnect, IInv, Shape, RouterShape
  <2> QED BY <1>8, <1>11, <2>1, <2>2 DEF Disconnect
<1> QED BY <1>4, <1>5, <1>6, <1>7, <1>9, <1>10, <1>11 DEF Calling

(* The goroutines of an owner (run, runReader).                             *)
LEMMA OwnerAccount ==
    ASSUME IInv, Account, NEW o \in Owners,
           Writing(o) \/ \E w \in Workers : Serving(o, w)
    PROVE  Account'
<1>0. OwnShape BY DEF IInv, Shape
<1>1. ASSUME NEW w \in Workers, Run(o, w) PROVE Account'
  BY <1>1, RunAccount
<1>2. ASSUME NEW w \in Workers, ReaderTakes(o, w) PROVE Account'
  <2>1. Alive(o) BY <1>2 DEF ReaderTakes, IInv, ClosedIsQuiet, Alive
  <2>2. /\ own'[o].rows = Tail(own[o].rows)
        /\ \A p \in Owners, k \in Kinds : <<p, k>> # <<o, "rows">> => own'[p][k] = own[p][k]
        /\ \A p \in Owners : own'[p].state = own[p].state /\ own'[p].closing = own[p].closing
    BY <1>0, <1>2 DEF ReaderTakes, Take, OwnShape, OwnFields, Kinds
  <2>3. "rows" \in Kinds BY DEF Kinds
  <2> QED BY <1>2, <2>1, <2>2, <2>3, TakeKeeps DEF ReaderTakes, Take
<1>3. CASE WriterTakes(o)
  <2> DEFINE queue == NextQueue(o)
  <2>1. queue \in Kinds BY <1>0 DEF NextQueue, Other, Kinds, OwnShape
  <2>2. /\ own'[o][queue] = Tail(own[o][queue])
        /\ \A p \in Owners, k \in Kinds : <<p, k>> # <<o, queue>> => own'[p][k] = own[p][k]
        /\ \A p \in Owners : own'[p].state = own[p].state /\ own'[p].closing = own[p].closing
    <3> HIDE DEF queue
    <3>1. own' = [own EXCEPT ![o][queue] = Tail(@), ![o].turn = IF queue = @ THEN Other(@) ELSE @]
      BY <1>3 DEF WriterTakes, queue
    <3> QED BY <1>0, <2>1, <3>1 DEF OwnShape, OwnFields, Kinds
  <2>3. Alive(o) /\ own[o][queue] # <<>> /\ work[o][Writer] = None
        /\ work' = [work EXCEPT ![o][Writer] = Begun(Head(own[o][queue]))]
        /\ call' = call /\ router' = router
    BY <1>3 DEF WriterTakes, Alive
  <2> HIDE DEF queue
  <2> QED BY <2>1, <2>2, <2>3, TakeKeeps DEF Workers
<1>4. CASE FinishQueued(o)
  <2>1. PICK queue \in {"write", "general"} : Take(o, Writer, queue) BY <1>4 DEF FinishQueued
  <2>2. /\ own'[o][queue] = Tail(own[o][queue])
        /\ \A p \in Owners, k \in Kinds : <<p, k>> # <<o, queue>> => own'[p][k] = own[p][k]
        /\ \A p \in Owners : own'[p].state = own[p].state /\ own'[p].closing = own[p].closing
    BY <1>0, <2>1 DEF Take, OwnShape, OwnFields, Kinds
  <2>3. Alive(o) /\ work[o][Writer] = None /\ call' = call /\ router' = router
    BY <1>4 DEF FinishQueued, Alive
  <2>4. queue \in Kinds /\ Writer \in Workers BY DEF Kinds, Workers
  <2> QED BY <2>1, <2>2, <2>3, <2>4, TakeKeeps DEF Take
<1>5. ASSUME \A p \in Owners, k \in Kinds : own'[p][k] = own[p][k],
             \A p \in Owners : own'[p].closing = own[p].closing,
             \A p \in Owners : own'[p].state = own[p].state \/ own'[p].state = "closed"
                                 \/ (own'[p].state = "stopping" /\ own[p].state = "open" /\ own[p].closing),
             work' = work, call' = call, router' = router
      PROVE  Account'
  <2>1. \A p \in Owners : Alive(p)' => Alive(p) BY <1>5 DEF Alive
  <2>2. \A op : \A p \in Owners : GoodOp(p, op) => GoodOp(p, op)'
    BY <1>5, <2>1 DEF GoodOp, Waits, Alive
  <2>3. \A p \in Owners, k \in Kinds : Queued(p, k)'
    BY <1>5, <2>1, <2>2 DEF Account, Queued, Awaits
  <2>4. \A p \in Owners, w \in Workers : Taken(p, w)'
    BY <1>5, <2>2 DEF Account, Taken, Awaits, Changes
  <2>5. \A c \in Callers : CallerOK(c)' BY <1>5 DEF Account, CallerOK
  <2>6. RouterOK' BY <1>5, <2>1 DEF Account, RouterOK, Alive
  <2> QED BY <2>3, <2>4, <2>5, <2>6 DEF Account
<1>6. ASSUME NEW w \in Workers, ReaderEnds(o, w) PROVE Account'
  <2>1. /\ \A p \in Owners, k \in Kinds : own'[p][k] = own[p][k]
        /\ \A p \in Owners : own'[p].closing = own[p].closing /\ own'[p].state = own[p].state
    BY <1>0, <1>6 DEF ReaderEnds, OwnShape, OwnFields, Kinds
  <2> QED BY <1>5, <1>6, <2>1 DEF ReaderEnds
<1>7. CASE Stop(o) \/ CloseHandle(o)
  <2>1. /\ \A p \in Owners, k \in Kinds : own'[p][k] = own[p][k]
        /\ \A p \in Owners : own'[p].closing = own[p].closing
        /\ \A p \in Owners : own'[p].state = own[p].state \/ own'[p].state = "closed"
             \/ (own'[p].state = "stopping" /\ own[p].state = "open" /\ own[p].closing)
    BY <1>0, <1>7 DEF Stop, CloseHandle, OwnShape, OwnFields, Kinds
  <2> QED BY <1>5, <1>7, <2>1 DEF Stop, CloseHandle
<1> QED BY <1>1, <1>2, <1>3, <1>4, <1>6, <1>7 DEF Writing, Serving

(* The router gives an owner only while none is stopping.                   *)
LEMMA RouterAccount ==
    ASSUME IInv, Account, Routing \/ Forget \/ Shutdown \/ Remove
    PROVE  Account'
<1>0. CallShape /\ OwnShape /\ RouterShape BY DEF IInv, Shape
<1>1. RouterOK /\ \A c \in Callers : CallerOK(c) BY DEF Account
<1>2. ASSUME router.step = "lookup", NEW result, result.open \in Owners \cup {None},
             DOMAIN result = DOMAIN router, Answer(result)
      PROVE  /\ \A c \in Callers : CallerOK(c)'
             /\ \A c \in Callers : \A o, kind : Waits(c, o, kind) => Waits(c, o, kind)'
             /\ router'.step = "idle"
  <2>1. CASE router.for \notin Callers
    <3>1. call' = call /\ router'.step = "idle" BY <1>0, <1>2, <2>1 DEF Answer, RouterShape
    <3> QED BY <1>1, <3>1 DEF CallerOK, Waits
  <2>2. ASSUME NEW c \in Callers, c = router.for
        PROVE  /\ \A d \in Callers : CallerOK(d)'
               /\ \A d \in Callers : \A o, kind : Waits(d, o, kind) => Waits(d, o, kind)'
               /\ router'.step = "idle"
    <3>1. call[c].step = "asked" /\ call[c].kind \in Kinds /\ call[c].answer = "none"
      BY <1>1, <1>2, <2>2 DEF RouterOK, CallerOK
    <3>2. router'.step = "idle" /\ \A d \in Callers \ {c} : call'[d] = call[d]
      BY <1>0, <1>2, <2>2 DEF Answer, RouterShape, CallShape
    <3>3. CallerOK(c)'
      <4>1. CASE result.open = None
        <5>1. call'[c] = Over(c) BY <1>0, <1>2, <2>2, <4>1 DEF Answer, CallShape
        <5>2. call'[c].step = "over" /\ call'[c].owner = None BY <5>1 DEF Over, NoCall
        <5> QED BY <5>2 DEF CallerOK
      <4>2. CASE result.open # None
        <5>1. call'[c] = [call[c] EXCEPT !.step = "submit", !.owner = result.open]
          BY <1>0, <1>2, <2>2, <4>2 DEF Answer, CallShape
        <5> QED BY <1>0, <1>2, <2>2, <3>1, <4>2, <5>1 DEF CallShape, CallerOK
      <4> QED BY <4>1, <4>2
    <3> QED BY <1>1, <3>1, <3>2, <3>3 DEF CallerOK, Waits
  <2> QED BY <2>1, <2>2
<1>3. ASSUME NEW o \in Owners, own' = [own EXCEPT ![o].closing = TRUE], router'.step = "closing",
             router'.for = router.for, router.step = "lookup", call' = call, work' = work
      PROVE  Account'
  <2>1. /\ \A p \in Owners, k \in Kinds : own'[p][k] = own[p][k]
        /\ \A p \in Owners : own'[p].state = own[p].state
    BY <1>0, <1>3 DEF OwnShape, OwnFields, Kinds
  <2>2. \A p \in Owners : Alive(p)' <=> Alive(p) BY <2>1 DEF Alive
  <2>3. \A op : \A p \in Owners : GoodOp(p, op) => GoodOp(p, op)'
    BY <1>3, <2>1, <2>2 DEF GoodOp, Waits, Alive
  <2>4. \A p \in Owners, k \in Kinds : Queued(p, k)'
    BY <2>1, <2>2, <2>3 DEF Account, Queued, Awaits
  <2>5. ASSUME NEW p \in Owners, NEW w \in Workers PROVE Taken(p, w)'
    <3>1. work'[p] = work[p] /\ \A k \in Kinds : own'[p][k] = own[p][k] BY <1>3, <2>1
    <3>2. Taken(p, w) BY DEF Account
    <3>3. work[p][w] # None => GoodOp(p, work[p][w])'
      <4>1. work[p][w] # None => GoodOp(p, work[p][w]) BY <3>2 DEF Taken
      <4>2. ASSUME NEW op, op = work[p][w], op # None PROVE GoodOp(p, op)' BY <2>3, <4>1, <4>2
      <4> QED BY <4>2, <1>3 DEF GoodOp, Waits, Alive
    <3>4. work'[p][w] = work[p][w] /\ \A v \in Workers : work'[p][v] = work[p][v] BY <3>1
    <3> QED BY <3>1, <3>2, <3>3, <3>4 DEF Taken, Awaits, Changes
  <2>6. \A c \in Callers : CallerOK(c)' BY <1>1, <1>3 DEF CallerOK
  <2>7. RouterOK' BY <1>1, <1>3, <2>1, <2>2 DEF RouterOK
  <2> QED BY <2>4, <2>5, <2>6, <2>7 DEF Account
<1>4. ASSUME own' = own, work' = work, RouterOK', \A c \in Callers : CallerOK(c)',
             \A c \in Callers : \A o, kind : Waits(c, o, kind) => Waits(c, o, kind)',
             router.step = "lookup" \/ call' = call
      PROVE  Account'
  BY <1>4, CallsOnly
<1>5. CASE Lookup
  <2>1. router.step = "lookup" /\ work' = work BY <1>5 DEF Lookup
  <2>2. CASE Answer(router) /\ own' = own
    <3>1. /\ \A c \in Callers : CallerOK(c)'
          /\ \A c \in Callers : \A o, kind : Waits(c, o, kind) => Waits(c, o, kind)'
          /\ router'.step = "idle"
      BY <1>0, <1>2, <2>1, <2>2 DEF RouterShape
    <3>2. RouterOK' BY <1>1, <2>1, <2>2, <3>1 DEF RouterOK, Alive
    <3> QED BY <1>4, <2>1, <2>2, <3>1, <3>2
  <2>3. CASE Unlinked /\ Closing(router.open) /\ call' = call
    <3>1. router.open \in Owners BY <1>0, <2>3 DEF Unlinked, RouterShape
    <3>2. router'.step = "closing" /\ router'.for = router.for
      BY <1>0, <2>3 DEF Closing, RouterShape
    <3> QED BY <1>3, <2>1, <2>3, <3>1, <3>2 DEF Closing
  <2> QED BY <1>5, <2>2, <2>3 DEF Lookup
<1>6. CASE Open
  <2>1. PICK o \in Owners :
          /\ Forgotten(o)
          /\ own' = [own EXCEPT ![o] = Fresh]
          /\ Answer([router EXCEPT !.open = o, !.known = TRUE])
    BY <1>6 DEF Open
  <2>2. router.step = "lookup" /\ router.open = None /\ work' = work BY <1>6 DEF Open
  <2>3. \A p \in Owners : own[p].state = "closed" /\ \A w \in Workers : work[p][w] = None
    BY <2>2, DatabasesAssumption DEF IInv, OneOwner, Alive, ClosedIsQuiet
  <2>4. /\ \A c \in Callers : CallerOK(c)'
        /\ \A c \in Callers : \A p, kind : Waits(c, p, kind) => Waits(c, p, kind)'
        /\ router'.step = "idle"
    <3> DEFINE result == [router EXCEPT !.open = o, !.known = TRUE]
    <3>1. DOMAIN result = DOMAIN router /\ result.open = o BY <1>0 DEF RouterShape
    <3>2. Answer(result) BY <2>1
    <3> HIDE DEF result
    <3> QED BY <1>2, <2>2, <3>1, <3>2
  <2>5. /\ \A p \in Owners \ {o} : own'[p] = own[p]
        /\ own'[o].write = <<>> /\ own'[o].general = <<>> /\ own'[o].rows = <<>>
        /\ own'[o].state = "open" /\ own'[o].closing = FALSE
    BY <1>0, <2>1 DEF OwnShape, Fresh
  <2>6. ASSUME NEW p \in Owners, NEW k \in Kinds PROVE Queued(p, k)'
    <3>1. CASE p = o
      <4>1. own'[p][k] = <<>> BY <2>5, <3>1 DEF Kinds
      <4> QED BY <4>1, EmptySeq DEF Queued
    <3>2. CASE p # o
      <4>1. own'[p] = own[p] /\ own[p].state = "closed" /\ Queued(p, k)
        BY <2>3, <2>5, <3>2 DEF Account
      <4>2. ASSUME NEW op, GoodOp(p, op) PROVE GoodOp(p, op)'
        <5>1. op \in Operations /\ op.of \in Callers BY <4>2 DEF GoodOp, Operations
        <5>2. op.ctx = "awaited" => Waits(op.of, p, op.kind)' BY <2>4, <4>2, <5>1 DEF GoodOp
        <5>3. ~Alive(p)' BY <4>1 DEF Alive
        <5> QED BY <5>1, <5>2, <5>3 DEF GoodOp
      <4> QED BY <4>1, <4>2 DEF Queued, Awaits, Alive
    <3> QED BY <3>1, <3>2
  <2>7. \A p \in Owners, w \in Workers : Taken(p, w)' BY <2>2, <2>3 DEF Taken
  <2>8. RouterOK' BY <2>3, <2>4, <2>5 DEF RouterOK, Alive
  <2> QED BY <2>4, <2>6, <2>7, <2>8 DEF Account
<1>7. CASE CloseOpen
  <2>1. router.step = "lookup" /\ Closing(router.open) /\ call' = call /\ work' = work
    BY <1>7 DEF CloseOpen
  <2>2. router.open \in Owners BY <1>0, <1>7 DEF CloseOpen, RouterShape
  <2>3. router'.step = "closing" /\ router'.for = router.for
    BY <1>0, <2>1 DEF Closing, RouterShape
  <2> QED BY <1>3, <2>1, <2>2, <2>3 DEF Closing
<1>8. CASE Discard \/ Forgot \/ ShutDown \/ Forget \/ Shutdown \/ Remove
  <2>1. own' = own /\ work' = work /\ call' = call
    BY <1>8 DEF Discard, Forgot, ShutDown, Forget, Shutdown, Remove
  <2>2. RouterOK'
    <3>1. CASE Discard
      <4>1. \A p \in Owners : ~Alive(p)
        BY <3>1, DatabasesAssumption DEF Discard, CloseReturns, IInv, OneOwner, Alive
      <4>2. router'.for = router.for /\ router.step = "closing"
        BY <1>0, <3>1 DEF Discard, RouterShape
      <4> QED BY <1>1, <2>1, <4>1, <4>2 DEF RouterOK, Alive
    <3>2. CASE Forgot \/ ShutDown \/ Forget \/ Shutdown
      <4>1. /\ router.step # "closing"
            /\ router'.step \in {"lookup", "closing"} => router'.for \in {"remover", "shutdown"}
        BY <1>0, <3>2 DEF Forgot, ShutDown, Forget, Shutdown, RouterShape
      <4> QED BY <1>1, <2>1, <4>1, DatabasesAssumption DEF RouterOK, Alive
    <3>3. CASE Remove
      BY <1>1, <2>1, <3>3 DEF Remove, RouterOK, Alive
    <3> QED BY <1>8, <3>1, <3>2, <3>3
  <2>3. \A c \in Callers : CallerOK(c)' BY <1>1, <2>1 DEF CallerOK
  <2>4. \A c \in Callers : \A o, kind : Waits(c, o, kind) => Waits(c, o, kind)'
    BY <2>1 DEF Waits
  <2> QED BY <1>4, <2>1, <2>2, <2>3, <2>4
<1> QED BY <1>5, <1>6, <1>7, <1>8 DEF Routing

(* A change a caller has given up is never begun after a later one it waits *)
(* for was made, for any number of callers, owners and readers and any      *)
(* capacity of the queues (completeOperation, finishQueuedOperations).      *)
THEOREM NoLateChangeAlways == Spec => []NoLateChange
<1>1. IInv /\ Account /\ [Next]_vars => Account'
  <2> SUFFICES ASSUME IInv, Account, [Next]_vars PROVE Account'
    OBVIOUS
  <2>1. CASE UNCHANGED vars
    <3>1. own' = own /\ work' = work /\ call' = call /\ router' = router BY <2>1 DEF vars
    <3>2. \A c \in Callers : CallerOK(c)' BY <3>1 DEF Account, CallerOK
    <3>3. RouterOK' BY <3>1 DEF Account, RouterOK, Alive
    <3>4. \A c \in Callers : \A o, kind : Waits(c, o, kind) => Waits(c, o, kind)'
      BY <3>1 DEF Waits
    <3> QED BY <3>1, <3>2, <3>3, <3>4, CallsOnly
  <2>2. ASSUME NEW c \in Callers, Start(c) \/ Calling(c) \/ Disconnect(c) PROVE Account'
    BY <2>2, CallerAccount
  <2>3. ASSUME NEW o \in Owners, Writing(o) \/ \E w \in Workers : Serving(o, w) PROVE Account'
    BY <2>3, OwnerAccount
  <2>4. CASE Routing \/ Forget \/ Shutdown \/ Remove
    BY <2>4, RouterAccount
  <2> QED BY <2>1, <2>2, <2>3, <2>4 DEF Next
<1>2. Account => NoLateChange BY DEF Account, Taken, NoLateChange
<1> QED BY <1>1, <1>2, InitAccount, InductiveInvariant, PTL DEF Spec
=============================================================================
