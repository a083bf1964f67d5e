------------------------------- MODULE SiteGate -------------------------------
(***************************************************************************)
(* The editing gate of a site: pkg/sitefreeze/gate.go.                     *)
(*                                                                         *)
(* One participant goroutine (Gate.run) owns the state of every site:      *)
(* how many leases are out, the editing generation, whether the lease out  *)
(* is exclusive, and at most one exclusive caller that waits for the       *)
(* editors to finish.  Callers talk to it over channels; a caller may be   *)
(* canceled at any moment (its HTTP consumer goes away), and a watcher     *)
(* goroutine then withdraws a waiting turn.                                *)
(*                                                                         *)
(* A member of Requests is ONE call of Enter with the Close that follows:  *)
(* the code compares admissions by pointer, so a call is never reused.     *)
(* The order of two admissions inside the request channel is abstracted:   *)
(* the gate may take any of them next.                                     *)
(***************************************************************************)
EXTENDS Naturals, FiniteSets

CONSTANTS
    Domains,
    Requests,
    DomainOf,       \* the site each call is about
    NoRequest

ASSUME GateAssumption ==
    /\ IsFiniteSet(Requests)
    /\ NoRequest \notin Requests
    /\ DomainOf \in [Requests -> Domains]

VARIABLES
    \* the participant of each site
    active, epoch, exclusive, waiting,
    \* the callers and what they asked for
    phase, wantsExclusive, expected, advance, canceled,
    \* a generation read before the call (Generation), 0 if none was
    seen,
    \* the watcher goroutines and the abandoned channel
    watchers, abandoned,
    \* gate.stop is closed
    stopped

siteVars   == <<active, epoch, exclusive, waiting>>
callVars   == <<wantsExclusive, expected, seen>>
watchVars  == <<watchers, abandoned>>
vars == <<siteVars, phase, callVars, advance, canceled, watchVars, stopped>>

(* idle: not called yet            sent: in gate.requests                   *)
(* waiting: parked as the turn     granted: a lease lies in the reply       *)
(* holding: the caller works       closing: its release is in gate.releases *)
Phases == {"idle", "sent", "waiting", "granted", "holding", "closing", "done"}
Leased == {"granted", "holding", "closing"}

Leases(d) == {r \in Requests : DomainOf[r] = d /\ phase[r] \in Leased}

TypeOK ==
    /\ active \in [Domains -> Nat]
    /\ epoch \in [Domains -> Nat \ {0}]
    /\ exclusive \in [Domains -> BOOLEAN]
    /\ waiting \in [Domains -> Requests \cup {NoRequest}]
    /\ phase \in [Requests -> Phases]
    /\ wantsExclusive \in [Requests -> BOOLEAN]
    /\ expected \in [Requests -> Nat]
    /\ advance \in [Requests -> BOOLEAN]
    /\ canceled \in [Requests -> BOOLEAN]
    /\ seen \in [Requests -> Nat]
    /\ watchers \subseteq Requests
    /\ abandoned \subseteq Requests
    /\ stopped \in BOOLEAN

Init ==
    /\ active = [d \in Domains |-> 0]
    /\ epoch = [d \in Domains |-> 1]
    /\ exclusive = [d \in Domains |-> FALSE]
    /\ waiting = [d \in Domains |-> NoRequest]
    /\ phase = [r \in Requests |-> "idle"]
    /\ wantsExclusive = [r \in Requests |-> FALSE]
    /\ expected = [r \in Requests |-> 0]
    /\ advance = [r \in Requests |-> FALSE]
    /\ canceled = [r \in Requests |-> FALSE]
    /\ seen = [r \in Requests |-> 0]
    /\ watchers = {}
    /\ abandoned = {}
    /\ stopped = FALSE

-----------------------------------------------------------------------------
(* Callers *)

(* Generation: the epoch a client edits under.  A site without an entry in  *)
(* the map answers 1, which is what Init and a deleted entry hold.          *)
Generation(r) ==
    /\ ~stopped
    /\ phase[r] = "idle"
    /\ seen' = [seen EXCEPT ![r] = epoch[DomainOf[r]]]
    /\ UNCHANGED <<siteVars, phase, wantsExclusive, expected, advance,
                   canceled, watchVars, stopped>>

(* Enter up to the send: expected is 0 or a generation read earlier.        *)
Enter(r, wants, generation) ==
    /\ ~stopped
    /\ phase[r] = "idle"
    /\ generation \in {0, seen[r]}
    /\ phase' = [phase EXCEPT ![r] = "sent"]
    /\ wantsExclusive' = [wantsExclusive EXCEPT ![r] = wants]
    /\ expected' = [expected EXCEPT ![r] = generation]
    /\ UNCHANGED <<siteVars, advance, canceled, seen, watchVars, stopped>>

(* The consumer disconnects: the call's done channel closes.                *)
Cancel(r) ==
    /\ ~canceled[r]
    /\ phase[r] # "done"
    /\ canceled' = [canceled EXCEPT ![r] = TRUE]
    /\ UNCHANGED <<siteVars, phase, callVars, advance, watchVars, stopped>>

(* Enter gives up before its admission was sent.                            *)
GiveUp(r) ==
    /\ phase[r] = "idle"
    /\ canceled[r]
    /\ phase' = [phase EXCEPT ![r] = "done"]
    /\ UNCHANGED <<siteVars, callVars, advance, canceled, watchVars, stopped>>

(* A mutant: the lease that arrives after the consumer left is dropped.     *)
ReceiveDropping(r) ==
    /\ phase[r] = "granted"
    /\ phase' = [phase EXCEPT ![r] = IF canceled[r] THEN "done" ELSE "holding"]
    /\ UNCHANGED <<siteVars, callVars, advance, canceled, watchVars, stopped>>

(* Enter receives a lease.  If the consumer is already gone it is closed at *)
(* once, without opening a generation.                                      *)
Receive(r) ==
    /\ phase[r] = "granted"
    /\ phase' = [phase EXCEPT ![r] = IF canceled[r] THEN "closing" ELSE "holding"]
    /\ UNCHANGED <<siteVars, callVars, advance, canceled, watchVars, stopped>>

(* A mutant: an editor's Close opens a generation too.                      *)
CloseOpeningAny(r, opens) ==
    /\ phase[r] = "holding"
    /\ phase' = [phase EXCEPT ![r] = "closing"]
    /\ advance' = [advance EXCEPT ![r] = opens]
    /\ UNCHANGED <<siteVars, callVars, canceled, watchVars, stopped>>

(* The caller's deferred Close.  Only the exclusive lease of a completed    *)
(* checkpoint restoration is closed with advance (sitebrush.go).            *)
Close(r, opens) ==
    /\ phase[r] = "holding"
    /\ opens => wantsExclusive[r]
    /\ phase' = [phase EXCEPT ![r] = "closing"]
    /\ advance' = [advance EXCEPT ![r] = opens]
    /\ UNCHANGED <<siteVars, callVars, canceled, watchVars, stopped>>

-----------------------------------------------------------------------------
(* Gate.run: one request, release or abandoned turn at a time *)

(* The caller may work on the site: it is counted, and the site's exclusive *)
(* flag becomes that of the newest lease.                                   *)
Admit(r) ==
    LET d == DomainOf[r] IN
    /\ active' = [active EXCEPT ![d] = @ + 1]
    /\ exclusive' = [exclusive EXCEPT ![d] = wantsExclusive[r]]
    /\ phase' = [phase EXCEPT ![r] = "granted"]
    /\ UNCHANGED <<epoch, waiting, watchVars>>

(* An exclusive caller finds editors at work: it becomes the site's waiting *)
(* turn, and a watcher goroutine follows its consumer.                      *)
Park(r) ==
    /\ waiting' = [waiting EXCEPT ![DomainOf[r]] = r]
    /\ phase' = [phase EXCEPT ![r] = "waiting"]
    /\ watchers' = watchers \cup {r}
    /\ UNCHANGED <<active, epoch, exclusive, abandoned>>

Refuse(r) ==
    /\ phase' = [phase EXCEPT ![r] = "done"]
    /\ UNCHANGED <<siteVars, watchVars>>

(* Mutants: the generation is compared for exclusive callers only; the      *)
(* owner is forgotten; the turn is forgotten.                               *)
StaleIfExclusive(r) ==
    wantsExclusive[r] /\ expected[r] # 0 /\ expected[r] # epoch[DomainOf[r]]
BusyWithoutOwner(d) == waiting[d] # NoRequest
BusyWithoutTurn(d)  == exclusive[d]

Stale(r) == expected[r] # 0 /\ expected[r] # epoch[DomainOf[r]]
Busy(d)  == exclusive[d] \/ waiting[d] # NoRequest

HandleRequest(r) ==
    LET d == DomainOf[r] IN
    /\ ~stopped
    /\ phase[r] = "sent"
    /\ IF canceled[r] \/ Stale(r) \/ Busy(d) THEN Refuse(r)
       ELSE IF wantsExclusive[r] /\ active[d] > 0 THEN Park(r)
       ELSE Admit(r)
    /\ UNCHANGED <<callVars, advance, canceled, stopped>>

(* The watcher saw the consumer leave and reports the turn as abandoned; it *)
(* may do so although the turn was resolved in the meantime.                *)
Watch(r) ==
    /\ ~stopped
    /\ r \in watchers
    /\ canceled[r]
    /\ watchers' = watchers \ {r}
    /\ abandoned' = abandoned \cup {r}
    /\ UNCHANGED <<siteVars, phase, callVars, advance, canceled, stopped>>

(* The watcher of a resolved turn ends.                                     *)
WatchResolved(r) ==
    /\ r \in watchers
    /\ phase[r] # "waiting" \/ stopped
    /\ watchers' = watchers \ {r}
    /\ UNCHANGED <<siteVars, phase, callVars, advance, canceled, abandoned, stopped>>

(* The gate withdraws an abandoned turn, unless another turn has taken its  *)
(* place since.                                                             *)
AnyTurn(r) == TRUE     \* a mutant: whoever is abandoned is taken for the turn
IsTurn(r) == waiting[DomainOf[r]] = r

HandleAbandoned(r) ==
    /\ ~stopped
    /\ r \in abandoned
    /\ abandoned' = abandoned \ {r}
    /\ IF IsTurn(r)
       THEN /\ waiting' = [waiting EXCEPT ![DomainOf[r]] = NoRequest]
            /\ phase' = [phase EXCEPT ![r] = "done"]
       ELSE UNCHANGED <<waiting, phase>>
    /\ UNCHANGED <<active, epoch, exclusive, callVars, advance, canceled,
                   watchers, stopped>>

(* A lease comes back.  When it was the last one, the waiting turn is       *)
(* resolved: granted, or refused if its consumer has left.  An entry that   *)
(* is idle in its first generation is deleted: its fields are those of a    *)
(* fresh participant again.                                                 *)
RemainingLess(d) == active[d] - 2     \* a mutant: a release is counted twice
Remaining(d) == IF active[d] > 0 THEN active[d] - 1 ELSE 0

HandleRelease(r) ==
    LET d == DomainOf[r]
        w == waiting[d]
        turn == Remaining(d) = 0 /\ w # NoRequest
        granted == turn /\ ~canceled[w]
    IN
    /\ ~stopped
    /\ phase[r] = "closing"
    /\ epoch' = [epoch EXCEPT ![d] = IF advance[r] THEN @ + 1 ELSE @]
    /\ active' = [active EXCEPT ![d] = IF granted THEN 1 ELSE Remaining(d)]
    /\ exclusive' = [exclusive EXCEPT ![d] =
                        granted \/ (@ /\ ~wantsExclusive[r])]
    /\ waiting' = [waiting EXCEPT ![d] = IF turn THEN NoRequest ELSE @]
    /\ phase' = [s \in Requests |->
                    IF s = r THEN "done"
                    ELSE IF turn /\ s = w
                         THEN IF granted THEN "granted" ELSE "done"
                         ELSE phase[s]]
    /\ UNCHANGED <<callVars, advance, canceled, watchVars, stopped>>

-----------------------------------------------------------------------------
(* The process ends: gate.stop closes, the participant returns, and every   *)
(* caller blocked on it returns without an answer.                          *)
Stop ==
    /\ ~stopped
    /\ stopped' = TRUE
    /\ UNCHANGED <<siteVars, phase, callVars, advance, canceled, watchVars>>

ReturnStopped(r) ==
    /\ stopped
    /\ phase[r] \in Phases \ {"holding", "done"}
    /\ phase' = [phase EXCEPT ![r] = "done"]
    /\ UNCHANGED <<siteVars, callVars, advance, canceled, watchVars, stopped>>

-----------------------------------------------------------------------------
GateStep(r) == HandleRequest(r) \/ HandleAbandoned(r) \/ HandleRelease(r)

CallerStep(r) ==
    Receive(r) \/ (\E opens \in BOOLEAN : Close(r, opens)) \/ ReturnStopped(r)

Next ==
    \/ \E r \in Requests :
          \/ Generation(r)
          \/ \E wants \in BOOLEAN, generation \in {0, seen[r]} :
                Enter(r, wants, generation)
          \/ Cancel(r)
          \/ GiveUp(r)
          \/ CallerStep(r)
          \/ GateStep(r)
          \/ Watch(r)
          \/ WatchResolved(r)
    \/ Stop

Spec == Init /\ [][Next]_vars

(* The goroutines of the gate, its watchers and its callers are scheduled,  *)
(* and every caller closes the lease it holds (defer lease.Close).  The     *)
(* gate's select takes each waiting message eventually.                     *)
Fairness ==
    \A r \in Requests :
        /\ WF_vars(CallerStep(r))
        /\ WF_vars(HandleRequest(r))
        /\ WF_vars(HandleRelease(r))
        /\ WF_vars(HandleAbandoned(r))
        /\ WF_vars(Watch(r))

FairSpec == Spec /\ Fairness

-----------------------------------------------------------------------------
(* Properties *)

(* While an exclusive lease of a site is out (a freeze, a restoration or a  *)
(* publication), no other lease of that site is: Gate.run admits nobody     *)
(* beside it and grants a waiting turn only when the last editor left.      *)
Exclusion ==
    \A r, s \in Requests :
        /\ r # s
        /\ DomainOf[r] = DomainOf[s]
        /\ phase[r] \in Leased
        /\ phase[s] \in Leased
        => ~wantsExclusive[r]

(* Nobody works under a replaced generation: a caller that named the        *)
(* generation it read and now owns the site's lease, or waits for it, named *)
(* the current one.  The check is made when the request is taken, the       *)
(* lease is used long after.                                                *)
NoStaleEditor ==
    \A r \in Requests :
        phase[r] \in Leased \cup {"waiting"} /\ expected[r] # 0
            => expected[r] = epoch[DomainOf[r]]

(* The participant's bookkeeping tells the truth as long as it runs: the    *)
(* counter is the number of leases out (a lost or doubled release would     *)
(* strand the site or open it early), the flag says whether one of them is  *)
(* exclusive, and a waiting turn belongs to one live caller, has editors to *)
(* wait for and no exclusive lease beside it, so somebody will resolve it.  *)
Bookkeeping ==
    ~stopped =>
        /\ \A d \in Domains :
              /\ active[d] = Cardinality(Leases(d))
              /\ exclusive[d] <=> \E r \in Leases(d) : wantsExclusive[r]
              /\ waiting[d] # NoRequest =>
                    /\ ~exclusive[d]
                    /\ active[d] > 0
                    /\ DomainOf[waiting[d]] = d
                    /\ phase[waiting[d]] = "waiting"
                    /\ wantsExclusive[waiting[d]]
        /\ \A r \in Requests : phase[r] = "waiting" => IsTurn(r)

(* Only exclusive leases that are given back open a generation.             *)
AdvanceIsExclusive ==
    \A r \in Requests :
        advance[r] => wantsExclusive[r] /\ phase[r] \in {"closing", "done"}

(* The inductive invariant behind Exclusion and NoStaleEditor.              *)
GateInv == TypeOK /\ Bookkeeping /\ AdvanceIsExclusive /\ Exclusion /\ NoStaleEditor

(* A waiting exclusive turn closes the door: until it is resolved no other  *)
(* caller of the site obtains a lease, so editors cannot starve it.         *)
TurnClosesDoor ==
    [][\A r, w \in Requests :
          phase[w] = "waiting" /\ phase'[w] = "waiting" /\ DomainOf[r] = DomainOf[w]
              => ~(phase[r] \notin Leased /\ phase'[r] \in Leased)]_vars

(* Every call that reached the gate returns and gives back what it got,     *)
(* whoever is canceled, parked or overtaken meanwhile.                      *)
EveryCallEnds == \A r \in Requests : (phase[r] = "sent") ~> (phase[r] = "done")

(* The gate implements the promise of SiteAdmission.                        *)
Admission == INSTANCE SiteAdmission WITH
    holder <- [r \in Requests |->
                  IF phase[r] \in Leased
                  THEN IF wantsExclusive[r] THEN "exclusive" ELSE "shared"
                  ELSE "none"],
    ticket <- [r \in Requests |->
                  IF phase[r] \in Leased THEN expected[r] ELSE 0]

ImplementsAdmission == Admission!Spec
=============================================================================
