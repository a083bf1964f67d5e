-------------------------- MODULE SiteGateRefinement --------------------------
(***************************************************************************)
(* The gate participant implements SiteAdmission, for any number of sites  *)
(* and callers: a request that is admitted is a Grant, a release is a      *)
(* Return, an Advance or a HandOver to the waiting turn, and everything    *)
(* else (parking, withdrawing, canceling, refusing) is invisible.          *)
(***************************************************************************)
EXTENDS SiteGateProofs

Holder ==
    [r \in Requests |-> IF phase[r] \in Leased
                        THEN IF wantsExclusive[r] THEN "exclusive" ELSE "shared"
                        ELSE "none"]

Ticket == [r \in Requests |-> IF phase[r] \in Leased THEN expected[r] ELSE 0]

(* A step that moves nobody into or out of the leaseholders is a stutter.   *)
LEMMA Invisible ==
    ASSUME UNCHANGED epoch,
           \A r \in Requests :
              /\ phase[r] \in Leased <=> phase'[r] \in Leased
              /\ phase[r] \in Leased => /\ wantsExclusive'[r] = wantsExclusive[r]
                                        /\ expected'[r] = expected[r]
    PROVE  UNCHANGED Admission!vars
  BY DEF Admission!vars

(* A holder that only gives its lease up is a Return.                       *)
LEMMA GivesUp ==
    ASSUME GateInv, NEW r \in Requests, phase[r] \in Leased, phase'[r] = "done",
           \A s \in Requests \ {r} : phase[s] \in Leased <=> phase'[s] \in Leased,
           UNCHANGED <<wantsExclusive, expected, epoch>>
    PROVE  Admission!Next
<1>1. /\ Holder' = [Holder EXCEPT ![r] = "none"]
      /\ Ticket' = [Ticket EXCEPT ![r] = 0]
  BY DEF Holder, Ticket, Leased
<1>2. Holder[r] # "none"
  BY DEF Holder
<1>3. Admission!Return(r)
  BY <1>1, <1>2 DEF Admission!Return, Holder, Ticket
<1> QED
  BY <1>3 DEF Admission!Next

(* An admitted request is a Grant.                                          *)
LEMMA Grants ==
    ASSUME GateInv, NEW r \in Requests, ~stopped, phase[r] = "sent",
           ~Stale(r), ~Busy(DomainOf[r]),
           ~(wantsExclusive[r] /\ active[DomainOf[r]] > 0), Admit(r),
           UNCHANGED <<callVars, advance, canceled, stopped>>
    PROVE  Admission!Next
<1> DEFINE kind == IF wantsExclusive[r] THEN "exclusive" ELSE "shared"
<1>d. DomainOf[r] \in Domains
  BY GateAssumption
<1>p. phase'[r] = "granted" /\ \A s \in Requests \ {r} : phase'[s] = phase[s]
  BY DEF Admit, GateInv, TypeOK
<1>1. /\ Holder' = [Holder EXCEPT ![r] = kind]
      /\ Ticket' = [Ticket EXCEPT ![r] = expected[r]]
  BY <1>p DEF Holder, Ticket, Leased, callVars
<1>2. Holder[r] = "none"
  BY DEF Holder, Leased
<1>3. expected[r] \in {0, epoch[DomainOf[r]]}
  BY DEF Stale
<1>4. \A s \in Leases(DomainOf[r]) : ~wantsExclusive[s]
  BY <1>d DEF GateInv, Bookkeeping, Busy
<1>5. wantsExclusive[r] => Leases(DomainOf[r]) = {}
  <2>1. wantsExclusive[r] => active[DomainOf[r]] = 0
    BY <1>d DEF GateInv, TypeOK
  <2> QED
    BY <2>1, <1>d, LeasesZero DEF GateInv, Bookkeeping
<1>6. \A s \in Admission!Others(r) :
          Holder[s] # "none" => kind = "shared" /\ Holder[s] = "shared"
  <2> SUFFICES ASSUME NEW s \in Requests, DomainOf[s] = DomainOf[r],
                      phase[s] \in Leased
               PROVE  ~wantsExclusive[r] /\ ~wantsExclusive[s]
    BY DEF Holder, Admission!Others
  <2>1. s \in Leases(DomainOf[r])
    BY DEF Leases
  <2> QED
    BY <2>1, <1>4, <1>5
<1>7. Admission!Grant(r, kind, expected[r])
  BY <1>1, <1>2, <1>3, <1>6 DEF Admission!Grant, Holder, Ticket, Admit
<1>8. kind \in Admission!Kinds
  BY DEF Admission!Kinds
<1>9. \E k \in Admission!Kinds, e \in {0, epoch[DomainOf[r]]} :
          Admission!Grant(r, k, e)
  BY <1>3, <1>7, <1>8 DEF Admission!Grant
<1> QED
  BY <1>9 DEF Admission!Next

(* A release is a Return, an Advance, or hands the site to the waiting turn.*)
LEMMA Releases ==
    ASSUME GateInv, NEW r \in Requests, HandleRelease(r)
    PROVE  Admission!Next
<1> DEFINE d == DomainOf[r]
           w == waiting[d]
           turn == Remaining(d) = 0 /\ w # NoRequest
           granted == turn /\ ~canceled[w]
<1>d. d \in Domains /\ ~stopped /\ phase[r] = "closing" /\ r \in Leases(d)
  BY GateAssumption DEF HandleRelease, Leases, Leased
<1>u. UNCHANGED <<wantsExclusive, expected, advance, stopped>>
  BY DEF HandleRelease, callVars
<1>t. turn => /\ w \in Requests /\ DomainOf[w] = d /\ phase[w] = "waiting"
              /\ wantsExclusive[w] /\ ~exclusive[d] /\ w # r
  BY <1>d DEF GateInv, TypeOK, Bookkeeping
<1>x. wantsExclusive[r] => ~turn
  BY <1>d, <1>t DEF GateInv, Bookkeeping
<1>p. /\ phase'[r] = "done"
      /\ turn => phase'[w] = IF granted THEN "granted" ELSE "done"
      /\ \A s \in Requests \ {r} : ~(turn /\ s = w) => phase'[s] = phase[s]
  BY <1>t DEF HandleRelease
<1>1. CASE advance[r]
  <2>1. wantsExclusive[r] /\ ~turn
    BY <1>1, <1>x DEF GateInv, AdvanceIsExclusive
  <2>2. /\ Holder' = [Holder EXCEPT ![r] = "none"]
        /\ Ticket' = [Ticket EXCEPT ![r] = 0]
    BY <2>1, <1>p, <1>u DEF Holder, Ticket, Leased
  <2>3. Holder[r] = "exclusive"
    BY <2>1, <1>d DEF Holder, Leases
  <2>4. epoch' = [epoch EXCEPT ![d] = @ + 1]
    BY <1>1 DEF HandleRelease
  <2>5. Admission!Advance(r)
    BY <2>2, <2>3, <2>4 DEF Admission!Advance, Holder, Ticket
  <2> QED
    BY <2>5 DEF Admission!Next
<1>2. CASE ~advance[r] /\ ~granted
  <2>1. epoch' = epoch
    BY <1>2 DEF HandleRelease, GateInv, TypeOK
  <2>2. \A s \in Requests \ {r} : phase[s] \in Leased <=> phase'[s] \in Leased
    BY <1>2, <1>p, <1>t DEF Leased
  <2> QED
    BY <2>1, <2>2, <1>d, <1>p, <1>u, GivesUp DEF Leased
<1>3. CASE ~advance[r] /\ granted
  <2>1. epoch' = epoch
    BY <1>3 DEF HandleRelease, GateInv, TypeOK
  <2>2. ~wantsExclusive[r] /\ Holder[r] = "shared"
    BY <1>3, <1>x, <1>d DEF Holder, Leased
  <2>3. Leases(d) = {r}
    <3>1. active[d] = Cardinality(Leases(d)) /\ active[d] \in Nat /\ active[d] > 0
      BY <1>d, LeasesZero DEF GateInv, TypeOK, Bookkeeping
    <3>2. active[d] = 1
      BY <3>1, <1>3 DEF Remaining
    <3>3. IsFiniteSet(Leases(d) \ {r})
      BY <1>d, LeasesFinite, FS_Subset
    <3>6. Cardinality(Leases(d) \ {r}) = Cardinality(Leases(d)) - 1
      BY <1>d, LeasesFinite, FS_RemoveElement
    <3>4. Cardinality(Leases(d) \ {r}) = 0
      BY <3>1, <3>2, <3>6
    <3>5. Leases(d) \ {r} = {}
      BY <3>3, <3>4, FS_EmptySet
    <3> QED
      BY <3>5, <1>d
  <2>4. \A q \in Admission!Others(r) : Holder[q] = "none"
    BY <2>3 DEF Holder, Admission!Others, Leases
  <2>5. w \in Admission!Others(r)
    BY <1>3, <1>t DEF Admission!Others
  <2>6. expected[w] \in {0, epoch[d]}
    BY <1>3, <1>t DEF GateInv, NoStaleEditor
  <2>7. /\ Holder' = [Holder EXCEPT ![r] = "none", ![w] = "exclusive"]
        /\ Ticket' = [Ticket EXCEPT ![r] = 0, ![w] = expected[w]]
    BY <1>3, <1>p, <1>t, <1>u DEF Holder, Ticket, Leased
  <2>8. Admission!HandOver(r, w, expected[w])
    BY <2>1, <2>2, <2>4, <2>5, <2>6, <2>7 DEF Admission!HandOver, Holder, Ticket
  <2>9. \E s \in Admission!Others(r), e \in {0, epoch[DomainOf[r]]} :
            Admission!HandOver(r, s, e)
    BY <2>5, <2>6, <2>8 DEF Admission!HandOver
  <2> QED
    BY <2>9 DEF Admission!Next
<1> QED
  BY <1>1, <1>2, <1>3

(* Every step of the participant is a step of the promise or a stutter.     *)
LEMMA StepRefines == GateInv /\ [Next]_vars => [Admission!Next]_(Admission!vars)
<1> SUFFICES ASSUME GateInv, [Next]_vars
             PROVE  Admission!Next \/ UNCHANGED Admission!vars
  OBVIOUS
<1>1. ASSUME NEW r \in Requests,
             Generation(r) \/ Cancel(r) \/ Watch(r) \/ WatchResolved(r)
      PROVE  UNCHANGED Admission!vars
  BY <1>1, Invisible DEF Generation, Cancel, Watch, WatchResolved, siteVars, callVars
<1>2. ASSUME NEW r \in Requests, NEW wants \in BOOLEAN,
             NEW generation \in {0, seen[r]}, Enter(r, wants, generation)
      PROVE  UNCHANGED Admission!vars
  BY <1>2, Invisible DEF Enter, siteVars, Leased, GateInv, TypeOK
<1>3. ASSUME NEW r \in Requests,
             GiveUp(r) \/ Receive(r) \/ \E opens \in BOOLEAN : Close(r, opens)
      PROVE  UNCHANGED Admission!vars
  BY <1>3, Invisible DEF GiveUp, Receive, Close, siteVars, callVars, Leased, GateInv, TypeOK
<1>4. ASSUME NEW r \in Requests, HandleRequest(r)
      PROVE  Admission!Next \/ UNCHANGED Admission!vars
  <2>1. CASE canceled[r] \/ Stale(r) \/ Busy(DomainOf[r])
    BY <1>4, <2>1, Invisible
       DEF HandleRequest, Refuse, siteVars, callVars, Leased, GateInv, TypeOK
  <2>2. CASE /\ ~(canceled[r] \/ Stale(r) \/ Busy(DomainOf[r]))
             /\ wantsExclusive[r] /\ active[DomainOf[r]] > 0
    BY <1>4, <2>2, Invisible
       DEF HandleRequest, Park, callVars, Leased, GateInv, TypeOK
  <2>3. CASE /\ ~(canceled[r] \/ Stale(r) \/ Busy(DomainOf[r]))
             /\ ~(wantsExclusive[r] /\ active[DomainOf[r]] > 0)
    BY <1>4, <2>3, Grants DEF HandleRequest
  <2> QED
    BY <2>1, <2>2, <2>3
<1>5. ASSUME NEW r \in Requests, HandleAbandoned(r)
      PROVE  UNCHANGED Admission!vars
  <2>1. CASE IsTurn(r)
    <3>1. phase[r] = "waiting"
      BY <1>5, <2>1, GateAssumption DEF HandleAbandoned, IsTurn, GateInv, Bookkeeping
    <3>2. phase'[r] = "done" /\ \A s \in Requests \ {r} : phase'[s] = phase[s]
      BY <1>5, <2>1 DEF HandleAbandoned, GateInv, TypeOK
    <3> QED
      BY <1>5, <3>1, <3>2, Invisible DEF HandleAbandoned, callVars, Leased
  <2>2. CASE ~IsTurn(r)
    BY <1>5, <2>2, Invisible DEF HandleAbandoned, callVars
  <2> QED
    BY <2>1, <2>2
<1>6. ASSUME NEW r \in Requests, HandleRelease(r) PROVE Admission!Next
  BY <1>6, Releases
<1>7. ASSUME NEW r \in Requests, ReturnStopped(r)
      PROVE  Admission!Next \/ UNCHANGED Admission!vars
  <2>1. phase'[r] = "done" /\ \A s \in Requests \ {r} : phase'[s] = phase[s]
    BY <1>7 DEF ReturnStopped, GateInv, TypeOK
  <2>2. UNCHANGED <<epoch, wantsExclusive, expected>>
    BY <1>7 DEF ReturnStopped, siteVars, callVars
  <2>3. CASE phase[r] \in Leased
    BY <2>1, <2>2, <2>3, GivesUp
  <2>4. CASE phase[r] \notin Leased
    BY <2>1, <2>2, <2>4, Invisible DEF Leased
  <2> QED
    BY <2>3, <2>4
<1>8. CASE Stop \/ UNCHANGED vars
  BY <1>8, Invisible DEF Stop, vars, siteVars, callVars
<1> QED
  BY <1>1, <1>2, <1>3, <1>4, <1>5, <1>6, <1>7, <1>8 DEF Next, CallerStep, GateStep

(* ImplementsAdmission: seen through the leases it has handed out, the gate *)
(* behaves as SiteAdmission promises.                                       *)
THEOREM Refinement == Spec => ImplementsAdmission
<1>1. Init => Admission!Init
  BY DEF Init, Admission!Init, Leased
<1> QED
  BY <1>1, StepRefines, GateInvariant, PTL DEF Spec, ImplementsAdmission, Admission!Spec

(* TurnClosesDoor: while a site has a waiting turn nobody else of that site *)
(* becomes a leaseholder.                                                   *)
THEOREM DoorClosed == Spec => TurnClosesDoor
<1> DEFINE Overtakes(r, w) ==
              /\ phase[w] = "waiting" /\ phase'[w] = "waiting"
              /\ DomainOf[r] = DomainOf[w]
              /\ phase[r] \notin Leased /\ phase'[r] \in Leased
<1>1. GateInv /\ [Next]_vars => \A r, w \in Requests : ~Overtakes(r, w)
  <2> SUFFICES ASSUME GateInv, [Next]_vars, NEW r \in Requests, NEW w \in Requests,
                      Overtakes(r, w)
               PROVE  FALSE
    OBVIOUS
  <2>1. ~UNCHANGED phase
    OBVIOUS
  <2>2. ASSUME NEW s \in Requests, HandleRequest(s) PROVE FALSE
    <3>1. s = r /\ Admit(s) /\ ~Busy(DomainOf[s]) /\ ~stopped
      BY <2>2 DEF HandleRequest, Refuse, Park, Admit, GateInv, TypeOK, Leased
    <3> QED
      BY <3>1, GateAssumption DEF Busy, GateInv, Bookkeeping, IsTurn
  <2>3. ASSUME NEW s \in Requests, HandleRelease(s) PROVE FALSE
    <3>1. r = waiting[DomainOf[s]] /\ r # s /\ ~stopped
      BY <2>3 DEF HandleRelease, Leased
    <3>2. DomainOf[r] = DomainOf[s]
      BY <3>1, GateAssumption DEF GateInv, Bookkeeping
    <3>3. waiting[DomainOf[w]] = w
      BY <3>1 DEF GateInv, Bookkeeping, IsTurn
    <3>4. r = w
      BY <3>1, <3>2, <3>3
    <3> QED
      BY <3>4 DEF Leased
  <2>4. ASSUME NEW s \in Requests,
               GiveUp(s) \/ HandleAbandoned(s) \/ ReturnStopped(s)
        PROVE  FALSE
    BY <2>4, <2>1 DEF GiveUp, HandleAbandoned, ReturnStopped, Leased, GateInv, TypeOK
  <2>5. ASSUME NEW s \in Requests,
               Receive(s) \/ \E opens \in BOOLEAN : Close(s, opens)
        PROVE  FALSE
    BY <2>5 DEF Receive, Close, Leased, GateInv, TypeOK
  <2>6. ASSUME NEW s \in Requests, NEW wants \in BOOLEAN,
               NEW generation \in {0, seen[s]}, Enter(s, wants, generation)
        PROVE  FALSE
    BY <2>6 DEF Enter, Leased, GateInv, TypeOK
  <2>7. ASSUME NEW s \in Requests,
               Generation(s) \/ Cancel(s) \/ Watch(s) \/ WatchResolved(s)
        PROVE  FALSE
    BY <2>7, <2>1 DEF Generation, Cancel, Watch, WatchResolved
  <2>8. CASE Stop \/ UNCHANGED vars
    BY <2>8, <2>1 DEF Stop, vars
  <2> QED
    BY <2>2, <2>3, <2>4, <2>5, <2>6, <2>7, <2>8 DEF Next, CallerStep, GateStep
<1>2. GateInv /\ [Next]_vars =>
         [\A r, w \in Requests :
             phase[w] = "waiting" /\ phase'[w] = "waiting" /\ DomainOf[r] = DomainOf[w]
                 => ~(phase[r] \notin Leased /\ phase'[r] \in Leased)]_vars
  BY <1>1
<1> QED
  BY <1>2, GateInvariant, PTL DEF Spec, TurnClosesDoor
=============================================================================
