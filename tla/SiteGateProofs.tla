---------------------------- MODULE SiteGateProofs ----------------------------
(***************************************************************************)
(* Proofs about SiteGate for any number of sites and callers: exclusion,   *)
(* no work under a replaced generation, and the participant's bookkeeping. *)
(* The counter of the participant is a Cardinality, so each step first     *)
(* says what it does to the set of leases of a site (lemmas LeasesSame,    *)
(* LeasesAdd, LeasesDrop), and the invariant follows field by field.       *)
(***************************************************************************)
EXTENDS SiteGate, FiniteSetTheorems, TLAPS

(* The leases of a site are a finite set, counted by a natural number.     *)
LEMMA LeasesFinite ==
    ASSUME NEW d \in Domains
    PROVE  IsFiniteSet(Leases(d)) /\ Cardinality(Leases(d)) \in Nat
<1>1. Leases(d) \subseteq Requests
  BY DEF Leases
<1>2. IsFiniteSet(Leases(d))
  BY <1>1, GateAssumption, FS_Subset
<1> QED
  BY <1>2, FS_CardinalityType

(* A site with no lease counts zero, and a site that counts zero has none.  *)
LEMMA LeasesZero ==
    ASSUME NEW d \in Domains
    PROVE  Cardinality(Leases(d)) = 0 <=> Leases(d) = {}
  BY LeasesFinite, FS_EmptySet

(* Steps that move no caller into or out of Leased leave every set of       *)
(* leases as it was.                                                        *)
LEMMA LeasesSame ==
    ASSUME \A r \in Requests : phase[r] \in Leased <=> phase'[r] \in Leased
    PROVE  \A d \in Domains : Leases(d)' = Leases(d)
  BY DEF Leases

(* A caller that becomes a leaseholder adds itself to its site only.        *)
LEMMA LeasesAdd ==
    ASSUME NEW r \in Requests, phase[r] \notin Leased, phase'[r] \in Leased,
           \A s \in Requests \ {r} : phase[s] \in Leased <=> phase'[s] \in Leased
    PROVE  /\ \A d \in Domains \ {DomainOf[r]} : Leases(d)' = Leases(d)
           /\ Leases(DomainOf[r])' = Leases(DomainOf[r]) \cup {r}
           /\ Cardinality(Leases(DomainOf[r]))' = Cardinality(Leases(DomainOf[r])) + 1
<1>d. DomainOf[r] \in Domains
  BY GateAssumption
<1>1. \A d \in Domains \ {DomainOf[r]} : Leases(d)' = Leases(d)
  BY DEF Leases
<1>2. Leases(DomainOf[r])' = Leases(DomainOf[r]) \cup {r}
  BY DEF Leases
<1>3. r \notin Leases(DomainOf[r])
  BY DEF Leases
<1>4. Cardinality(Leases(DomainOf[r]) \cup {r}) = Cardinality(Leases(DomainOf[r])) + 1
  BY <1>3, <1>d, LeasesFinite, FS_AddElement
<1> QED
  BY <1>1, <1>2, <1>4

(* A caller that gives its lease up leaves its site's set.                  *)
LEMMA LeasesDrop ==
    ASSUME NEW r \in Requests, phase[r] \in Leased, phase'[r] \notin Leased,
           \A s \in Requests \ {r} : phase[s] \in Leased <=> phase'[s] \in Leased
    PROVE  /\ \A d \in Domains \ {DomainOf[r]} : Leases(d)' = Leases(d)
           /\ Leases(DomainOf[r])' = Leases(DomainOf[r]) \ {r}
           /\ Cardinality(Leases(DomainOf[r]))' = Cardinality(Leases(DomainOf[r])) - 1
<1>d. DomainOf[r] \in Domains
  BY GateAssumption
<1>1. \A d \in Domains \ {DomainOf[r]} : Leases(d)' = Leases(d)
  BY DEF Leases
<1>2. Leases(DomainOf[r])' = Leases(DomainOf[r]) \ {r}
  BY DEF Leases
<1>3. r \in Leases(DomainOf[r])
  BY DEF Leases
<1>4. Cardinality(Leases(DomainOf[r]) \ {r}) = Cardinality(Leases(DomainOf[r])) - 1
  BY <1>3, <1>d, LeasesFinite, FS_RemoveElement
<1> QED
  BY <1>1, <1>2, <1>4

-----------------------------------------------------------------------------
(* Type correctness *)

(* Every step keeps every variable in its type.                             *)
LEMMA TypeStep == TypeOK /\ [Next]_vars => TypeOK'
<1> SUFFICES ASSUME TypeOK, [Next]_vars PROVE TypeOK'
  OBVIOUS
<1> USE GateAssumption DEF TypeOK
<1>1. ASSUME NEW r \in Requests, Generation(r) PROVE TypeOK'
  BY <1>1 DEF Generation, siteVars, watchVars
<1>2. ASSUME NEW r \in Requests, NEW wants \in BOOLEAN,
             NEW generation \in {0, seen[r]}, Enter(r, wants, generation)
      PROVE  TypeOK'
  BY <1>2 DEF Enter, siteVars, watchVars, Phases
<1>3. ASSUME NEW r \in Requests, Cancel(r) PROVE TypeOK'
  BY <1>3 DEF Cancel, siteVars, callVars, watchVars
<1>4. ASSUME NEW r \in Requests, GiveUp(r) PROVE TypeOK'
  BY <1>4 DEF GiveUp, siteVars, callVars, watchVars, Phases
<1>5. ASSUME NEW r \in Requests, Receive(r) PROVE TypeOK'
  BY <1>5 DEF Receive, siteVars, callVars, watchVars, Phases
<1>6. ASSUME NEW r \in Requests, NEW opens \in BOOLEAN, Close(r, opens)
      PROVE  TypeOK'
  BY <1>6 DEF Close, siteVars, callVars, watchVars, Phases
<1>7. ASSUME NEW r \in Requests, HandleRequest(r) PROVE TypeOK'
  BY <1>7 DEF HandleRequest, Refuse, Park, Admit, siteVars, callVars, watchVars, Phases
<1>8. ASSUME NEW r \in Requests, HandleAbandoned(r) PROVE TypeOK'
  BY <1>8 DEF HandleAbandoned, siteVars, callVars, watchVars, Phases
<1>9. ASSUME NEW r \in Requests, HandleRelease(r) PROVE TypeOK'
  <2>1. Remaining(DomainOf[r]) \in Nat
    BY DEF Remaining
  <2> QED
    BY <1>9, <2>1 DEF HandleRelease, siteVars, callVars, watchVars, Phases
<1>10. ASSUME NEW r \in Requests, Watch(r) PROVE TypeOK'
  BY <1>10 DEF Watch, siteVars, callVars
<1>11. ASSUME NEW r \in Requests, WatchResolved(r) PROVE TypeOK'
  BY <1>11 DEF WatchResolved, siteVars, callVars
<1>12. ASSUME Stop PROVE TypeOK'
  BY <1>12 DEF Stop, siteVars, callVars, watchVars
<1>13. ASSUME NEW r \in Requests, ReturnStopped(r) PROVE TypeOK'
  BY <1>13 DEF ReturnStopped, siteVars, callVars, watchVars, Phases
<1>14. CASE UNCHANGED vars
  BY <1>14 DEF vars, siteVars, callVars, watchVars
<1> QED
  BY <1>1, <1>2, <1>3, <1>4, <1>5, <1>6, <1>7, <1>8, <1>9, <1>10, <1>11,
     <1>12, <1>13, <1>14 DEF Next, CallerStep, GateStep

(* TypeOK: the gate's and its callers' variables keep their types.          *)
THEOREM TypeCorrect == Spec => []TypeOK
<1>1. Init => TypeOK
  <2> SUFFICES ASSUME Init PROVE TypeOK
    OBVIOUS
  <2>1. /\ active \in [Domains -> Nat]
        /\ epoch \in [Domains -> Nat \ {0}]
        /\ exclusive \in [Domains -> BOOLEAN]
        /\ waiting \in [Domains -> Requests \cup {NoRequest}]
    BY DEF Init
  <2>2. /\ phase \in [Requests -> Phases]
        /\ wantsExclusive \in [Requests -> BOOLEAN]
        /\ expected \in [Requests -> Nat]
        /\ advance \in [Requests -> BOOLEAN]
        /\ canceled \in [Requests -> BOOLEAN]
        /\ seen \in [Requests -> Nat]
    BY DEF Init, Phases
  <2> QED
    BY <2>1, <2>2 DEF Init, TypeOK
<1> QED
  BY <1>1, TypeStep, PTL DEF Spec

-----------------------------------------------------------------------------
(* The inductive invariant *)

(* A step that leaves the participants alone and moves no caller into or    *)
(* out of the leaseholders and the waiting ones keeps the invariant, as     *)
(* long as those callers' wishes stay.                                      *)
LEMMA QuietStep ==
    ASSUME GateInv, TypeOK', AdvanceIsExclusive',
           UNCHANGED <<siteVars, stopped>>,
           \A r \in Requests :
              /\ phase[r] \in Leased <=> phase'[r] \in Leased
              /\ phase[r] = "waiting" <=> phase'[r] = "waiting"
              /\ phase[r] \in Leased \cup {"waiting"} =>
                    /\ wantsExclusive'[r] = wantsExclusive[r]
                    /\ expected'[r] = expected[r]
    PROVE  GateInv'
<1>1. \A d \in Domains : Leases(d)' = Leases(d)
  BY LeasesSame
<1>2. \A d \in Domains, r \in Requests :
          r \in Leases(d) => wantsExclusive'[r] = wantsExclusive[r]
  BY DEF Leases
<1>3. Bookkeeping'
  <2> SUFFICES ASSUME ~stopped PROVE Bookkeeping'
    BY DEF Bookkeeping
  <2>1. ASSUME NEW d \in Domains
        PROVE  /\ active'[d] = Cardinality(Leases(d)')
               /\ exclusive'[d] <=> \E r \in Leases(d)' : wantsExclusive'[r]
    <3>1. Leases(d) \subseteq Requests
      BY DEF Leases
    <3> QED
      BY <1>1, <1>2, <3>1 DEF GateInv, Bookkeeping, siteVars
  <2>2. ASSUME NEW d \in Domains, waiting'[d] # NoRequest
        PROVE  /\ ~exclusive'[d]
               /\ active'[d] > 0
               /\ DomainOf[waiting'[d]] = d
               /\ phase'[waiting'[d]] = "waiting"
               /\ wantsExclusive'[waiting'[d]]
    <3>1. waiting[d] \in Requests
      BY <2>2 DEF GateInv, TypeOK, siteVars
    <3> QED
      BY <2>2, <3>1 DEF GateInv, Bookkeeping, siteVars
  <2>3. \A r \in Requests : phase'[r] = "waiting" => IsTurn(r)'
    BY DEF GateInv, Bookkeeping, IsTurn, siteVars
  <2> QED
    BY <2>1, <2>2, <2>3 DEF Bookkeeping
<1>4. Exclusion'
  BY DEF GateInv, Exclusion
<1>5. NoStaleEditor'
  BY DEF GateInv, NoStaleEditor, siteVars
<1> QED
  BY <1>3, <1>4, <1>5 DEF GateInv

(* After gate.stop the participant is gone: callers only leave.             *)
LEMMA StoppedStep ==
    ASSUME GateInv, TypeOK', stopped', AdvanceIsExclusive', UNCHANGED siteVars,
           UNCHANGED <<wantsExclusive, expected>>,
           \A r \in Requests : phase'[r] \in Leased \cup {"waiting"} =>
                                  phase[r] \in Leased \cup {"waiting"},
           \A r \in Requests : phase'[r] \in Leased => phase[r] \in Leased
    PROVE  GateInv'
<1>1. Bookkeeping'
  BY DEF Bookkeeping
<1>2. Exclusion'
  BY DEF GateInv, Exclusion
<1>3. NoStaleEditor'
  BY DEF GateInv, NoStaleEditor, siteVars
<1> QED
  BY <1>1, <1>2, <1>3 DEF GateInv

(* The gate admits a request: alone if it is exclusive, beside editors only *)
(* otherwise, and under its generation.                                     *)
LEMMA AdmitStep ==
    ASSUME GateInv, TypeOK', NEW r \in Requests, ~stopped, phase[r] = "sent",
           ~Stale(r), ~Busy(DomainOf[r]),
           ~(wantsExclusive[r] /\ active[DomainOf[r]] > 0), Admit(r),
           UNCHANGED <<callVars, advance, canceled, stopped>>
    PROVE  GateInv'
<1> DEFINE d == DomainOf[r]
<1>d. d \in Domains
  BY GateAssumption
<1>p. phase' = [phase EXCEPT ![r] = "granted"]
  BY DEF Admit
<1>o. \A s \in Requests \ {r} : phase'[s] = phase[s]
  BY <1>p DEF GateInv, TypeOK
<1>g. phase'[r] = "granted"
  BY <1>p DEF GateInv, TypeOK
<1>1. /\ \A c \in Domains \ {d} : Leases(c)' = Leases(c)
      /\ Leases(d)' = Leases(d) \cup {r}
      /\ Cardinality(Leases(d))' = Cardinality(Leases(d)) + 1
  BY <1>o, <1>g, LeasesAdd DEF Leased
<1>2. wantsExclusive[r] => Leases(d) = {}
  <2>1. active[d] \in Nat
    BY <1>d DEF GateInv, TypeOK
  <2>2. wantsExclusive[r] => active[d] = 0
    BY <2>1
  <2> QED
    BY <2>2, <1>d, LeasesZero DEF GateInv, Bookkeeping
<1>3. \A s \in Leases(d) : ~wantsExclusive[s]
  BY <1>d DEF GateInv, Bookkeeping, Busy
<1>4. Bookkeeping'
  <2> SUFFICES /\ \A c \in Domains :
                    /\ active'[c] = Cardinality(Leases(c)')
                    /\ exclusive'[c] <=> \E s \in Leases(c)' : wantsExclusive'[s]
                    /\ waiting'[c] # NoRequest =>
                          /\ ~exclusive'[c]
                          /\ active'[c] > 0
                          /\ DomainOf[waiting'[c]] = c
                          /\ phase'[waiting'[c]] = "waiting"
                          /\ wantsExclusive'[waiting'[c]]
               /\ \A s \in Requests : phase'[s] = "waiting" => waiting'[DomainOf[s]] = s
    BY DEF Bookkeeping, IsTurn
  <2>1. ASSUME NEW c \in Domains \ {d}
        PROVE  /\ active'[c] = Cardinality(Leases(c)')
               /\ exclusive'[c] <=> \E s \in Leases(c)' : wantsExclusive'[s]
               /\ waiting'[c] # NoRequest =>
                     /\ ~exclusive'[c]
                     /\ active'[c] > 0
                     /\ DomainOf[waiting'[c]] = c
                     /\ phase'[waiting'[c]] = "waiting"
                     /\ wantsExclusive'[waiting'[c]]
    <3>1. active'[c] = active[c] /\ exclusive'[c] = exclusive[c] /\ waiting'[c] = waiting[c]
      BY DEF Admit, GateInv, TypeOK
    <3>2. waiting[c] # NoRequest => waiting[c] \in Requests
      BY DEF GateInv, TypeOK
    <3> QED
      BY <3>1, <3>2, <1>1, <1>o DEF GateInv, Bookkeeping, callVars
  <2>2. active'[d] = Cardinality(Leases(d)')
    BY <1>1, <1>d DEF Admit, GateInv, TypeOK, Bookkeeping
  <2>3. exclusive'[d] <=> \E s \in Leases(d)' : wantsExclusive'[s]
    <3>1. exclusive'[d] = wantsExclusive[r]
      BY <1>d DEF Admit, GateInv, TypeOK
    <3> QED
      BY <3>1, <1>1, <1>3 DEF callVars
  <2>4. waiting'[d] = NoRequest
    BY DEF Admit, Busy
  <2>5. \A s \in Requests : phase'[s] = "waiting" => waiting'[DomainOf[s]] = s
    BY <1>o, <1>g DEF Admit, GateInv, Bookkeeping, IsTurn
  <2> QED
    BY <2>1, <2>2, <2>3, <2>4, <2>5
<1>5. Exclusion'
  <2> SUFFICES ASSUME NEW s \in Requests, NEW t \in Requests, s # t,
                      DomainOf[s] = DomainOf[t],
                      phase'[s] \in Leased, phase'[t] \in Leased
               PROVE  ~wantsExclusive[s]
    BY DEF Exclusion, callVars
  <2>1. CASE s = r
    <3>1. t \in Leases(d)
      BY <2>1, <1>o DEF Leases
    <3> QED
      BY <3>1, <1>2, <2>1
  <2>2. CASE t = r
    <3>1. s \in Leases(d)
      BY <2>2, <1>o DEF Leases
    <3> QED
      BY <3>1, <1>3
  <2>3. CASE s # r /\ t # r
    BY <2>3, <1>o DEF GateInv, Exclusion
  <2> QED
    BY <2>1, <2>2, <2>3
<1>6. NoStaleEditor'
  BY <1>o, <1>g DEF GateInv, NoStaleEditor, Stale, Admit, callVars
<1>7. AdvanceIsExclusive'
  BY <1>o, <1>g DEF GateInv, AdvanceIsExclusive, callVars
<1> QED
  BY <1>4, <1>5, <1>6, <1>7 DEF GateInv

(* An exclusive caller becomes the waiting turn of a site with editors.     *)
LEMMA ParkStep ==
    ASSUME GateInv, TypeOK', NEW r \in Requests, ~stopped, phase[r] = "sent",
           ~Stale(r), ~Busy(DomainOf[r]),
           wantsExclusive[r], active[DomainOf[r]] > 0, Park(r),
           UNCHANGED <<callVars, advance, canceled, stopped>>
    PROVE  GateInv'
<1> DEFINE d == DomainOf[r]
<1>d. d \in Domains
  BY GateAssumption
<1>o. phase'[r] = "waiting" /\ \A s \in Requests \ {r} : phase'[s] = phase[s]
  BY DEF Park, GateInv, TypeOK
<1>w. waiting'[d] = r /\ \A c \in Domains \ {d} : waiting'[c] = waiting[c]
  BY <1>d DEF Park, GateInv, TypeOK
<1>1. \A c \in Domains : Leases(c)' = Leases(c)
  BY <1>o, LeasesSame DEF Leased
<1>2. Bookkeeping'
  <2>1. \A c \in Domains :
           /\ active'[c] = Cardinality(Leases(c)')
           /\ exclusive'[c] <=> \E s \in Leases(c)' : wantsExclusive'[s]
    BY <1>1 DEF Park, GateInv, Bookkeeping, callVars
  <2>2. ASSUME NEW c \in Domains \ {d}, waiting'[c] # NoRequest
        PROVE  /\ ~exclusive'[c]
               /\ active'[c] > 0
               /\ DomainOf[waiting'[c]] = c
               /\ phase'[waiting'[c]] = "waiting"
               /\ wantsExclusive'[waiting'[c]]
    <3>1. waiting[c] \in Requests
      BY <2>2, <1>w DEF GateInv, TypeOK
    <3> QED
      BY <2>2, <3>1, <1>w, <1>o DEF Park, GateInv, Bookkeeping, callVars
  <2>3. /\ ~exclusive'[d]
        /\ active'[d] > 0
        /\ DomainOf[waiting'[d]] = d
        /\ phase'[waiting'[d]] = "waiting"
        /\ wantsExclusive'[waiting'[d]]
    BY <1>w, <1>o DEF Park, Busy, callVars
  <2>4. \A s \in Requests : phase'[s] = "waiting" => waiting'[DomainOf[s]] = s
    BY <1>w, <1>o, GateAssumption DEF Busy, GateInv, Bookkeeping, IsTurn
  <2> QED
    BY <2>1, <2>2, <2>3, <2>4 DEF Bookkeeping, IsTurn
<1>3. Exclusion'
  BY <1>o DEF GateInv, Exclusion, callVars, Leased
<1>4. NoStaleEditor'
  BY <1>o DEF GateInv, NoStaleEditor, Stale, Park, callVars
<1>5. AdvanceIsExclusive'
  BY <1>o DEF GateInv, AdvanceIsExclusive, callVars
<1> QED
  BY <1>2, <1>3, <1>4, <1>5 DEF GateInv

(* An abandoned turn is withdrawn.                                          *)
LEMMA AbandonedStep ==
    ASSUME GateInv, TypeOK', NEW r \in Requests, HandleAbandoned(r), IsTurn(r)
    PROVE  GateInv'
<1> DEFINE d == DomainOf[r]
<1>d. d \in Domains
  BY GateAssumption
<1>r. phase[r] = "waiting"
  BY <1>d, GateAssumption DEF IsTurn, HandleAbandoned, GateInv, Bookkeeping
<1>o. phase'[r] = "done" /\ \A s \in Requests \ {r} : phase'[s] = phase[s]
  BY DEF HandleAbandoned, GateInv, TypeOK
<1>w. waiting'[d] = NoRequest /\ \A c \in Domains \ {d} : waiting'[c] = waiting[c]
  BY <1>d DEF HandleAbandoned, GateInv, TypeOK
<1>1. \A c \in Domains : Leases(c)' = Leases(c)
  BY <1>o, <1>r, LeasesSame DEF Leased
<1>2. Bookkeeping'
  <2>1. \A c \in Domains :
           /\ active'[c] = Cardinality(Leases(c)')
           /\ exclusive'[c] <=> \E s \in Leases(c)' : wantsExclusive'[s]
    BY <1>1 DEF HandleAbandoned, GateInv, Bookkeeping, callVars
  <2>2. ASSUME NEW c \in Domains, waiting'[c] # NoRequest
        PROVE  /\ ~exclusive'[c]
               /\ active'[c] > 0
               /\ DomainOf[waiting'[c]] = c
               /\ phase'[waiting'[c]] = "waiting"
               /\ wantsExclusive'[waiting'[c]]
    <3>1. c # d /\ waiting'[c] = waiting[c]
      BY <2>2, <1>w
    <3>2. waiting[c] \in Requests /\ DomainOf[waiting[c]] = c
      BY <2>2, <3>1 DEF GateInv, TypeOK, Bookkeeping, HandleAbandoned
    <3>3. waiting[c] # r
      BY <3>1, <3>2
    <3> QED
      BY <2>2, <3>1, <3>2, <3>3, <1>o DEF HandleAbandoned, GateInv, Bookkeeping, callVars
  <2>3. \A s \in Requests : phase'[s] = "waiting" => waiting'[DomainOf[s]] = s
    <3> SUFFICES ASSUME NEW s \in Requests, phase'[s] = "waiting"
                 PROVE  waiting'[DomainOf[s]] = s
      OBVIOUS
    <3>1. s # r /\ waiting[DomainOf[s]] = s
      BY <1>o DEF HandleAbandoned, GateInv, Bookkeeping, IsTurn
    <3>2. DomainOf[s] # d /\ DomainOf[s] \in Domains
      BY <3>1, GateAssumption DEF IsTurn
    <3> QED
      BY <3>1, <3>2, <1>w
  <2> QED
    BY <2>1, <2>2, <2>3 DEF Bookkeeping, IsTurn
<1>3. Exclusion'
  BY <1>o DEF GateInv, Exclusion, HandleAbandoned, callVars, Leased
<1>4. NoStaleEditor'
  BY <1>o DEF GateInv, NoStaleEditor, HandleAbandoned, callVars, Leased
<1>5. AdvanceIsExclusive'
  BY <1>o DEF GateInv, AdvanceIsExclusive, HandleAbandoned, callVars
<1> QED
  BY <1>2, <1>3, <1>4, <1>5 DEF GateInv

(* A lease comes back: the site opens, or passes to the waiting turn.       *)
LEMMA ReleaseStep ==
    ASSUME GateInv, TypeOK', NEW r \in Requests, HandleRelease(r)
    PROVE  GateInv'
<1> DEFINE d == DomainOf[r]
           w == waiting[d]
           turn == Remaining(d) = 0 /\ w # NoRequest
           granted == turn /\ ~canceled[w]
<1>d. d \in Domains /\ ~stopped
  BY GateAssumption DEF HandleRelease
<1>r. phase[r] = "closing" /\ r \in Leases(d)
  BY DEF HandleRelease, Leases, Leased
<1>a. active[d] = Cardinality(Leases(d)) /\ active[d] \in Nat /\ active[d] > 0
  BY <1>d, <1>r, LeasesZero DEF GateInv, TypeOK, Bookkeeping
<1>b. Remaining(d) = active[d] - 1
  BY <1>a DEF Remaining
<1>c. Cardinality(Leases(d) \ {r}) = active[d] - 1
  BY <1>a, <1>r, <1>d, LeasesFinite, FS_RemoveElement
<1>e. Remaining(d) = 0 => Leases(d) = {r}
  <2>1. IsFiniteSet(Leases(d) \ {r})
    BY <1>d, LeasesFinite, FS_Subset
  <2>2. Remaining(d) = 0 => Leases(d) \ {r} = {}
    BY <2>1, <1>b, <1>c, FS_EmptySet
  <2> QED
    BY <2>2, <1>r
<1>t. turn => /\ w \in Requests /\ DomainOf[w] = d /\ phase[w] = "waiting"
              /\ wantsExclusive[w] /\ ~exclusive[d] /\ w # r
  BY <1>d, <1>r DEF GateInv, TypeOK, Bookkeeping
<1>x. wantsExclusive[r] => Leases(d) = {r} /\ waiting[d] = NoRequest
  <2>1. wantsExclusive[r] => Leases(d) = {r}
    BY <1>r DEF GateInv, Exclusion, Leases
  <2>2. wantsExclusive[r] => exclusive[d]
    BY <1>r, <1>d DEF GateInv, Bookkeeping
  <2>3. waiting[d] # NoRequest => ~exclusive[d]
    BY <1>d DEF GateInv, Bookkeeping
  <2> QED
    BY <2>1, <2>2, <2>3
<1>p. /\ phase'[r] = "done"
      /\ turn => phase'[w] = IF granted THEN "granted" ELSE "done"
      /\ \A s \in Requests \ {r} : ~(turn /\ s = w) => phase'[s] = phase[s]
  BY <1>t DEF HandleRelease
<1>v. /\ \A c \in Domains \ {d} : /\ active'[c] = active[c]
                                  /\ epoch'[c] = epoch[c]
                                  /\ exclusive'[c] = exclusive[c]
                                  /\ waiting'[c] = waiting[c]
      /\ active'[d] = IF granted THEN 1 ELSE Remaining(d)
      /\ exclusive'[d] = (granted \/ (exclusive[d] /\ ~wantsExclusive[r]))
      /\ waiting'[d] = IF turn THEN NoRequest ELSE w
      /\ ~advance[r] => epoch' = epoch
  BY <1>d DEF HandleRelease, GateInv, TypeOK
<1>u. UNCHANGED <<wantsExclusive, expected, advance, stopped>>
  BY DEF HandleRelease, callVars
<1>1. \A c \in Domains \ {d} : Leases(c)' = Leases(c)
  BY <1>p, <1>t DEF Leases
<1>2. granted => Leases(d)' = {w}
  <2> SUFFICES ASSUME granted PROVE Leases(d)' = {w}
    OBVIOUS
  <2>1. \A s \in Requests : DomainOf[s] = d /\ phase[s] \in Leased => s = r
    BY <1>e DEF Leases
  <2> QED
    BY <2>1, <1>p, <1>t DEF Leases, Leased
<1>3. ~granted => Leases(d)' = Leases(d) \ {r}
  BY <1>p, <1>t DEF Leases, Leased
<1>4. Bookkeeping'
  <2>1. ASSUME NEW c \in Domains \ {d}
        PROVE  /\ active'[c] = Cardinality(Leases(c)')
               /\ exclusive'[c] <=> \E s \in Leases(c)' : wantsExclusive'[s]
               /\ waiting'[c] # NoRequest =>
                     /\ ~exclusive'[c]
                     /\ active'[c] > 0
                     /\ DomainOf[waiting'[c]] = c
                     /\ phase'[waiting'[c]] = "waiting"
                     /\ wantsExclusive'[waiting'[c]]
    <3>1. waiting[c] # NoRequest => /\ waiting[c] \in Requests
                                    /\ DomainOf[waiting[c]] = c
      BY <1>d DEF GateInv, TypeOK, Bookkeeping
    <3>2. waiting[c] # NoRequest => phase'[waiting[c]] = phase[waiting[c]]
      BY <3>1, <1>p, <1>t
    <3> QED
      BY <3>1, <3>2, <1>v, <1>1, <1>u, <1>d DEF GateInv, Bookkeeping
  <2>2. active'[d] = Cardinality(Leases(d)')
    <3>1. Cardinality({w}) = 1
      BY FS_Singleton
    <3> QED
      BY <3>1, <1>v, <1>2, <1>3, <1>b, <1>c
  <2>3. exclusive'[d] <=> \E s \in Leases(d)' : wantsExclusive'[s]
    <3>1. CASE granted
      BY <3>1, <1>v, <1>2, <1>t, <1>u
    <3>2. CASE ~granted
      <4>1. exclusive'[d] = (exclusive[d] /\ ~wantsExclusive[r])
        BY <3>2, <1>v
      <4>2. exclusive[d] <=> \E s \in Leases(d) : wantsExclusive[s]
        BY <1>d DEF GateInv, Bookkeeping
      <4> QED
        BY <3>2, <4>1, <4>2, <1>3, <1>x, <1>u
    <3> QED
      BY <3>1, <3>2
  <2>4. waiting'[d] # NoRequest =>
            /\ ~exclusive'[d]
            /\ active'[d] > 0
            /\ DomainOf[waiting'[d]] = d
            /\ phase'[waiting'[d]] = "waiting"
            /\ wantsExclusive'[waiting'[d]]
    <3> SUFFICES ASSUME waiting'[d] # NoRequest
                 PROVE  /\ ~exclusive'[d]
                        /\ active'[d] > 0
                        /\ DomainOf[waiting'[d]] = d
                        /\ phase'[waiting'[d]] = "waiting"
                        /\ wantsExclusive'[waiting'[d]]
      OBVIOUS
    <3>1. ~turn /\ waiting'[d] = w /\ w # NoRequest
      BY <1>v
    <3>2. /\ w \in Requests /\ DomainOf[w] = d /\ phase[w] = "waiting"
          /\ wantsExclusive[w] /\ ~exclusive[d]
      BY <3>1, <1>d DEF GateInv, TypeOK, Bookkeeping
    <3>3. active'[d] > 0
      BY <3>1, <1>v, <1>a, <1>b
    <3> QED
      BY <3>1, <3>2, <3>3, <1>v, <1>p, <1>r, <1>u
  <2>5. \A s \in Requests : phase'[s] = "waiting" => waiting'[DomainOf[s]] = s
    <3> SUFFICES ASSUME NEW s \in Requests, phase'[s] = "waiting"
                 PROVE  waiting'[DomainOf[s]] = s
      OBVIOUS
    <3>1. s # r /\ ~(turn /\ s = w) /\ phase[s] = "waiting"
      BY <1>p
    <3>2. waiting[DomainOf[s]] = s
      BY <3>1, <1>d DEF GateInv, Bookkeeping, IsTurn
    <3> QED
      BY <3>1, <3>2, <1>v, GateAssumption
  <2> QED
    BY <2>1, <2>2, <2>3, <2>4, <2>5 DEF Bookkeeping, IsTurn
<1>5. Exclusion'
  <2> SUFFICES ASSUME NEW s \in Requests, NEW q \in Requests, s # q,
                      DomainOf[s] = DomainOf[q],
                      phase'[s] \in Leased, phase'[q] \in Leased
               PROVE  ~wantsExclusive[s]
    BY <1>u DEF Exclusion
  <2>1. CASE granted /\ DomainOf[s] = d
    <3>1. s \in Leases(d)' /\ q \in Leases(d)'
      BY <2>1 DEF Leases
    <3> QED
      BY <3>1, <2>1, <1>2
  <2>2. CASE ~(granted /\ DomainOf[s] = d)
    BY <2>2, <1>p, <1>t DEF GateInv, Exclusion, Leased
  <2> QED
    BY <2>1, <2>2
<1>6. NoStaleEditor'
  <2> SUFFICES ASSUME NEW s \in Requests,
                      phase'[s] \in Leased \cup {"waiting"}, expected[s] # 0
               PROVE  expected[s] = epoch'[DomainOf[s]]
    BY <1>u DEF NoStaleEditor
  <2>1. s # r /\ phase[s] \in Leased \cup {"waiting"}
    BY <1>p, <1>t DEF Leased
  <2>2. expected[s] = epoch[DomainOf[s]] /\ DomainOf[s] \in Domains
    BY <2>1, GateAssumption DEF GateInv, NoStaleEditor
  <2>3. CASE advance[r]
    <3>1. Leases(d) = {r} /\ waiting[d] = NoRequest
      BY <2>3, <1>x DEF GateInv, AdvanceIsExclusive
    <3>2. CASE phase[s] \in Leased
      <4>1. DomainOf[s] # d
        BY <3>1, <3>2, <2>1 DEF Leases
      <4> QED
        BY <4>1, <2>2, <1>v
    <3>3. CASE phase[s] = "waiting"
      <4>1. waiting[DomainOf[s]] = s
        BY <3>3, <1>d DEF GateInv, Bookkeeping, IsTurn
      <4>2. DomainOf[s] # d
        BY <4>1, <3>1, GateAssumption
      <4> QED
        BY <4>2, <2>2, <1>v
    <3> QED
      BY <3>2, <3>3, <2>1
  <2>4. CASE ~advance[r]
    BY <2>4, <2>2, <1>v
  <2> QED
    BY <2>3, <2>4
<1>7. AdvanceIsExclusive'
  BY <1>p, <1>t, <1>u DEF GateInv, AdvanceIsExclusive
<1> QED
  BY <1>4, <1>5, <1>6, <1>7 DEF GateInv

(* Every step of the gate, of its callers and of its watchers keeps the     *)
(* inductive invariant.                                                     *)
LEMMA GateStepInv == GateInv /\ [Next]_vars => GateInv'
<1> SUFFICES ASSUME GateInv, [Next]_vars PROVE GateInv'
  OBVIOUS
<1>t. TypeOK'
  BY TypeStep DEF GateInv
<1> USE <1>t
<1>1. ASSUME NEW r \in Requests, Generation(r) PROVE GateInv'
  <2>1. AdvanceIsExclusive'
    BY <1>1 DEF Generation, GateInv, AdvanceIsExclusive
  <2> QED
    BY <1>1, <2>1, QuietStep DEF Generation
<1>2. ASSUME NEW r \in Requests, NEW wants \in BOOLEAN,
             NEW generation \in {0, seen[r]}, Enter(r, wants, generation)
      PROVE  GateInv'
  <2>1. /\ phase[r] = "idle" /\ phase'[r] = "sent"
        /\ \A s \in Requests \ {r} : /\ phase'[s] = phase[s]
                                     /\ wantsExclusive'[s] = wantsExclusive[s]
                                     /\ expected'[s] = expected[s]
    BY <1>2 DEF Enter, GateInv, TypeOK
  <2>2. AdvanceIsExclusive'
    BY <1>2, <2>1 DEF Enter, GateInv, AdvanceIsExclusive
  <2> QED
    BY <1>2, <2>1, <2>2, QuietStep DEF Enter, Leased
<1>3. ASSUME NEW r \in Requests, Cancel(r) PROVE GateInv'
  <2>1. AdvanceIsExclusive'
    BY <1>3 DEF Cancel, GateInv, AdvanceIsExclusive, callVars
  <2> QED
    BY <1>3, <2>1, QuietStep DEF Cancel, callVars
<1>4. ASSUME NEW r \in Requests, GiveUp(r) PROVE GateInv'
  <2>1. /\ phase[r] = "idle" /\ phase'[r] = "done"
        /\ \A s \in Requests \ {r} : phase'[s] = phase[s]
    BY <1>4 DEF GiveUp, GateInv, TypeOK
  <2>2. AdvanceIsExclusive'
    BY <1>4, <2>1 DEF GiveUp, GateInv, AdvanceIsExclusive, callVars
  <2> QED
    BY <1>4, <2>1, <2>2, QuietStep DEF GiveUp, callVars, Leased
<1>5. ASSUME NEW r \in Requests, Receive(r) PROVE GateInv'
  <2>1. /\ phase[r] = "granted" /\ phase'[r] \in {"closing", "holding"}
        /\ \A s \in Requests \ {r} : phase'[s] = phase[s]
    BY <1>5 DEF Receive, GateInv, TypeOK
  <2>2. AdvanceIsExclusive'
    BY <1>5, <2>1 DEF Receive, GateInv, AdvanceIsExclusive, callVars
  <2> QED
    BY <1>5, <2>1, <2>2, QuietStep DEF Receive, callVars, Leased
<1>6. ASSUME NEW r \in Requests, NEW opens \in BOOLEAN, Close(r, opens)
      PROVE  GateInv'
  <2>1. /\ phase[r] = "holding" /\ phase'[r] = "closing" /\ advance'[r] = opens
        /\ \A s \in Requests \ {r} : /\ phase'[s] = phase[s]
                                     /\ advance'[s] = advance[s]
    BY <1>6 DEF Close, GateInv, TypeOK
  <2>2. AdvanceIsExclusive'
    BY <1>6, <2>1 DEF Close, GateInv, AdvanceIsExclusive, callVars
  <2> QED
    BY <1>6, <2>1, <2>2, QuietStep DEF Close, callVars, Leased
<1>7. ASSUME NEW r \in Requests, HandleRequest(r) PROVE GateInv'
  <2>1. CASE canceled[r] \/ Stale(r) \/ Busy(DomainOf[r])
    <3>1. /\ phase[r] = "sent" /\ phase'[r] = "done"
          /\ \A s \in Requests \ {r} : phase'[s] = phase[s]
      BY <1>7, <2>1 DEF HandleRequest, Refuse, GateInv, TypeOK
    <3>2. UNCHANGED <<siteVars, stopped, callVars, advance>>
      BY <1>7, <2>1 DEF HandleRequest, Refuse
    <3>3. AdvanceIsExclusive'
      BY <3>1, <3>2 DEF GateInv, AdvanceIsExclusive, callVars
    <3> QED
      BY <3>1, <3>2, <3>3, QuietStep DEF callVars, Leased
  <2>2. CASE /\ ~(canceled[r] \/ Stale(r) \/ Busy(DomainOf[r]))
             /\ wantsExclusive[r] /\ active[DomainOf[r]] > 0
    BY <1>7, <2>2, ParkStep DEF HandleRequest
  <2>3. CASE /\ ~(canceled[r] \/ Stale(r) \/ Busy(DomainOf[r]))
             /\ ~(wantsExclusive[r] /\ active[DomainOf[r]] > 0)
    BY <1>7, <2>3, AdmitStep DEF HandleRequest
  <2> QED
    BY <2>1, <2>2, <2>3
<1>8. ASSUME NEW r \in Requests, HandleAbandoned(r) PROVE GateInv'
  <2>1. CASE IsTurn(r)
    BY <1>8, <2>1, AbandonedStep
  <2>2. CASE ~IsTurn(r)
    <3>1. UNCHANGED <<siteVars, stopped, callVars, advance, phase>>
      BY <1>8, <2>2 DEF HandleAbandoned, siteVars
    <3>2. AdvanceIsExclusive'
      BY <3>1 DEF GateInv, AdvanceIsExclusive, callVars
    <3> QED
      BY <3>1, <3>2, QuietStep DEF callVars
  <2> QED
    BY <2>1, <2>2
<1>9. ASSUME NEW r \in Requests, HandleRelease(r) PROVE GateInv'
  BY <1>9, ReleaseStep
<1>10. ASSUME NEW r \in Requests, Watch(r) \/ WatchResolved(r) PROVE GateInv'
  <2>1. UNCHANGED <<siteVars, stopped, callVars, advance, phase>>
    BY <1>10 DEF Watch, WatchResolved
  <2>2. AdvanceIsExclusive'
    BY <2>1 DEF GateInv, AdvanceIsExclusive, callVars
  <2> QED
    BY <2>1, <2>2, QuietStep DEF callVars
<1>11. CASE Stop
  <2>1. AdvanceIsExclusive'
    BY <1>11 DEF Stop, GateInv, AdvanceIsExclusive, callVars
  <2> QED
    BY <1>11, <2>1, StoppedStep DEF Stop, callVars
<1>12. ASSUME NEW r \in Requests, ReturnStopped(r) PROVE GateInv'
  <2>1. phase'[r] = "done" /\ \A s \in Requests \ {r} : phase'[s] = phase[s]
    BY <1>12 DEF ReturnStopped, GateInv, TypeOK
  <2>2. AdvanceIsExclusive'
    BY <1>12, <2>1 DEF ReturnStopped, GateInv, AdvanceIsExclusive, callVars
  <2> QED
    BY <1>12, <2>1, <2>2, StoppedStep DEF ReturnStopped, callVars, Leased
<1>13. CASE UNCHANGED vars
  <2>1. UNCHANGED <<siteVars, stopped, callVars, advance, phase>>
    BY <1>13 DEF vars
  <2>2. AdvanceIsExclusive'
    BY <2>1 DEF GateInv, AdvanceIsExclusive, callVars
  <2> QED
    BY <2>1, <2>2, QuietStep DEF callVars
<1> QED
  BY <1>1, <1>2, <1>3, <1>4, <1>5, <1>6, <1>7, <1>8, <1>9, <1>10, <1>11,
     <1>12, <1>13 DEF Next, CallerStep, GateStep

(* A fresh process has no lease, no turn and no exclusive owner.            *)
LEMMA GateStart == Init => GateInv
<1> SUFFICES ASSUME Init PROVE GateInv
  OBVIOUS
<1>1. TypeOK
  <2>1. /\ active \in [Domains -> Nat]
        /\ epoch \in [Domains -> Nat \ {0}]
        /\ exclusive \in [Domains -> BOOLEAN]
        /\ waiting \in [Domains -> Requests \cup {NoRequest}]
    BY DEF Init
  <2>2. /\ phase \in [Requests -> Phases]
        /\ wantsExclusive \in [Requests -> BOOLEAN]
        /\ expected \in [Requests -> Nat]
        /\ advance \in [Requests -> BOOLEAN]
        /\ canceled \in [Requests -> BOOLEAN]
        /\ seen \in [Requests -> Nat]
    BY DEF Init, Phases
  <2> QED
    BY <2>1, <2>2 DEF Init, TypeOK
<1>2. \A d \in Domains : Leases(d) = {} /\ Cardinality(Leases(d)) = 0
  BY FS_EmptySet DEF Init, Leases, Leased
<1>3. Bookkeeping
  BY <1>2 DEF Init, Bookkeeping
<1> QED
  BY <1>1, <1>3 DEF Init, GateInv, AdvanceIsExclusive, Exclusion, NoStaleEditor, Leased

(* The inductive invariant holds in every state.                            *)
THEOREM GateInvariant == Spec => []GateInv
  BY GateStart, GateStepInv, PTL DEF Spec

(* Exclusion: while the exclusive lease of a site is out, no other lease of *)
(* that site is, for any number of sites and callers.                       *)
THEOREM ExclusionHolds == Spec => []Exclusion
<1>1. GateInv => Exclusion
  BY DEF GateInv
<1> QED
  BY <1>1, GateInvariant, PTL

(* NoStaleEditor: whoever holds or awaits a lease for a named generation    *)
(* holds or awaits it for the current one.                                  *)
THEOREM NoStaleEditorHolds == Spec => []NoStaleEditor
<1>1. GateInv => NoStaleEditor
  BY DEF GateInv
<1> QED
  BY <1>1, GateInvariant, PTL

(* Bookkeeping: the participant's counter, flag and turn agree with the     *)
(* leases that are really out.                                              *)
THEOREM BookkeepingHolds == Spec => []Bookkeeping
<1>1. GateInv => Bookkeeping
  BY DEF GateInv
<1> QED
  BY <1>1, GateInvariant, PTL
=============================================================================
