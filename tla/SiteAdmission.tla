---------------------------- MODULE SiteAdmission ----------------------------
(***************************************************************************)
(* What the site editing gate of pkg/sitefreeze promises its callers, with *)
(* no channel, queue or waiting turn in sight: editors share a site, an    *)
(* exclusive owner has it alone, and nobody works on a site under an       *)
(* editing generation that has already been replaced.  SiteGate.tla is the *)
(* participant that implements it.                                         *)
(***************************************************************************)
EXTENDS Naturals

CONSTANTS Domains, Requests, DomainOf

VARIABLES
    holder,     \* holder[r]: "none", or the kind of lease r owns
    ticket,     \* ticket[r]: the generation r insisted on, 0 for any
    epoch       \* epoch[d]: the editing generation of site d

vars == <<holder, ticket, epoch>>

Kinds == {"shared", "exclusive"}

Init ==
    /\ holder = [r \in Requests |-> "none"]
    /\ ticket = [r \in Requests |-> 0]
    /\ epoch = [d \in Domains |-> 1]

Others(r) == {s \in Requests \ {r} : DomainOf[s] = DomainOf[r]}

(* r becomes a holder: alone if exclusive, never beside an exclusive one,   *)
(* and only under the generation it asked for.                              *)
Grant(r, kind, expected) ==
    /\ holder[r] = "none"
    /\ expected \in {0, epoch[DomainOf[r]]}
    /\ \A s \in Others(r) :
          holder[s] # "none" => kind = "shared" /\ holder[s] = "shared"
    /\ holder' = [holder EXCEPT ![r] = kind]
    /\ ticket' = [ticket EXCEPT ![r] = expected]
    /\ UNCHANGED epoch

Return(r) ==
    /\ holder[r] # "none"
    /\ holder' = [holder EXCEPT ![r] = "none"]
    /\ ticket' = [ticket EXCEPT ![r] = 0]
    /\ UNCHANGED epoch

(* The last editor's lease passes straight to an exclusive caller.          *)
HandOver(r, s, expected) ==
    /\ holder[r] = "shared"
    /\ s \in Others(r)
    /\ \A t \in Others(r) : holder[t] = "none"
    /\ expected \in {0, epoch[DomainOf[r]]}
    /\ holder' = [holder EXCEPT ![r] = "none", ![s] = "exclusive"]
    /\ ticket' = [ticket EXCEPT ![r] = 0, ![s] = expected]
    /\ UNCHANGED epoch

(* Only an exclusive owner opens a new generation, by giving its lease up.  *)
Advance(r) ==
    /\ holder[r] = "exclusive"
    /\ holder' = [holder EXCEPT ![r] = "none"]
    /\ epoch' = [epoch EXCEPT ![DomainOf[r]] = @ + 1]
    /\ ticket' = [ticket EXCEPT ![r] = 0]

Next ==
    \E r \in Requests :
        \/ \E kind \in Kinds, expected \in {0, epoch[DomainOf[r]]} :
              Grant(r, kind, expected)
        \/ Return(r)
        \/ Advance(r)
        \/ \E s \in Others(r), expected \in {0, epoch[DomainOf[r]]} :
              HandOver(r, s, expected)

Spec == Init /\ [][Next]_vars
=============================================================================
