----------------------------- MODULE MCSiteFreeze -----------------------------
(* Instances of SiteFreeze: a published page, a draft and a file.           *)
EXTENDS SiteFreeze

CONSTANTS a, b, c1, c2, startup

Considering(some, frozen, faulty, dying) ==
    [calls |-> some, faults |-> faulty, crashes |-> dying, drafts |-> {b}, frozen |-> frozen,
     socket |-> TRUE, patient |-> TRUE]

(* The process dies anywhere in a freeze, an edit, a cancellation.          *)
Interrupted == Considering([freeze |-> 1, page |-> 1, restore |-> 1], FALSE, 0, 2)

(* Publication and cancellation of a frozen site, of which either fails.    *)
Republished == Considering([page |-> 1, publish |-> 1, restore |-> 1], TRUE, 0, 1)
Refused     == Considering([publish |-> 2, restore |-> 1], TRUE, 1, 0)
Created     == [Considering([page |-> 2, publish |-> 1, restore |-> 1], TRUE, 1, 0)
                  EXCEPT !.drafts = {}]

(* Owners that do not wait for recovery, and a form instead of the socket.  *)
Rivals == [Considering([freeze |-> 1, publish |-> 1, restore |-> 1], FALSE, 1, 1)
             EXCEPT !.patient = FALSE, !.socket = FALSE]

(* An owner publishes and freezes again while startup still finishes the    *)
(* publication.                                                             *)
Overtaken == [Considering([freeze |-> 1, publish |-> 1, restore |-> 1], TRUE, 0, 1)
                EXCEPT !.patient = FALSE]

(* Files, settings and imports beside a cancellation.                       *)
Uploaded  == Considering([upload |-> 1, delete |-> 1, restore |-> 1], TRUE, 1, 1)
Linked    == Considering([link |-> 1, revoke |-> 1, freeze |-> 1, restore |-> 1], FALSE, 0, 1)
Protected == Considering([password |-> 2, redirect |-> 1, restore |-> 1], TRUE, 0, 1)
Imported  == Considering([import |-> 2, restore |-> 1], TRUE, 1, 1)

AllSetups == {Interrupted, Republished, Refused, Created, Rivals, Overtaken,
              Uploaded, Linked, Protected, Imported}
DraftSetups == {Republished}
=============================================================================
