---------------------------- MODULE MCSiteDatabases ----------------------------
(* Instances of SiteDatabases: three callers, one or two readers.           *)
EXTENDS SiteDatabases, TLC

CONSTANTS c1, c2, c3, r1, o1, o2

Asking(first, second, third) ==
    [kinds |-> c1 :> first @@ c2 :> second @@ c3 :> third, leaving |-> {}, endless |-> {},
     creating |-> {}, removes |-> FALSE, shuts |-> FALSE]

(* Writers that never rest beside a migration, and beside a reader.         *)
Busy    == Asking({"write"}, {"write"}, {"general"})
Reading == Asking({"write"}, {"rows"}, {"rows"})

(* A caller that leaves and comes back with another kind of change.         *)
Leaving == [Asking({"write", "general"}, {"write"}, {}) EXCEPT !.leaving = {c1, c2}]

(* A job that goes on while a handler leaves and the program shuts down.    *)
Ending == [Asking({"write", "general", "rows"}, {"rows"}, {})
             EXCEPT !.endless = {c1}, !.leaving = {c2}, !.shuts = TRUE]

(* The site is removed and registered again under a job that goes on.       *)
Removed == [Asking({"rows"}, {}, {"write"})
              EXCEPT !.endless = {c1}, !.creating = {c3}, !.removes = TRUE]

AllSetups == {Busy, Reading, Leaving, Ending, Removed}
=============================================================================
