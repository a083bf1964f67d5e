--------------------------- MODULE MCImportFrontier ---------------------------
(* Instances of ImportFrontier: a site whose first page has more links than *)
(* a batch, and two sources that compete for one page path.                 *)
EXTENDS ImportFrontier, TLC

CONSTANTS p1, p2, p3, j1, j2

(* The first page has three links, one or two of them to itself.            *)
Wide   == (p1 :> <<p2, p1, p3>>) @@ (p2 :> <<p3>>) @@ (p3 :> <<>>)
Looped == (p1 :> <<p1, p1, p2>>) @@ (p2 :> <<>>) @@ (p3 :> <<>>)
Narrow == (p1 :> <<p2>>) @@ (p2 :> <<>>) @@ (p3 :> <<p2>>)
Roots  == ("one" :> p1) @@ ("two" :> p3)

Importing(links, sources, kinds, budget, number, failures) ==
    [links |-> links, root |-> Roots, sources |-> sources, kinds |-> kinds,
     budget |-> budget, calls |-> number, faults |-> failures]

Repeating  == Importing(Wide, {"one", "two"}, {"ai"}, 6, 2, 0)
Crowded    == Importing(Wide, {"one", "two"}, {"ai"}, 2, 1, 1)
Resumed    == Importing(Looped, {"one"}, {"grab", "resume"}, 3, 2, 2)
Competing  == Importing(Narrow, {"one", "two"}, {"grab"}, 4, 2, 1)

AllSetups == {Repeating, Crowded, Resumed, Competing}
ResumedOnce == {[Resumed EXCEPT !.faults = 1]}
=============================================================================
