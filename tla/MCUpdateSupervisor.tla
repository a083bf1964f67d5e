-------------------------- MODULE MCUpdateSupervisor --------------------------
(* Instances of UpdateSupervisor: three releases, the last of which changes *)
(* the data format, with and without a contract to go back.                 *)
EXTENDS UpdateSupervisor, TLC

CONSTANTS db, files

Full == {db, files}

Contract(generation, from, through, migrates, writes) ==
    [generation |-> generation, from |-> from, through |-> through,
     migrates |-> migrates, writes |-> writes]

(* Release 3 writes a format that release 2 reads, and release 1 does not.  *)
Additive == (1 :> Contract(1, 1, 1, 1, TRUE)) @@ (2 :> Contract(1, 1, 2, 1, TRUE))
            @@ (3 :> Contract(2, 1, 2, 1, TRUE))

(* The contract of compatibility.json: generation 2 reads nothing older and *)
(* no predecessor may write behind it.                                      *)
Breaking == (1 :> Contract(1, 1, 1, 1, TRUE)) @@ (2 :> Contract(2, 2, 2, 1, FALSE))
            @@ (3 :> Contract(2, 2, 2, 1, TRUE))

AnyPolicy  == {{}, {db}, Full}
FullPolicy == {Full}

Installation(compat, offline, public, policies, failures) ==
    [compat |-> compat, offline |-> offline, public |-> public,
     policies |-> policies, faults |-> failures]

(* Servers that answer to a shell, behind the public listeners, and a       *)
(* launcher that only maintains the data.                                   *)
Shell       == Installation(Additive, FALSE, FALSE, AnyPolicy, 2)
OneWay      == Installation(Breaking, FALSE, FALSE, AnyPolicy, 2)
PublicSite  == Installation(Additive, FALSE, TRUE, FullPolicy, 1)
Maintenance == Installation(Breaking, TRUE, FALSE, AnyPolicy, 2)

AllSetups    == {Shell, OneWay, PublicSite, Maintenance}
PublicOnce   == {PublicSite}
PublicTwice  == {[PublicSite EXCEPT !.faults = 2]}
ShellOnce    == {Installation(Additive, FALSE, FALSE, FullPolicy, 1)}
=============================================================================
