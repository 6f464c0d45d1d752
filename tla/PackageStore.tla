---------------------------- MODULE PackageStore ----------------------------
(***************************************************************************)
(* What MsixCore promises to somebody who only asks it which packages are  *)
(* installed (PackageManager::FindPackages) while requests run.            *)
(*                                                                         *)
(* A request first looks whether it may run.  One that is refused then has *)
(* changed nothing.  From then on an add may take away the older versions  *)
(* of its package, which it replaces, and put the package there or take it *)
(* away; a removal may take its package away.  An add that reports success *)
(* leaves the package there.  A removal that does, and an add that reports *)
(* a failure after it began to work, leave it gone, unless its files could *)
(* not be deleted.  Only a killed process may leave anything else behind.  *)
(***************************************************************************)
EXTENDS PackageNames

CONSTANT Threads

VARIABLES installed,   \* the packages FindPackages lists
          phase,       \* phase[t]: "idle", "checking" or "working"
          asked        \* asked[t]: the request and, once it is over, its result

storeVars == <<installed, phase, asked>>

Results == {"ok", "error", "killed"}

StoreTypeOK ==
    /\ installed \subseteq Packages
    /\ phase \in [Threads -> {"idle", "checking", "working"}]
    /\ asked \in [Threads -> [op : {"none", "add", "remove"}, pkg : Packages \cup {NoPkg},
                              left : BOOLEAN,   \* files could not be deleted
                              result : Results \cup {"pending"}]]

StoreInit ==
    /\ installed = {}
    /\ phase = [t \in Threads |-> "idle"]
    /\ asked = [t \in Threads |-> [op |-> "none", pkg |-> NoPkg, left |-> FALSE,
                                      result |-> "ok"]]

Ask(t, op, p) ==
    /\ phase[t] = "idle"
    /\ phase' = [phase EXCEPT ![t] = IF op = "add" THEN "checking" ELSE "working"]
    /\ asked' = [asked EXCEPT ![t] = [op |-> op, pkg |-> p, left |-> FALSE,
                                          result |-> "pending"]]
    /\ UNCHANGED installed

Accept(t) ==
    /\ phase[t] = "checking"
    /\ phase' = [phase EXCEPT ![t] = "working"]
    /\ UNCHANGED <<installed, asked>>

Older(p) == {q \in Packages : Family[q] = Family[p] /\ Version[q] < Version[p]}

Change(t) ==
    LET p == asked[t].pkg
    IN  /\ phase[t] = "working"
        /\ \/ UNCHANGED installed
           \/ asked[t].op = "add" /\ installed' = installed \cup {p}
           \/ asked[t].op = "add" /\ \E q \in Older(p) : installed' = installed \ {q}
           \/ installed' = installed \ {p}
        /\ \E left \in BOOLEAN : asked' = [asked EXCEPT ![t].left = left]
        /\ UNCHANGED phase

Answer(t, result) ==
    /\ phase' = [phase EXCEPT ![t] = "idle"]
    /\ asked' = [asked EXCEPT ![t].result = result]
    /\ UNCHANGED installed

Refuse(t) == phase[t] = "checking" /\ Answer(t, "error")

Finish(t) ==
    /\ phase[t] = "working"
    /\ \/ asked[t].op = "add" /\ asked[t].pkg \in installed /\ Answer(t, "ok")
       \/ /\ asked[t].pkg \notin installed \/ asked[t].left
          /\ Answer(t, "error") \/ (asked[t].op = "remove" /\ Answer(t, "ok"))

Kill(t) == phase[t] # "idle" /\ Answer(t, "killed")

StoreNext ==
    \E t \in Threads :
        \/ \E op \in {"add", "remove"}, p \in Packages : Ask(t, op, p)
        \/ Accept(t) \/ Change(t) \/ Refuse(t) \/ Finish(t) \/ Kill(t)

\* What may happen.
StoreSafe == StoreInit /\ [][StoreNext]_storeVars

(***************************************************************************)
(* Every request is answered.                                              *)
(***************************************************************************)
StoreSpec ==
    /\ StoreSafe
    /\ \A t \in Threads : WF_storeVars(Accept(t) \/ Refuse(t) \/ Finish(t))

=============================================================================
