---------------------------- MODULE PackageNames ----------------------------
(***************************************************************************)
(* The packages MsixCore is asked to add and remove, by full name, with    *)
(* what the full name tells: the family and the version.                   *)
(***************************************************************************)
EXTENDS Naturals

CONSTANTS Packages,   \* full names of packages
          Family,     \* Family[p]: the family name in it
          Version,    \* Version[p]: the version in it
          NoPkg       \* no package

ASSUME NamesAssumption ==
    /\ DOMAIN Family = Packages
    /\ Version \in [Packages -> Nat]
    /\ \A p, q \in Packages : Family[p] = Family[q] /\ Version[p] = Version[q] => p = q
    /\ NoPkg \notin Packages

=============================================================================
