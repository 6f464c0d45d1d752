--------------------------- MODULE MCBundleWriter ---------------------------
(***************************************************************************)
(* Instances of BundleWriter: packages that agree and that clash in each of*)
(* the ways the validations look for.                                      *)
(***************************************************************************)
EXTENDS BundleWriter

CONSTANTS fam, other, opt

Tdf(name, old) == [name |-> name, old |-> old]

Plain == [file |-> "app", kind |-> "application", family |-> fam, neutral |-> FALSE,
          tdfs |-> <<Tdf("desktop", FALSE)>>, resourceId |-> "", apps |-> TRUE,
          main |-> <<>>, resources |-> TRUE]

NeutralDesktop == [Plain EXCEPT !.file = "n1", !.neutral = TRUE]
NeutralBoth == [Plain EXCEPT !.file = "n2", !.neutral = TRUE,
                             !.tdfs = <<Tdf("xbox", FALSE), Tdf("desktop", FALSE)>>]
NeutralXbox == [Plain EXCEPT !.file = "n3", !.neutral = TRUE, !.tdfs = <<Tdf("xbox", FALSE)>>]
OldApp == [Plain EXCEPT !.file = "old", !.tdfs = <<Tdf("desktop", TRUE)>>]
NoApps == [Plain EXCEPT !.file = "empty", !.apps = FALSE]
Stranger == [Plain EXCEPT !.file = "stranger", !.family = other]
French == [Plain EXCEPT !.file = "fr", !.kind = "resource", !.resourceId = "fr"]
FrenchAgain == [French EXCEPT !.file = "fr2", !.resources = FALSE]
Library == [Plain EXCEPT !.kind = "framework", !.file = "lib"]
Optional == [Plain EXCEPT !.file = "o1", !.family = opt, !.main = <<fam>>]
OptionalLibrary == [Optional EXCEPT !.file = "o2", !.kind = "framework"]
OptionalOfTwo == [Optional EXCEPT !.file = "o3", !.main = <<fam, other>>]

MCPackage == {NeutralDesktop, NeutralBoth, NeutralXbox, OldApp, French, FrenchAgain,
              Stranger, Optional, OptionalOfTwo}

SamePackages == {Plain, [Plain EXCEPT !.resources = FALSE]}
RefusedPackages == {NoApps, French}
OptionalPackages == {Plain, Optional, OptionalLibrary}
=============================================================================
