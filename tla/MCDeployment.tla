---------------------------- MODULE MCDeployment ----------------------------
(***************************************************************************)
(* Instances of Deployment: two versions of one package (a1, a2) and       *)
(* another package (b).  All bring f1; a2 and b bring f2 too, where        *)
(* another program already has a file.  a2 has a registry.dat, with a key  *)
(* that may not be created, one with a token in its name, and the          *)
(* extension that a2 associates too; a1, a2 and b want the same protocol.  *)
(***************************************************************************)
EXTENDS Deployment, TLC

CONSTANTS a1, a2, b, f1, f2

On(f) == [p \in Packages |-> f[p]]
None == [p \in Packages |-> <<>>]

MCFamily == On((a1 :> "A") @@ (a2 :> "A") @@ (b :> "B"))
MCVersion == On((a1 :> 1) @@ (a2 :> 2) @@ (b :> 1))

MCVfs == On((a1 :> {f1} \cap Files) @@ (a2 :> Files) @@ (b :> Files))
MCFileVersion ==
    LET on(v1, v2) == [f \in Files |-> IF f = f1 THEN v1 ELSE v2]
    IN  On((a1 :> on(2, Unversioned)) @@ (a2 :> on(4, 2)) @@ (b :> on(3, Unversioned)))

MCKeys == {"A.lnk", "B.lnk", "uninstall a1", "uninstall a2", "uninstall b", "web",
           "clsid", "iid", "task", ".doc", "A.doc", "rule 1", "rule 2", "play", "alias",
           "software", "settings", "path"}

Links == On((a1 :> <<"A.lnk">>) @@ (a2 :> <<"A.lnk">>) @@ (b :> <<"B.lnk">>))
Uninstalls ==
    On((a1 :> <<"uninstall a1">>) @@ (a2 :> <<"uninstall a2">>) @@ (b :> <<"uninstall b">>))

MCRegKeys ==
    [h \in Registrars |->
       CASE h = "StartMenuLink" -> Links
         [] h = "AddRemovePrograms" -> Uninstalls
         [] h = "Protocol" -> [p \in Packages |-> <<"web">>]
         [] h = "ComInterface" -> [None EXCEPT ![a2] = <<"iid">>]
         [] h = "ComServer" -> [None EXCEPT ![b] = <<"clsid">>]
         [] h = "StartupTask" -> [None EXCEPT ![b] = <<"task">>]
         [] h = "FileTypeAssociation" -> [None EXCEPT ![a1] = <<".doc">>, ![a2] = <<".doc">>]
         [] h = "FirewallRules" -> [None EXCEPT ![b] = <<"rule 1", "rule 2">>]
         [] h = "AutoPlay" -> [None EXCEPT ![a1] = <<"play">>]
         [] h = "AppExecutionAlias" -> [None EXCEPT ![a2] = <<"alias">>]]

MCProgId == [p \in Packages |-> "A.doc"]
MCHiveKeys == [None EXCEPT ![a2] = <<"software", "settings", "path", ".doc">>]

(***************************************************************************)
(* Fewer keys and files, for the runs with every fault.                    *)
(***************************************************************************)
FewVfs == On((a1 :> {}) @@ (a2 :> Files))
FewKeys == {"web", "software", ".doc", "A.doc"}
FewRegKeys ==
    [h \in Registrars |->
       CASE h = "Protocol" -> [p \in Packages |-> <<"web">>]
         [] h = "FileTypeAssociation" -> [None EXCEPT ![a2] = <<".doc">>]
         [] OTHER -> None]
FewHiveKeys == [None EXCEPT ![a2] = <<"software", ".doc">>]

(***************************************************************************)
(* Where an add may fail or be cancelled once the VFS files are copied,    *)
(* and anywhere (where the flag is looked at, and at the end).             *)
(***************************************************************************)
LateHandlers == Registrars \cup {"WriteDevirtualizedRegistry", "PSFScriptExecuter"}
LateCancels == LateHandlers \cup {"VirtualFileHandler", "InstallComplete", "ErrorHandler"}
AllHandlers == KeysOf(AddHandlers) \cup {"CopyFile"}
AllCancels == {"Extractor", "PSFScriptExecuter", "Protocol", "InstallComplete",
               "ErrorHandler"}
RemoveFaults == {"Protocol", "PrepareDevirtualizedRegistry", "VirtualFileHandler",
                 "WriteDevirtualizedRegistry", "Extractor"}
Nowhere == {}
=============================================================================
