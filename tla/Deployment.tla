----------------------------- MODULE Deployment -----------------------------
(***************************************************************************)
(* MsixCore's deployment pipeline (MsixRequest and the package handlers):  *)
(* what it does to the package directories, the machine wide VFS files,    *)
(* the SharedDLLs counts and the registry while it adds and removes        *)
(* packages.  A thread runs one request at a time; each step is the part   *)
(* of a handler between two points where it can fail, be cancelled, or     *)
(* meet another thread's step.                                             *)
(*                                                                         *)
(* A request that adds a package may run a whole request to remove one     *)
(* inside it: ProcessPotentialUpdate removes the older version, and        *)
(* ErrorHandler the package that could not be added.                       *)
(***************************************************************************)
EXTENDS VirtualFiles, Registrations

CONSTANTS FailAt,        \* handlers that may fail during an add
          RemoveFailAt,  \* handlers that may fail during a removal
          CancelAt,      \* handlers during which the user may cancel
          UnloadMayFail, \* whether Windows may refuse to unload a registry.dat
          MayCrash,      \* whether the process may be killed
          Scripted,      \* packages whose PSF script the add waits for
          MaxRequests    \* bound: the requests started

ASSUME DeployAssumption ==
    /\ MayCrash \in BOOLEAN
    /\ UnloadMayFail \in BOOLEAN
    /\ MaxRequests \in Nat

VARIABLES dir,        \* dir[p]: what there is in p's directory
          hive,       \* hive[p]: who has p's registry.dat mounted
          req,        \* req[t]: the request of thread t
          requests,   \* how many were started
          stuck       \* history: the packages a removal has left behind

machineVars == <<dir, hive, target, shared, reg>>
vars == <<dir, hive, req, requests, stuck, target, shared, vfs, reg>>

-----------------------------------------------------------------------------
(***************************************************************************)
(* The two sequences of handlers.                                          *)
(***************************************************************************)
AddHandlers ==
    <<"PopulatePackageInfo", "ValidateArchitecture", "ValidateTargetDeviceFamily",
      "ProcessPotentialUpdate", "Extractor", "PrepareDevirtualizedRegistry",
      "VirtualFileHandler", "WriteDevirtualizedRegistry", "PSFScriptExecuter",
      "StartMenuLink", "AddRemovePrograms", "Protocol", "ComInterface", "ComServer",
      "StartupTask", "FileTypeAssociation", "FirewallRules", "AutoPlay",
      "AppExecutionAlias", "InstallComplete">>

\* Mutant: a handler of the add is forgotten in the removal.
MutRemoveHandlers ==
    <<"PopulatePackageInfo", "StartMenuLink", "AddRemovePrograms",
      "PrepareDevirtualizedRegistry", "Protocol", "ComInterface", "ComServer",
      "StartupTask", "FileTypeAssociation", "AutoPlay",
      "AppExecutionAlias", "VirtualFileHandler", "WriteDevirtualizedRegistry",
      "Extractor">>

RemoveHandlers ==
    <<"PopulatePackageInfo", "StartMenuLink", "AddRemovePrograms",
      "PrepareDevirtualizedRegistry", "Protocol", "ComInterface", "ComServer",
      "StartupTask", "FileTypeAssociation", "FirewallRules", "AutoPlay",
      "AppExecutionAlias", "VirtualFileHandler", "WriteDevirtualizedRegistry",
      "Extractor">>

NextHandler(chain, h) == chain[(CHOOSE i \in DOMAIN chain : chain[i] = h) + 1]

\* Mutant: a failed extraction ends the add without ErrorHandler.
MutReturnError == {"PopulatePackageInfo", "ValidateArchitecture",
                   "ValidateTargetDeviceFamily", "ProcessPotentialUpdate", "Extractor"}

(***************************************************************************)
(* A failure of one of these ends an add; a later one goes to ErrorHandler.*)
(***************************************************************************)
ReturnError == {"PopulatePackageInfo", "ValidateArchitecture",
                "ValidateTargetDeviceFamily", "ProcessPotentialUpdate"}

(***************************************************************************)
(* What Extractor writes, in order: the footprint files (the manifest; the *)
(* block map stands for the others), then the payload.                     *)
(***************************************************************************)
Contents(p) ==
    <<"manifest", "blockmap">> \o
    (IF HiveKeys[p] = <<>> THEN <<"files">> ELSE <<"registry.dat", "files">>)

Items == {"root", "manifest", "blockmap", "registry.dat", "files"}

(***************************************************************************)
(* registry.dat can be mounted once.  A mount stays when its process was   *)
(* killed, or its request is over and Windows would not unload it.         *)
(***************************************************************************)
Free == <<>>
Stray == <<"stray">>

Errors == {"failed", "downgrade", "userexit"}

Request ==
    [op : {"none", "add", "remove"}, pkg : Packages \cup {NoPkg},
     pc : KeysOf(AddHandlers) \cup {"ErrorHandler", "done"},
     todo : Nat, reinstall : BOOLEAN,
     rem : Packages \cup {NoPkg}, rpc : KeysOf(RemoveHandlers) \cup {"done"},
     left : BOOLEAN,   \* remove_all could not delete the directory (only traced)
     status : {"unknown", "started", "extraction", "completed", "error"},
     code : Errors \cup {"ok"}, cancelled : BOOLEAN,
     hr : Errors \cup {"ok", "pending", "killed"}]

NoRequest ==
    [op |-> "none", pkg |-> NoPkg, pc |-> "done", todo |-> 0, reinstall |-> FALSE,
     rem |-> NoPkg, rpc |-> "done", left |-> FALSE, status |-> "unknown", code |-> "ok",
     cancelled |-> FALSE, hr |-> "ok"]

DeployTypeOK ==
    /\ VfsTypeOK
    /\ RegTypeOK
    /\ dir \in [Packages -> SUBSET Items]
    /\ hive \in [Packages -> {Free, Stray} \cup (Threads \X {"add", "remove"})]
    /\ req \in [Threads -> Request]
    /\ requests \in 0..MaxRequests
    /\ stuck \subseteq Packages

Init ==
    /\ VfsInit
    /\ RegInit
    /\ dir = [p \in Packages |-> {}]
    /\ hive = [p \in Packages |-> Free]
    /\ req = [t \in Threads |-> NoRequest]
    /\ requests = 0
    /\ stuck = {}

-----------------------------------------------------------------------------
(***************************************************************************)
(* How a request goes on.                                                  *)
(***************************************************************************)
Active(t) == req[t].hr = "pending"
Adding(t, h) == Active(t) /\ req[t].rem = NoPkg /\ req[t].pc = h
Removing(t, h) == Active(t) /\ req[t].rem # NoPkg /\ req[t].rpc = h

RemoveOf(r, p) == [r EXCEPT !.rem = p, !.rpc = "PopulatePackageInfo"]

\* MsixResponse::SetErrorStatus: the first error stays.
SetErrorStatus(r, code) ==
    IF r.code = "ok" THEN [r EXCEPT !.code = code, !.status = "error"] ELSE r

Returned(r, hr) ==
    [r EXCEPT !.pc = "done", !.rem = NoPkg, !.rpc = "done", !.todo = 0,
              !.reinstall = FALSE, !.cancelled = FALSE, !.hr = hr]

\* A handler of an add returned S_OK, or failed.
Goes(t) ==
    req' = [req EXCEPT ![t].pc = NextHandler(AddHandlers, @), ![t].todo = 0]

Fails(t, code) ==
    LET r == SetErrorStatus(req[t], code)
    IN  req' = [req EXCEPT ![t] =
                  IF r.pc \in ReturnError
                    THEN Returned(r, code)
                    ELSE RemoveOf([r EXCEPT !.pc = "ErrorHandler", !.todo = 0], r.pkg)]

MayFail(t) == req[t].pc \in FailAt

\* A handler of a removal is over, well or not.
GoesOn(t) == req' = [req EXCEPT ![t].rpc = NextHandler(RemoveHandlers, @)]

MayFailToRemove(t) == req[t].rpc \in RemoveFailAt

\* Mutant: ErrorHandler returns the result of its removal.
MutRemovedResult(r, hr) ==
    CASE r.op = "remove" -> Returned(IF hr = "ok" THEN r ELSE SetErrorStatus(r, hr), hr)
      [] r.pc = "ProcessPotentialUpdate" ->
             [r EXCEPT !.pc = "Extractor", !.rem = NoPkg, !.rpc = "done"]
      [] r.pc = "ErrorHandler" -> Returned(r, hr)

\* Mutant: the update is looked for again until none is found.
MutRemovedRetry(r, hr) ==
    CASE r.op = "remove" -> Returned(IF hr = "ok" THEN r ELSE SetErrorStatus(r, hr), hr)
      [] r.pc = "ProcessPotentialUpdate" -> [r EXCEPT !.rem = NoPkg, !.rpc = "done"]
      [] r.pc = "ErrorHandler" -> Returned(r, r.code)

\* The removal is over: what the request around it does.  The result of a
\* removal inside an add is only logged.
Removed(r, hr) ==
    CASE r.op = "remove" -> Returned(IF hr = "ok" THEN r ELSE SetErrorStatus(r, hr), hr)
      [] r.pc = "ProcessPotentialUpdate" ->
             [r EXCEPT !.pc = "Extractor", !.rem = NoPkg, !.rpc = "done"]
      [] r.pc = "ErrorHandler" -> Returned(r, r.code)

\* Mutant: the destructor does not unload.
MutRelease(t, kinds) == UNCHANGED hive

\* The RegistryDevirtualizer of a request goes with it and unloads what it
\* has mounted.  When Windows refuses, nobody will try again.
Release(t, kinds) ==
    LET mine == {p \in Packages : hive[p] \in {t} \X kinds}
    IN  \E refused \in SUBSET mine :
          /\ refused = {} \/ UnloadMayFail
          /\ hive' = [p \in Packages |-> IF p \in refused THEN Stray
                                         ELSE IF p \in mine THEN Free ELSE hive[p]]

\* A handler unloads it.  When Windows refuses, it goes on all the same.
UnloadMountedHive(p) ==
    \/ hive' = [hive EXCEPT ![p] = Free]
    \/ UnloadMayFail /\ UNCHANGED hive

RemovalReturns(t, hr) ==
    /\ req' = [req EXCEPT ![t] = Removed(@, hr)]
    /\ Release(t, IF req'[t].hr = "pending" THEN {"remove"} ELSE {"add", "remove"})

-----------------------------------------------------------------------------
(***************************************************************************)
(* Requests are made, and cancelled from another thread.                   *)
(***************************************************************************)
Start(t, op, p) ==
    /\ ~Active(t)
    /\ requests < MaxRequests
    /\ LET r == [NoRequest EXCEPT !.op = op, !.pkg = p, !.status = "started",
                                  !.hr = "pending"]
       IN  req' = [req EXCEPT ![t] = IF op = "add"
                                       THEN [r EXCEPT !.pc = "PopulatePackageInfo"]
                                       ELSE RemoveOf(r, p)]
    /\ requests' = requests + 1
    /\ UNCHANGED <<machineVars, vfs, stuck>>

CancelRequest(t) ==
    /\ Active(t)
    /\ req[t].pc \in CancelAt
    /\ ~req[t].cancelled
    /\ req' = [req EXCEPT ![t].cancelled = TRUE]
    /\ UNCHANGED <<machineVars, vfs, requests, stuck>>

(***************************************************************************)
(* The process is killed.  What it has mounted stays mounted.              *)
(***************************************************************************)
Crash(t) ==
    /\ MayCrash
    /\ Active(t)
    /\ req' = [req EXCEPT ![t] = Returned(@, "killed")]
    /\ hive' = [p \in Packages |->
                  IF hive[p] \in {t} \X {"add", "remove"} THEN Stray ELSE hive[p]]
    /\ CloseVfs(t)
    /\ UNCHANGED <<dir, target, shared, reg, requests, stuck>>

-----------------------------------------------------------------------------
(***************************************************************************)
(* The handlers of an add.                                                 *)
(***************************************************************************)
Validate(t) ==
    /\ \E h \in ReturnError \ {"ProcessPotentialUpdate"} : Adding(t, h)
    /\ Goes(t) \/ (MayFail(t) /\ Fails(t, "failed"))
    /\ UNCHANGED <<machineVars, vfs, requests, stuck>>

\* Mutant: the older version stays.
MutProcessPotentialUpdate(t) ==
    LET p == req[t].pkg
        sameFamily == {q \in Packages : "root" \in dir[q] /\ Family[q] = Family[p]}
    IN  /\ Adding(t, "ProcessPotentialUpdate")
        /\ \/ sameFamily = {} /\ Goes(t)
           \/ /\ p \in sameFamily
              /\ req' = [req EXCEPT ![t].reinstall = TRUE, ![t].pc = "Extractor"]
           \/ \E q \in sameFamily \ {p} :
                 IF Version[p] > Version[q] THEN Goes(t) ELSE Fails(t, "downgrade")
        /\ UNCHANGED <<machineVars, vfs, requests, stuck>>

\* The first directory of the family that the iterator comes upon decides.
ProcessPotentialUpdate(t) ==
    LET p == req[t].pkg
        sameFamily == {q \in Packages : "root" \in dir[q] /\ Family[q] = Family[p]}
    IN  /\ Adding(t, "ProcessPotentialUpdate")
        /\ \/ sameFamily = {} /\ Goes(t)
           \/ /\ p \in sameFamily
              /\ req' = [req EXCEPT ![t].reinstall = TRUE, ![t].pc = "Extractor"]
           \/ \E q \in sameFamily \ {p} :
                 IF Version[p] > Version[q]
                   THEN req' = [req EXCEPT ![t] = RemoveOf(@, q)]
                   ELSE Fails(t, "downgrade")
        /\ UNCHANGED <<machineVars, vfs, requests, stuck>>

CreatePackageRoot(t) ==
    /\ Adding(t, "Extractor")
    /\ req[t].todo = 0
    /\ \/ /\ dir' = [dir EXCEPT ![req[t].pkg] = @ \cup {"root"}]
          /\ req' = [req EXCEPT ![t].todo = 1]
       \/ MayFail(t) /\ Fails(t, "failed") /\ UNCHANGED dir
    /\ UNCHANGED <<hive, target, shared, reg, vfs, requests, stuck>>

\* A file whose extraction fails is left as it was, or damaged.
ExtractFile(t) ==
    LET p == req[t].pkg
        todo == req[t].todo
        item == Contents(p)[todo]
        mounted == item = "registry.dat" /\ hive[p] # Free
    IN  /\ Adding(t, "Extractor")
        /\ todo > 0
        /\ \/ req[t].cancelled /\ Fails(t, "userexit") /\ UNCHANGED dir
           \/ /\ ~req[t].cancelled /\ ~mounted
              /\ dir' = [dir EXCEPT ![p] = @ \cup {item}]
              /\ IF todo = Len(Contents(p))
                   THEN req' = [req EXCEPT ![t].pc = NextHandler(AddHandlers, @),
                                           ![t].todo = 0, ![t].status = "extraction"]
                   ELSE req' = [req EXCEPT ![t].todo = @ + 1]
           \/ /\ ~req[t].cancelled /\ (MayFail(t) \/ mounted)
              /\ Fails(t, "failed")
              /\ \/ UNCHANGED dir
                 \/ ~mounted /\ dir' = [dir EXCEPT ![p] = @ \ {item}]
        /\ UNCHANGED <<hive, target, shared, reg, vfs, requests, stuck>>

PrepareDevirtualizedRegistry(t) ==
    LET p == req[t].pkg
        there == "registry.dat" \in dir[p]
    IN  /\ Adding(t, "PrepareDevirtualizedRegistry")
        /\ \/ ~there /\ Goes(t) /\ UNCHANGED hive
           \/ /\ there /\ hive[p] = Free
              /\ hive' = [hive EXCEPT ![p] = <<t, "add">>]
              /\ Goes(t)
           \/ /\ MayFail(t) \/ (there /\ hive[p] # Free)
              /\ Fails(t, "failed")
              /\ UNCHANGED hive
        /\ UNCHANGED <<dir, target, shared, reg, vfs, requests, stuck>>

CopyVfsFiles(t) ==
    LET r == req[t]
    IN  /\ Adding(t, "VirtualFileHandler")
        /\ \/ OpenVfs(t, Vfs[r.pkg]) /\ UNCHANGED req
           \/ ReadShared(t) /\ UNCHANGED req
           \/ /\ \E copies \in {TRUE} \cup {"CopyFile" \notin FailAt} :
                    CopyVfsFile(t, r.pkg, r.reinstall, copies)
              /\ UNCHANGED req
           \/ VfsDone(t) /\ CloseVfs(t) /\ Goes(t) /\ UNCHANGED <<target, shared>>
           \/ /\ MayFail(t) \/ Vanished(t)
              /\ FailVfsFile(t, r.reinstall)
              /\ Fails(t, "failed")
        /\ UNCHANGED <<dir, hive, reg, requests, stuck>>

\* registry.dat is written into the registry and unloaded, well or not.
WriteDevirtualizedRegistry(t) ==
    LET r == req[t]
        mounted == hive[r.pkg] = <<t, "add">>
        ks == IF mounted THEN HiveKeys[r.pkg] ELSE <<>>
    IN  /\ Adding(t, "WriteDevirtualizedRegistry")
        /\ \/ /\ r.todo < Len(ks)
              /\ DevirtualizeKey(r.pkg, ks[r.todo + 1])
              /\ req' = [req EXCEPT ![t].todo = @ + 1]
              /\ UNCHANGED hive
           \/ /\ r.todo = Len(ks)
              /\ IF mounted THEN UnloadMountedHive(r.pkg) ELSE UNCHANGED hive
              /\ Goes(t)
              /\ UNCHANGED reg
           \/ /\ r.todo < Len(ks) /\ MayFail(t)
              /\ reg' \in {reg, Torn(r.pc, r.pkg, ks[r.todo + 1])}
              /\ UnloadMountedHive(r.pkg)
              /\ Fails(t, "failed")
        /\ UNCHANGED <<dir, target, shared, vfs, requests, stuck>>

\* The package's script is started; the handler may wait for its end, however
\* long that takes (WaitForSingleObject with INFINITE).
PSFScriptExecuter(t) ==
    /\ Adding(t, "PSFScriptExecuter")
    /\ req[t].todo = 0
    /\ \/ req[t].cancelled /\ Fails(t, "userexit")
       \/ ~req[t].cancelled /\ req[t].pkg \notin Scripted /\ Goes(t)
       \/ /\ ~req[t].cancelled /\ req[t].pkg \in Scripted
          /\ req' = [req EXCEPT ![t].todo = 1]
       \/ ~req[t].cancelled /\ MayFail(t) /\ Fails(t, "failed")
    /\ UNCHANGED <<machineVars, vfs, requests, stuck>>

ScriptEnds(t) ==
    /\ Adding(t, "PSFScriptExecuter")
    /\ req[t].todo = 1
    /\ Goes(t)
    /\ UNCHANGED <<machineVars, vfs, requests, stuck>>

\* Where the handlers look at the cancel flag: at the start, while the
\* manifest's extensions are read, or before each file type.
HasExtensions(p) ==
    \E h \in Registrars \ {"StartMenuLink", "AddRemovePrograms"} : RegKeys[h][p] # <<>>

PollsCancel(r) ==
    \/ r.pc \in {"StartMenuLink", "AddRemovePrograms"} /\ r.todo = 0
    \/ r.pc = "Protocol" /\ r.todo = 0 /\ HasExtensions(r.pkg)
    \/ r.pc = "FileTypeAssociation" /\ r.todo < Len(RegKeys[r.pc][r.pkg])

\* A handler goes through its keys one by one.
Register(t) ==
    LET r == req[t]
        ks == HandlerKeys(r.pc, r.pkg)
        passed == PassesOver(r.pc, r.pkg, hive[r.pkg] = <<t, "add">>)
        k == ks[r.todo + 1]
        stop == r.cancelled /\ PollsCancel(r)
    IN  /\ \E h \in Registrars : Adding(t, h)
        /\ \/ stop /\ Fails(t, "userexit") /\ UNCHANGED reg
           \/ /\ ~stop /\ r.todo < Len(ks)
              /\ reg' = IF k \in passed THEN reg ELSE Written(r.pkg, k)
              /\ req' = [req EXCEPT ![t].todo = @ + 1]
           \/ ~stop /\ r.todo = Len(ks) /\ Goes(t) /\ UNCHANGED reg
           \/ /\ ~stop /\ r.todo < Len(ks) /\ MayFail(t)
              /\ \/ UNCHANGED reg
                 \/ k \notin passed /\ reg' \in {Torn(r.pc, r.pkg, k), Written(r.pkg, k)}
              /\ Fails(t, "failed")
        /\ UNCHANGED <<dir, hive, target, shared, vfs, requests, stuck>>

InstallComplete(t) ==
    /\ Adding(t, "InstallComplete")
    /\ req' = [req EXCEPT ![t] =
                 Returned(IF req[t].cancelled THEN @ ELSE [@ EXCEPT !.status = "completed"],
                          "ok")]
    /\ Release(t, {"add"})
    /\ UNCHANGED <<dir, target, shared, reg, vfs, requests, stuck>>

-----------------------------------------------------------------------------
(***************************************************************************)
(* The handlers of a removal.  All but the first ignore their failures.    *)
(***************************************************************************)
ReadManifest(t) ==
    /\ Removing(t, "PopulatePackageInfo")
    /\ \/ "manifest" \in dir[req[t].rem] /\ GoesOn(t) /\ UNCHANGED <<hive, stuck>>
       \/ /\ "manifest" \notin dir[req[t].rem]
          /\ RemovalReturns(t, "failed")
          /\ stuck' = stuck \cup {req[t].rem}
    /\ UNCHANGED <<dir, target, shared, reg, vfs, requests>>

Unregister(t) ==
    LET h == req[t].rpc
        p == req[t].rem
        ks == HandlerKeys(h, p)
        all == Deletable(h, p, ks) \ PassesOver(h, p, hive[p] = <<t, "remove">>)
    IN  /\ \E r \in Registrars : Removing(t, r)
        /\ \E S \in {all} \cup (IF MayFailToRemove(t) THEN SUBSET all ELSE {}) :
              reg' = Unregistered(h, p, ks, S)
        /\ GoesOn(t)
        /\ UNCHANGED <<dir, hive, target, shared, vfs, requests, stuck>>

PrepareForRemove(t) ==
    LET p == req[t].rem
        mounts == "registry.dat" \in dir[p] /\ hive[p] = Free
    IN  /\ Removing(t, "PrepareDevirtualizedRegistry")
        /\ \/ mounts /\ hive' = [hive EXCEPT ![p] = <<t, "remove">>]
           \/ (~mounts \/ MayFailToRemove(t)) /\ UNCHANGED hive
        /\ GoesOn(t)
        /\ UNCHANGED <<dir, target, shared, reg, vfs, requests, stuck>>

\* The names of the VFS files come from the block map on disk.
RemoveVfsFiles(t) ==
    LET p == req[t].rem
        listed == IF "blockmap" \in dir[p] THEN Vfs[p] ELSE {}
    IN  /\ Removing(t, "VirtualFileHandler")
        /\ \/ OpenVfs(t, listed) /\ UNCHANGED req
           \/ ReadShared(t) /\ UNCHANGED req
           \/ /\ \E deletes \in {TRUE, ~MayFailToRemove(t)} : RemoveVfsFile(t, deletes)
              /\ UNCHANGED req
           \/ VfsDone(t) /\ CloseVfs(t) /\ GoesOn(t) /\ UNCHANGED <<target, shared>>
        /\ UNCHANGED <<dir, hive, reg, requests, stuck>>

RemoveDevirtualizedRegistry(t) ==
    LET p == req[t].rem
        mounted == hive[p] = <<t, "remove">>
    IN  /\ Removing(t, "WriteDevirtualizedRegistry")
        /\ \/ ~mounted /\ UNCHANGED <<reg, hive>>
           \/ /\ mounted
              /\ \E S \in SUBSET HiveDeletable(p) :
                    /\ SurelyDeleted(p) \subseteq S \/ MayFailToRemove(t)
                    /\ reg' = Deleted(S)
              /\ UnloadMountedHive(p)
        /\ GoesOn(t)
        /\ UNCHANGED <<dir, target, shared, vfs, requests, stuck>>

\* remove_all fails at a file that is in use, such as a mounted registry.dat,
\* and leaves it, its directory, and what it had not come to.  The error is
\* only traced.
RemoveDirectory(t) ==
    LET p == req[t].rem
        busy == IF hive[p] = Free THEN {} ELSE dir[p] \cap {"registry.dat"}
    IN  /\ Removing(t, "Extractor")
        /\ \E kept \in SUBSET dir[p] :
              /\ busy \subseteq kept
              /\ kept = {} \/ ("root" \in kept /\ (busy # {} \/ MayFailToRemove(t)))
              /\ dir' = [dir EXCEPT ![p] = kept]
              /\ req' = [req EXCEPT ![t].rpc = "done", ![t].left = (kept # {})]
              /\ stuck' = IF kept = {} THEN stuck ELSE stuck \cup {p}
        /\ UNCHANGED <<hive, target, shared, reg, vfs, requests>>

ReturnFromRemove(t) ==
    /\ Removing(t, "done")
    /\ RemovalReturns(t, "ok")
    /\ UNCHANGED <<dir, target, shared, reg, vfs, requests, stuck>>

-----------------------------------------------------------------------------
Step(t) ==
    \/ Validate(t) \/ ProcessPotentialUpdate(t) \/ CreatePackageRoot(t)
    \/ ExtractFile(t) \/ PrepareDevirtualizedRegistry(t) \/ CopyVfsFiles(t)
    \/ WriteDevirtualizedRegistry(t) \/ PSFScriptExecuter(t) \/ Register(t)
    \/ InstallComplete(t)
    \/ ReadManifest(t) \/ Unregister(t) \/ PrepareForRemove(t) \/ RemoveVfsFiles(t)
    \/ RemoveDevirtualizedRegistry(t) \/ RemoveDirectory(t)
    \/ ReturnFromRemove(t)

Next ==
    \E t \in Threads :
        \/ \E op \in {"add", "remove"}, p \in Packages : Start(t, op, p)
        \/ CancelRequest(t)
        \/ Crash(t)
        \/ Step(t)
        \/ ScriptEnds(t)

(***************************************************************************)
(* A thread that runs a request is scheduled.  That the script of a        *)
(* package ends is not for MsixCore to see to: it is assumed.              *)
(***************************************************************************)
Scheduled == \A t \in Threads : WF_vars(Step(t))

ScriptsEnd == \A t \in Threads : WF_vars(ScriptEnds(t))

Spec == Init /\ [][Next]_vars /\ Scheduled /\ ScriptsEnd

-----------------------------------------------------------------------------
(***************************************************************************)
(* What it comes to.                                                       *)
(***************************************************************************)

\* PackageManager::FindPackages lists the directories with a manifest.
Installed(p) == {"root", "manifest"} \subseteq dir[p]

Whole(p) == dir[p] = {"root"} \cup KeysOf(Contents(p))

AtRest == \A t \in Threads : ~Active(t)

\* The keys an add of p goes through, and the ones it must have written when
\* it returns S_OK: a key of registry.dat may be passed over, and so are file
\* types for a registry.dat that could not be unloaded.
AllKeys(p) ==
    KeysOf(HiveKeys[p]) \cup UNION {KeysOf(HandlerKeys(h, p)) : h \in Registrars}

SureKeys(p) ==
    (KeysOf(HiveKeys[p]) \ MayNotCreate) \cup
    UNION {KeysOf(HandlerKeys(h, p)) \ PassesOver(h, p, UnloadMayFail) : h \in Registrars}

\* The keys no removal of p deletes, even if nothing fails: registry.dat's with
\* a token in their name, its extensions, which FileTypeAssociation writes but
\* does not delete, and the ProgID when registry.dat has every extension.
Leftover(p) ==
    (KeysOf(HiveKeys[p]) \cap Tokenised) \cup PassesOver("FileTypeAssociation", p, TRUE)

(***************************************************************************)
(* Between requests a package is there with all its files and all the      *)
(* registrations that no other family writes, or it is gone with all its   *)
(* files and nothing in the registry names its executables but what the    *)
(* handlers cannot find again (Leftover), whatever handler failed and      *)
(* wherever the user cancelled once the extraction was over.  That holds   *)
(* as long as removals do not fail themselves (ErrorHandler and the        *)
(* handlers' ExecuteForRemoveRequest).                                     *)
(***************************************************************************)
AllOrNothing ==
    AtRest => \A p \in Packages :
        \/ /\ Whole(p)
           /\ \A k \in SureKeys(p) : \/ reg[k] = [owner |-> p, whole |-> TRUE]
                                     \/ \E q \in Packages : /\ Family[q] # Family[p]
                                                            /\ k \in AllKeys(q)
        \/ /\ dir[p] = {}
           /\ \A k \in Keys \ Leftover(p) : reg[k] # [owner |-> p, whole |-> TRUE]

(***************************************************************************)
(* Between requests the count in SharedDLLs of every VFS file is the       *)
(* number of those who need it, the program that had put it there          *)
(* included (one may need it without a count), and it is there just when   *)
(* somebody does (VirtualFileHandler).                                     *)
(***************************************************************************)
References(f) ==
    Cardinality({p \in Packages : Installed(p) /\ f \in Vfs[p]}) +
    (IF f \in Foreign THEN 1 ELSE 0)

RefCountsExact ==
    AtRest => \A f \in Files :
        /\ target[f] # Missing <=> References(f) > 0
        /\ shared[f] = References(f) \/ (References(f) = 1 /\ shared[f] = 0)

(***************************************************************************)
(* While requests for other families run, an installed package finds each  *)
(* of its VFS files, in its own version or a higher one (NeedToCopyFile    *)
(* and RemoveVfsFile).                                                     *)
(***************************************************************************)
VfsServed ==
    \A p \in Packages :
        (/\ Whole(p)
         /\ \A t \in Threads : Active(t) => Family[req[t].pkg] # Family[p])
        => \A f \in Vfs[p] : target[f] >= FileVersion[p][f]

(***************************************************************************)
(* FindPackages lists two versions of one package only after a removal in  *)
(* that family has left a directory behind: it could not read the manifest *)
(* or remove_all failed, and the update went on all the same               *)
(* (ProcessPotentialUpdate).  No other failure, cancel or kill comes to it.*)
(***************************************************************************)
OnePerFamily ==
    \A p, q \in Packages :
        Installed(p) /\ Installed(q) /\ Family[p] = Family[q] /\ p # q
        => \E s \in stuck : Family[s] = Family[p]

(***************************************************************************)
(* What a request tells its caller when it returns is so: an add that      *)
(* returned S_OK has all its files in place and all its registrations but  *)
(* those that may be passed over, a removal that did has deleted the       *)
(* directory or remove_all failed, an error was reported just when one is  *)
(* returned, and a refused downgrade has a directory of that family in its *)
(* way (MsixRequest::ProcessRequest, SetErrorStatus).                      *)
(***************************************************************************)
ReportTrue ==
    \A t \in Threads :
        LET r == req[t]
        IN  (~Active(t) /\ r.hr # "killed") =>
            /\ r.op = "add" /\ r.hr = "ok" =>
                  /\ Whole(r.pkg)
                  /\ \A k \in SureKeys(r.pkg) : reg[k] = [owner |-> r.pkg, whole |-> TRUE]
            /\ r.op = "remove" /\ r.hr = "ok" => dir[r.pkg] = {} \/ r.left
            /\ r.status = "error" <=> r.hr \in Errors
            /\ r.status = "completed" => r.hr = "ok"
            /\ r.hr = "downgrade" =>
                  \E q \in Packages \ {r.pkg} : /\ Family[q] = Family[r.pkg]
                                                /\ Version[q] >= Version[r.pkg]
                                                /\ "root" \in dir[q]

(***************************************************************************)
(* No request that has returned keeps a registry.dat mounted, and a        *)
(* removal does so no longer than it runs.  A mount that nobody answers    *)
(* for any more is one of a killed process, or one that Windows refused to *)
(* unload (RegistryDevirtualizer's destructor and UnloadMountedHive).      *)
(***************************************************************************)
HiveReleased ==
    \A p \in Packages :
        /\ \A t \in Threads :
              /\ hive[p] = <<t, "add">> => Active(t) /\ req[t].pkg = p
              /\ hive[p] = <<t, "remove">> => Active(t) /\ req[t].rem = p
        /\ hive[p] = Stray => MayCrash \/ UnloadMayFail

(***************************************************************************)
(* A file that a program MsixCore knows nothing of has put in place is     *)
(* never deleted.                                                          *)
(***************************************************************************)
ForeignFilesStay ==
    [][\A f \in Foreign : target[f] # Missing => target'[f] # Missing]_vars

(***************************************************************************)
(* Every request returns, if the script it may wait for ends (ScriptsEnd). *)
(***************************************************************************)
RequestReturns == \A t \in Threads : Active(t) ~> ~Active(t)

(***************************************************************************)
(* What is seen through FindPackages and the results of the requests is    *)
(* what PackageStore allows.                                               *)
(***************************************************************************)
Phase(r) ==
    CASE r.hr # "pending" -> "idle"
      [] r.hr = "pending" /\ r.pc \in ReturnError /\ r.rem = NoPkg -> "checking"
      [] OTHER -> "working"

Store == INSTANCE PackageStore WITH
    installed <- {p \in Packages : Installed(p)},
    phase <- [t \in Threads |-> Phase(req[t])],
    asked <- [t \in Threads |->
                [op |-> req[t].op, pkg |-> req[t].pkg, left |-> req[t].left,
                 result |-> IF req[t].hr \in Errors THEN "error" ELSE req[t].hr]]

StoreRefined == Store!StoreSpec

=============================================================================
