------------------------- MODULE DeploymentSafety -------------------------
(***************************************************************************)
(* Proofs about what MsixCore's requests leave on the machine: the package *)
(* directories, the VFS files with their counts, and the registry.         *)
(***************************************************************************)
EXTENDS DeploymentProofs, FiniteSetTheorems

-----------------------------------------------------------------------------
(***************************************************************************)
(* Requests run one after the other, no process is killed, no handler of a *)
(* removal fails (remove_all included), Windows unloads every registry.dat *)
(* it is asked to, and an add fails before it has touched the machine or   *)
(* once its VFS files are in place, and is cancelled only after its        *)
(* extraction.                                                             *)
(***************************************************************************)
LateFaults ==
    /\ OneThread /\ Threads # {}
    /\ FailAt \cap {"Extractor", "PrepareDevirtualizedRegistry", "VirtualFileHandler",
                    "CopyFile"} = {}
    /\ CancelAt \cap (ReturnError \cup {"Extractor"}) = {}
    /\ RemoveFailAt = {}
    /\ ~UnloadMayFail
    /\ ~MayCrash

(***************************************************************************)
(* The directories.  Up to the extraction an add is not cancelled; from    *)
(* then on it is alone in its family.                                      *)
(***************************************************************************)
Early(t) ==
    LET r == req[t]
    IN  Active(t) => /\ r.pc \in ReturnError => ~r.cancelled /\ ~r.reinstall
                     /\ r.pc = "Extractor" => ~r.cancelled

\* The handlers of a removal that find registry.dat mounted.
Mounted == {"Protocol", "ComInterface", "ComServer", "StartupTask", "FileTypeAssociation",
            "FirewallRules", "AutoPlay", "AppExecutionAlias", "VirtualFileHandler",
            "WriteDevirtualizedRegistry"}

Mounts(t) ==
    LET r == req[t]
    IN  \A p \in Packages :
            \/ hive[p] = Free
            \/ /\ hive[p] = <<t, "add">> /\ Active(t) /\ r.rem = NoPkg /\ r.pkg = p
               /\ r.pc \in {"VirtualFileHandler", "WriteDevirtualizedRegistry"}
            \/ /\ hive[p] = <<t, "remove">> /\ Active(t) /\ r.rem = p /\ r.rpc \in Mounted

\* A directory is whole or gone, but for the one that is being extracted.
WholeOrGone(t) ==
    \A p \in Packages :
        \/ Whole(p)
        \/ dir[p] = {}
        \/ p = req[t].pkg /\ Adding(t, "Extractor") /\ ~req[t].reinstall

Handled(t) ==
    LET r == req[t]
    IN  Active(t) =>
          /\ r.rem = NoPkg /\ r.reinstall => Whole(r.pkg)
          /\ r.rem # NoPkg /\ r.rpc = "done" => dir[r.rem] = {}
          /\ r.rem # NoPkg /\ r.rpc \notin {"PopulatePackageInfo", "done"} => Whole(r.rem)

OneDirectory ==
    \A p, q \in Packages : dir[p] # {} /\ dir[q] # {} /\ Family[p] = Family[q] => p = q

\* An add that extracts has its family for itself, or will have.
Alone(t) ==
    LET r == req[t]
    IN  /\ Active(t) /\ r.op = "add"
        /\ r.pc = "Extractor" \/ (r.pc = "ProcessPotentialUpdate" /\ r.rem # NoPkg)
        => \A q \in Packages : Family[q] = Family[r.pkg] /\ dir[q] # {} =>
               q = IF r.rem = NoPkg THEN r.pkg ELSE r.rem

PlacesInv(t) ==
    Early(t) /\ Mounts(t) /\ WholeOrGone(t) /\ Handled(t) /\ OneDirectory /\ Alone(t)

-----------------------------------------------------------------------------
(***************************************************************************)
(* The fields of the request after each kind of step.                      *)
(***************************************************************************)
LEMMA GoesFields ==
    ASSUME ReqInv, NEW t \in Threads, NEW h, Adding(t, h), h # "InstallComplete", Goes(t)
    PROVE  /\ req'[t].hr = "pending" /\ req'[t].op = "add" /\ req'[t].rem = NoPkg
           /\ req'[t].pc = NextHandler(AddHandlers, h) /\ req'[t].todo = 0
           /\ req'[t].pkg = req[t].pkg /\ req'[t].pkg \in Packages
           /\ req'[t].reinstall = req[t].reinstall
           /\ req'[t].cancelled = req[t].cancelled
<1> DEFINE r == req[t]
           s == [r EXCEPT !.pc = NextHandler(AddHandlers, @), !.todo = 0]
<1>1. r \in Request /\ r.pkg \in Packages
    BY AddingRuns DEF Runs
<1>2. req'[t] = s
    BY GoesIs DEF ReqInv
<1>3. s.reinstall = r.reinstall /\ s.cancelled = r.cancelled
    BY <1>1 DEF Request
<1> HIDE DEF s
<1> QED
    BY <1>1, <1>2, <1>3, AfterGoes DEF Runs, InChain

LEMMA LateFailFields ==
    ASSUME ReqInv, NEW t \in Threads, NEW h, Adding(t, h), h \notin ReturnError,
           NEW code \in {"failed", "userexit"}, Fails(t, code)
    PROVE  /\ req'[t].hr = "pending" /\ req'[t].op = "add" /\ req'[t].pc = "ErrorHandler"
           /\ req'[t].pkg = req[t].pkg /\ req'[t].pkg \in Packages
           /\ req'[t].rem = req[t].pkg /\ req'[t].rem # NoPkg
           /\ req'[t].rpc = "PopulatePackageInfo"
<1>1. /\ req'[t].pkg = req[t].pkg
      /\ Runs(req'[t]) /\ RollingBack(req'[t]) /\ req'[t].rpc = "PopulatePackageInfo"
    BY AfterFails DEF Errors
<1> QED
    BY <1>1, NamesAssumption DEF Runs, RollingBack

LEMMA EarlyFailFields ==
    ASSUME ReqInv, NEW t \in Threads, NEW h, Adding(t, h), h \in ReturnError,
           NEW code \in Errors, Fails(t, code)
    PROVE  req'[t].hr # "pending"
BY AfterFails DEF Errors

LEMMA TodoStepFields ==
    ASSUME ReqInv, NEW t \in Threads, NEW h, Adding(t, h), NEW n \in Nat,
           req' = [req EXCEPT ![t].todo = n]
    PROVE  /\ req'[t].hr = "pending" /\ req'[t].op = "add" /\ req'[t].rem = NoPkg
           /\ req'[t].pc = h /\ req'[t].todo = n
           /\ req'[t].pkg = req[t].pkg /\ req'[t].pkg \in Packages
           /\ req'[t].reinstall = req[t].reinstall
           /\ req'[t].cancelled = req[t].cancelled
<1>1. req[t] \in Request /\ req[t].op = "add" /\ req[t].pkg \in Packages
    BY AddingRuns DEF Runs, InChain
<1>2. req'[t].reinstall = req[t].reinstall /\ req'[t].cancelled = req[t].cancelled
    BY <1>1 DEF ReqInv, Request
<1> QED
    BY <1>1, <1>2, AfterTodo

LEMMA NextTodoFields ==
    ASSUME ReqInv, NEW t \in Threads, NEW h, Adding(t, h),
           req' = [req EXCEPT ![t].todo = @ + 1]
    PROVE  /\ req'[t].hr = "pending" /\ req'[t].op = "add" /\ req'[t].rem = NoPkg
           /\ req'[t].pc = h /\ req'[t].todo = req[t].todo + 1
           /\ req'[t].pkg = req[t].pkg /\ req'[t].pkg \in Packages
           /\ req'[t].reinstall = req[t].reinstall
           /\ req'[t].cancelled = req[t].cancelled
<1>1. req[t].todo + 1 \in Nat /\ req \in [Threads -> Request]
    BY AddingRuns DEF ReqInv, Request
<1>2. req' = [req EXCEPT ![t].todo = req[t].todo + 1]
    BY <1>1
<1> QED
    BY <1>1, <1>2, TodoStepFields

LEMMA GoesOnFields ==
    ASSUME ReqInv, NEW t \in Threads, NEW h \in KeysOf(RemoveHandlers) \ {"Extractor"},
           Removing(t, h), GoesOn(t)
    PROVE  /\ req'[t].hr = "pending" /\ req'[t].op = req[t].op /\ req'[t].pc = req[t].pc
           /\ req'[t].pkg = req[t].pkg /\ req'[t].pkg \in Packages
           /\ req'[t].rem = req[t].rem /\ req'[t].rem \in Packages
           /\ req'[t].rpc = NextHandler(RemoveHandlers, h)
           /\ req'[t].reinstall = req[t].reinstall
           /\ req'[t].cancelled = req[t].cancelled
<1>1. req[t] \in Request /\ req[t].rem \in Packages /\ req[t].pkg \in Packages
    BY RemovingRuns DEF Runs
<1>2. /\ req'[t].reinstall = req[t].reinstall /\ req'[t].cancelled = req[t].cancelled
      /\ req'[t].pc = req[t].pc
    BY <1>1 DEF ReqInv, Request, GoesOn
<1> QED
    BY <1>1, <1>2, AfterGoesOnNext DEF Removing, Active

\* The removal that ends was a request of its own, or part of an add.
LEMMA ReturnsFields ==
    ASSUME ReqInv, NEW t \in Threads, NEW h, Removing(t, h),
           NEW hr \in {"ok", "failed"}, RemovalReturns(t, hr)
    PROVE  \/ req'[t].hr # "pending"
           \/ /\ Updating(req[t])
              /\ req'[t].hr = "pending" /\ req'[t].op = "add" /\ req'[t].rem = NoPkg
              /\ req'[t].pc = "Extractor" /\ req'[t].todo = 0
              /\ req'[t].pkg = req[t].pkg /\ req'[t].pkg \in Packages
              /\ req'[t].reinstall = req[t].reinstall
              /\ req'[t].cancelled = req[t].cancelled
<1> DEFINE r == req[t]
<1>1. /\ r \in Request /\ Runs(r)
      /\ PlainRemoval(r) \/ Updating(r) \/ RollingBack(r)
    BY RemovingRuns
<1>2. CASE Updating(r)
  <2>1. r.op # "remove" /\ r.pc = "ProcessPotentialUpdate" /\ r.pkg \in Packages
    BY <1>1, <1>2 DEF Updating, Runs
  <2>2. req'[t] = [r EXCEPT !.pc = "Extractor", !.rem = NoPkg, !.rpc = "done"]
    BY <2>1 DEF RemovalReturns, Removed, ReqInv
  <2>3. req'[t].reinstall = r.reinstall /\ req'[t].cancelled = r.cancelled
    BY <1>1, <2>2 DEF Request
  <2> HIDE DEF r
  <2> QED
    BY <1>1, <1>2, <2>1, <2>3, AfterReturns DEF Runs, InChain, r
<1>3. CASE PlainRemoval(r) \/ RollingBack(r)
    BY <1>1, <1>3, AfterReturns DEF Over
<1> QED
    BY <1>1, <1>2, <1>3

-----------------------------------------------------------------------------
(***************************************************************************)
(* Two directories of one family.  They come together only after a removal *)
(* in that family has left one behind: an add that extracts has removed    *)
(* the other version before, or that removal left it.                      *)
(***************************************************************************)
LeftBehind(p) == \E s \in stuck : Family[s] = Family[p]

Apart ==
    \A p, q \in Packages :
        dir[p] # {} /\ dir[q] # {} /\ Family[p] = Family[q] /\ p # q => LeftBehind(p)

\* A removal that is over has deleted the directory, or left it behind.
Cleared(t) ==
    Active(t) /\ req[t].rem # NoPkg /\ req[t].rpc = "done"
    => dir[req[t].rem] = {} \/ req[t].rem \in stuck

Extracting(r) ==
    /\ r.hr = "pending" /\ r.op = "add"
    /\ \/ r.pc = "Extractor" /\ r.rem = NoPkg
       \/ r.pc = "ProcessPotentialUpdate" /\ r.rem # NoPkg

\* What an add that extracts, or will, finds beside its package.
Beside(t) ==
    LET r == req[t]
        mine == IF r.rem = NoPkg THEN r.pkg ELSE r.rem
    IN  Extracting(r) =>
          \A q \in Packages :
              Family[q] = Family[r.pkg] /\ dir[q] # {} /\ q # mine => LeftBehind(q)

FamilyInv(t) == Apart /\ Cleared(t) /\ Beside(t)

\* A step that touches no directory, to a request that does not extract, or
\* extracts as before.
LEMMA FamilyQuiet ==
    ASSUME NEW t \in Threads, FamilyInv(t), dir' = dir, stuck' = stuck,
           \/ req'[t].hr # "pending"
           \/ /\ req'[t].pc \notin {"Extractor", "ProcessPotentialUpdate"}
              /\ req'[t].rem = NoPkg \/ req'[t].rpc # "done"
           \/ req'[t].rem = NoPkg /\ req'[t].pc # "Extractor"
           \/ /\ req'[t].hr = req[t].hr /\ req'[t].op = req[t].op
              /\ req'[t].pkg = req[t].pkg /\ req'[t].pc = req[t].pc
              /\ req'[t].rem = req[t].rem
              /\ req'[t].rpc = req[t].rpc \/ req'[t].rpc # "done"
    PROVE  FamilyInv(t)'
<1>1. Apart'
    BY DEF FamilyInv, Apart, LeftBehind
<1>2. Cleared(t)'
    BY DEF FamilyInv, Cleared, Active
<1>3. Beside(t)'
    BY DEF FamilyInv, Beside, LeftBehind, Extracting
<1> QED
    BY <1>1, <1>2, <1>3 DEF FamilyInv

\* A handler after Extractor goes on, or fails.
LEMMA FamilyLate ==
    ASSUME ReqInv, NEW t \in Threads, FamilyInv(t), dir' = dir, stuck' = stuck,
           NEW h \in KeysOf(AddHandlers), Adding(t, h),
           h \notin ReturnError \cup {"Extractor", "InstallComplete"},
           \/ Goes(t) \/ Fails(t, "failed") \/ Fails(t, "userexit") \/ UNCHANGED req
           \/ req'[t].pc = h /\ req'[t].rem = NoPkg
    PROVE  FamilyInv(t)'
<1>1. NextHandler(AddHandlers, h) \notin {"Extractor", "ProcessPotentialUpdate"}
    BY AddHandlersNext, AddHandlersKeys DEF ReturnError
<1>2. CASE Goes(t)
  <2>1. req'[t].pc = NextHandler(AddHandlers, h) /\ req'[t].rem = NoPkg
    BY <1>2, GoesFields
  <2> QED
    BY <1>1, <2>1, FamilyQuiet
<1>3. CASE Fails(t, "failed") \/ Fails(t, "userexit")
  <2>1. req'[t].pc = "ErrorHandler" /\ req'[t].rpc = "PopulatePackageInfo"
    BY <1>3, LateFailFields
  <2> QED
    BY <2>1, FamilyQuiet
<1>4. CASE UNCHANGED req
    BY <1>4, FamilyQuiet
<1>5. CASE req'[t].pc = h /\ req'[t].rem = NoPkg
    BY <1>5, FamilyQuiet DEF ReturnError
<1> QED
    BY <1>2, <1>3, <1>4, <1>5

LEMMA LateHandlersFamily ==
    ASSUME DeployInv, NEW t \in Threads, FamilyInv(t),
           \/ PrepareDevirtualizedRegistry(t) \/ CopyVfsFiles(t)
           \/ WriteDevirtualizedRegistry(t) \/ PSFScriptExecuter(t) \/ ScriptEnds(t)
           \/ Register(t)
    PROVE  FamilyInv(t)'
<1>1. ReqInv
    BY DEF DeployInv
<1>2. \A h \in Registrars \cup {"PrepareDevirtualizedRegistry", "VirtualFileHandler",
                                "WriteDevirtualizedRegistry", "PSFScriptExecuter"} :
          /\ h \in KeysOf(AddHandlers)
          /\ h \notin ReturnError \cup {"Extractor", "InstallComplete"}
    BY AddHandlersKeys DEF ReturnError, Registrars
<1>3. CASE PrepareDevirtualizedRegistry(t)
    BY <1>1, <1>2, <1>3, FamilyLate DEF PrepareDevirtualizedRegistry
<1>4. CASE CopyVfsFiles(t)
    BY <1>1, <1>2, <1>4, FamilyLate DEF CopyVfsFiles
<1>5. CASE WriteDevirtualizedRegistry(t)
  <2> DEFINE h == "WriteDevirtualizedRegistry"
  <2>1. Adding(t, h) /\ dir' = dir /\ stuck' = stuck
    BY <1>5 DEF WriteDevirtualizedRegistry, DevirtualizeKey
  <2>2. req' = [req EXCEPT ![t].todo = @ + 1] => req'[t].pc = h /\ req'[t].rem = NoPkg
    BY <1>1, <2>1, NextTodoFields
  <2> QED
    BY <1>1, <1>2, <1>5, <2>1, <2>2, FamilyLate DEF WriteDevirtualizedRegistry, DevirtualizeKey
<1>6. CASE PSFScriptExecuter(t)
  <2> DEFINE h == "PSFScriptExecuter"
  <2>1. Adding(t, h) /\ dir' = dir /\ stuck' = stuck
    BY <1>6 DEF PSFScriptExecuter, machineVars
  <2>2. ASSUME req' = [req EXCEPT ![t].todo = 1] PROVE req'[t].pc = h /\ req'[t].rem = NoPkg
    BY <1>1, <2>1, <2>2, TodoStepFields
  <2> QED
    BY <1>1, <1>2, <1>6, <2>1, <2>2, FamilyLate DEF PSFScriptExecuter
<1>7. CASE ScriptEnds(t)
    BY <1>1, <1>2, <1>7, FamilyLate DEF ScriptEnds, machineVars
<1>8. CASE Register(t)
  <2>1. PICK h \in Registrars : Adding(t, h)
    BY <1>8 DEF Register
  <2>2. dir' = dir /\ stuck' = stuck
    BY <1>8 DEF Register
  <2>3. req' = [req EXCEPT ![t].todo = @ + 1] => req'[t].pc = h /\ req'[t].rem = NoPkg
    BY <1>1, <2>1, NextTodoFields
  <2> QED
    BY <1>1, <1>2, <1>8, <2>1, <2>2, <2>3, FamilyLate DEF Register
<1> QED
    BY <1>3, <1>4, <1>5, <1>6, <1>7, <1>8

LEMMA ValidateFamily ==
    ASSUME DeployInv, NEW t \in Threads, FamilyInv(t), Validate(t)
    PROVE  FamilyInv(t)'
<1>1. PICK h \in ReturnError \ {"ProcessPotentialUpdate"} : Adding(t, h)
    BY DEF Validate
<1>2. ReqInv /\ dir' = dir /\ stuck' = stuck /\ h # "InstallComplete"
    BY DEF DeployInv, Validate, machineVars, ReturnError
<1>3. NextHandler(AddHandlers, h) # "Extractor"
    BY AddHandlersNext DEF ReturnError
<1>4. CASE Goes(t)
  <2>1. req'[t].rem = NoPkg /\ req'[t].pc = NextHandler(AddHandlers, h)
    BY <1>1, <1>2, <1>4, GoesFields
  <2> QED
    BY <1>2, <1>3, <2>1, FamilyQuiet
<1>5. CASE Fails(t, "failed")
  <2>1. req'[t].hr # "pending"
    BY <1>1, <1>2, <1>5, EarlyFailFields DEF Errors
  <2> QED
    BY <1>2, <2>1, FamilyQuiet
<1> QED
    BY <1>4, <1>5 DEF Validate

\* The directory the iterator came upon is the only one, or the family has
\* one that was left behind.
LEMMA ProcessPotentialUpdateFamily ==
    ASSUME DeployInv, ReportInv, NEW t \in Threads, FamilyInv(t), ProcessPotentialUpdate(t)
    PROVE  FamilyInv(t)'
<1> DEFINE h == "ProcessPotentialUpdate"
           r == req[t]
           sameFamily == {q \in Packages : "root" \in dir[q] /\ Family[q] = Family[r.pkg]}
<1>1. Adding(t, h) /\ h \in ReturnError /\ h # "InstallComplete"
    BY DEF ProcessPotentialUpdate, ReturnError
<1>2. ReqInv /\ dir' = dir /\ stuck' = stuck
    BY DEF DeployInv, ProcessPotentialUpdate, machineVars
<1>3. r \in Request /\ r.pkg \in Packages /\ r.rem = NoPkg /\ r.pc = h
    BY <1>1, <1>2, AddingRuns DEF Runs, InChain
<1>4. \A q \in Packages : q \in sameFamily <=> dir[q] # {} /\ Family[q] = Family[r.pkg]
    BY DEF ReportInv, DirInv
<1>5. ASSUME NEW q \in sameFamily, NEW p \in Packages, p # q,
             Family[p] = Family[r.pkg], dir[p] # {}
      PROVE  LeftBehind(p)
    BY <1>4, <1>5 DEF FamilyInv, Apart
<1> HIDE DEF sameFamily
<1>6. Apart'
    BY <1>2 DEF FamilyInv, Apart, LeftBehind
<1>7. CASE sameFamily = {} /\ Goes(t)
  <2>1. req'[t].rem = NoPkg /\ req'[t].pkg = r.pkg
    BY <1>1, <1>2, <1>7, GoesFields
  <2>2. Cleared(t)' /\ Beside(t)'
    BY <1>2, <1>4, <1>7, <2>1 DEF Cleared, Beside
  <2> QED
    BY <1>6, <2>2 DEF FamilyInv
<1>8. CASE /\ r.pkg \in sameFamily
           /\ req' = [req EXCEPT ![t].reinstall = TRUE, ![t].pc = "Extractor"]
  <2>1. req'[t].rem = NoPkg /\ req'[t].pkg = r.pkg
    BY <1>2, <1>3, <1>8 DEF ReqInv, Request
  <2>2. \A p \in Packages :
            Family[p] = Family[r.pkg] /\ dir[p] # {} /\ p # r.pkg => LeftBehind(p)
    BY <1>5, <1>8
  <2>3. Cleared(t)' /\ Beside(t)'
    BY <1>2, <2>1, <2>2 DEF Cleared, Beside, LeftBehind
  <2> QED
    BY <1>6, <2>3 DEF FamilyInv
<1>9. ASSUME NEW q \in sameFamily \ {r.pkg}, req' = [req EXCEPT ![t] = RemoveOf(@, q)]
      PROVE  FamilyInv(t)'
  <2>1. req'[t] = RemoveOf(r, q)
    BY <1>2, <1>9 DEF ReqInv
  <2>2. req'[t].rem = q /\ req'[t].rpc = "PopulatePackageInfo" /\ req'[t].pkg = r.pkg
    BY <1>3, <2>1 DEF RemoveOf, Request
  <2>3. q # NoPkg
    BY <1>9, NamesAssumption DEF sameFamily
  <2>4. Cleared(t)' /\ Beside(t)'
    BY <1>2, <1>5, <2>2, <2>3 DEF Cleared, Beside, LeftBehind
  <2> QED
    BY <1>6, <2>4 DEF FamilyInv
<1>10. CASE Fails(t, "downgrade")
  <2>1. req'[t].hr # "pending"
    BY <1>1, <1>2, <1>10, EarlyFailFields DEF Errors
  <2> QED
    BY <1>2, <2>1, FamilyQuiet
<1> QED
    BY <1>7, <1>8, <1>9, <1>10 DEF ProcessPotentialUpdate, sameFamily

\* The extraction changes the package's own directory only.
LEMMA ExtractFamily ==
    ASSUME DeployInv, NEW t \in Threads, FamilyInv(t), Adding(t, "Extractor"),
           \A q \in Packages : q # req[t].pkg => dir'[q] = dir[q], stuck' = stuck,
           req'[t].pkg = req[t].pkg,
           \/ req'[t].rem = NoPkg
           \/ req'[t].pc = "ErrorHandler" /\ req'[t].rpc # "done"
    PROVE  FamilyInv(t)'
<1> DEFINE p == req[t].pkg
<1>1. p \in Packages /\ Extracting(req[t]) /\ req[t].rem = NoPkg
    BY AddingRuns DEF DeployInv, Runs, InChain, Extracting, Adding, Active
<1>2. \A q \in Packages : q # p => dir'[q] = dir[q]
    OBVIOUS
<1>3. \A q \in Packages : Family[q] = Family[p] /\ dir[q] # {} /\ q # p => LeftBehind(q)
    BY <1>1 DEF FamilyInv, Beside
<1> HIDE DEF p
<1>4. Apart'
  <2> SUFFICES ASSUME NEW a \in Packages, NEW b \in Packages, dir'[a] # {}, dir'[b] # {},
                      Family[a] = Family[b], a # b
               PROVE  LeftBehind(a)
    BY DEF Apart, LeftBehind
  <2>1. CASE a = p
    BY <1>2, <1>3, <2>1 DEF LeftBehind
  <2>2. CASE b = p
    BY <1>2, <1>3, <2>2
  <2>3. CASE a # p /\ b # p
    BY <1>2, <2>3 DEF FamilyInv, Apart
  <2> QED
    BY <2>1, <2>2, <2>3
<1>5. Cleared(t)'
    BY DEF Cleared
<1>6. Beside(t)'
    BY <1>2, <1>3 DEF Beside, Extracting, LeftBehind, p
<1> QED
    BY <1>4, <1>5, <1>6 DEF FamilyInv

LEMMA CreatePackageRootFamily ==
    ASSUME DeployInv, NEW t \in Threads, FamilyInv(t), CreatePackageRoot(t)
    PROVE  FamilyInv(t)'
<1>1. Adding(t, "Extractor") /\ ReqInv /\ stuck' = stuck /\ "Extractor" \notin ReturnError
    BY DEF CreatePackageRoot, DeployInv, ReturnError
<1>2. CASE /\ dir' = [dir EXCEPT ![req[t].pkg] = @ \cup {"root"}]
           /\ req' = [req EXCEPT ![t].todo = 1]
  <2>1. req'[t].pkg = req[t].pkg /\ req'[t].rem = NoPkg
    BY <1>1, <1>2, TodoStepFields
  <2>2. \A q \in Packages : q # req[t].pkg => dir'[q] = dir[q]
    BY <1>2 DEF DeployInv, MachineTypeOK
  <2> QED
    BY <1>1, <2>1, <2>2, ExtractFamily
<1>3. CASE Fails(t, "failed") /\ UNCHANGED dir
  <2>1. req'[t].pc = "ErrorHandler" /\ req'[t].rpc = "PopulatePackageInfo"
    BY <1>1, <1>3, LateFailFields
  <2> QED
    BY <1>1, <1>3, <2>1, FamilyQuiet
<1> QED
    BY <1>2, <1>3 DEF CreatePackageRoot

LEMMA ExtractFileFamily ==
    ASSUME DeployInv, NEW t \in Threads, FamilyInv(t), ExtractFile(t)
    PROVE  FamilyInv(t)'
<1> DEFINE r == req[t]
           p == r.pkg
           item == Contents(p)[r.todo]
<1>1. Adding(t, "Extractor") /\ ReqInv /\ stuck' = stuck /\ "Extractor" \notin ReturnError
    BY DEF ExtractFile, DeployInv, ReturnError
<1>2. r \in Request /\ r.rem = NoPkg
    BY <1>1, AddingRuns DEF InChain
<1>3. ASSUME NEW code \in {"failed", "userexit"}, Fails(t, code)
      PROVE  /\ req'[t].pkg = p
             /\ req'[t].pc = "ErrorHandler" /\ req'[t].rpc = "PopulatePackageInfo"
    BY <1>1, <1>3, LateFailFields
<1>4. CASE (Fails(t, "failed") \/ Fails(t, "userexit")) /\ UNCHANGED dir
    BY <1>1, <1>3, <1>4, FamilyQuiet
<1>5. CASE Fails(t, "failed") /\ dir' = [dir EXCEPT ![p] = @ \ {item}]
  <2>1. \A q \in Packages : q # p => dir'[q] = dir[q]
    BY <1>5 DEF DeployInv, MachineTypeOK
  <2> QED
    BY <1>1, <1>3, <1>5, <2>1, ExtractFamily
<1>6. CASE /\ dir' = [dir EXCEPT ![p] = @ \cup {item}]
           /\ req' = [req EXCEPT ![t].todo = @ + 1]
  <2>1. req'[t].pkg = p /\ req'[t].rem = NoPkg
    BY <1>1, <1>6, NextTodoFields
  <2>2. \A q \in Packages : q # p => dir'[q] = dir[q]
    BY <1>6 DEF DeployInv, MachineTypeOK
  <2> QED
    BY <1>1, <2>1, <2>2, ExtractFamily
<1>7. CASE /\ dir' = [dir EXCEPT ![p] = @ \cup {item}]
           /\ req' = [req EXCEPT ![t].pc = NextHandler(AddHandlers, @),
                                 ![t].todo = 0, ![t].status = "extraction"]
  <2>1. req'[t].pkg = p /\ req'[t].rem = NoPkg
    BY <1>1, <1>2, <1>7 DEF ReqInv, Request
  <2>2. \A q \in Packages : q # p => dir'[q] = dir[q]
    BY <1>7 DEF DeployInv, MachineTypeOK
  <2> QED
    BY <1>1, <2>1, <2>2, ExtractFamily
<1> QED
    BY <1>4, <1>5, <1>6, <1>7 DEF ExtractFile

\* A removal goes on to its next handler.
LEMMA GoesOnFamily ==
    ASSUME ReqInv, NEW t \in Threads, FamilyInv(t), dir' = dir, stuck' = stuck,
           NEW h \in KeysOf(RemoveHandlers) \ {"Extractor"}, Removing(t, h), GoesOn(t)
    PROVE  FamilyInv(t)'
<1>1. /\ req'[t].hr = "pending" /\ req'[t].op = req[t].op /\ req'[t].pc = req[t].pc
      /\ req'[t].pkg = req[t].pkg /\ req'[t].rem = req[t].rem
      /\ req'[t].rpc = NextHandler(RemoveHandlers, h)
    BY GoesOnFields
<1>2. req'[t].rpc # "done" /\ req[t].hr = "pending"
    BY <1>1, NextRemove, RemoveHandlersKeys DEF Removing, Active
<1> QED
    BY <1>1, <1>2, FamilyQuiet

\* It returns, with the directory gone or left behind: the add it is part of
\* goes on to extract.
LEMMA ReturnsFamily ==
    ASSUME ReqInv, NEW t \in Threads, FamilyInv(t), dir' = dir, stuck \subseteq stuck',
           NEW h, Removing(t, h), NEW hr \in {"ok", "failed"}, RemovalReturns(t, hr),
           dir[req[t].rem] = {} \/ req[t].rem \in stuck'
    PROVE  FamilyInv(t)'
<1>1. \A p \in Packages : LeftBehind(p) => LeftBehind(p)'
    BY DEF LeftBehind
<1>2. Apart'
    BY <1>1 DEF FamilyInv, Apart
<1>3. CASE req'[t].hr # "pending"
    BY <1>2, <1>3 DEF FamilyInv, Cleared, Beside, Extracting, Active
<1>4. CASE /\ Updating(req[t]) /\ req'[t].rem = NoPkg /\ req'[t].pkg = req[t].pkg
  <2>1. /\ req[t].rem # NoPkg /\ Extracting(req[t]) /\ Family[req[t].rem] = Family[req[t].pkg]
    BY <1>4 DEF Updating, Extracting, Removing, Active
  <2>2. \A q \in Packages :
            Family[q] = Family[req[t].pkg] /\ dir[q] # {} => LeftBehind(q)'
    BY <1>1, <2>1 DEF FamilyInv, Beside, LeftBehind
  <2>3. Cleared(t)' /\ Beside(t)'
    BY <1>4, <2>2 DEF Cleared, Beside
  <2> QED
    BY <1>2, <2>3 DEF FamilyInv
<1> QED
    BY <1>3, <1>4, ReturnsFields

LEMMA ReadManifestFamily ==
    ASSUME DeployInv, NEW t \in Threads, FamilyInv(t), ReadManifest(t)
    PROVE  FamilyInv(t)'
<1>1. ReqInv /\ dir' = dir /\ Removing(t, "PopulatePackageInfo")
    BY DEF DeployInv, ReadManifest
<1>2. "PopulatePackageInfo" \in KeysOf(RemoveHandlers) \ {"Extractor"}
    BY RemoveHandlersKeys
<1>3. CASE GoesOn(t) /\ stuck' = stuck
    BY <1>1, <1>2, <1>3, GoesOnFamily
<1>4. CASE RemovalReturns(t, "failed") /\ stuck' = stuck \cup {req[t].rem}
    BY <1>1, <1>4, ReturnsFamily
<1> QED
    BY <1>3, <1>4 DEF ReadManifest

LEMMA RemoveHandlersFamily ==
    ASSUME DeployInv, NEW t \in Threads, FamilyInv(t),
           \/ Unregister(t) \/ PrepareForRemove(t) \/ RemoveVfsFiles(t)
           \/ RemoveDevirtualizedRegistry(t)
    PROVE  FamilyInv(t)'
<1>1. ReqInv
    BY DEF DeployInv
<1>2. /\ Registrars \subseteq KeysOf(RemoveHandlers) \ {"Extractor"}
      /\ "PrepareDevirtualizedRegistry" \in KeysOf(RemoveHandlers) \ {"Extractor"}
      /\ "VirtualFileHandler" \in KeysOf(RemoveHandlers) \ {"Extractor"}
      /\ "WriteDevirtualizedRegistry" \in KeysOf(RemoveHandlers) \ {"Extractor"}
    BY RemoveHandlersKeys DEF Registrars
<1>3. CASE Unregister(t)
    BY <1>1, <1>2, <1>3, GoesOnFamily DEF Unregister
<1>4. CASE PrepareForRemove(t)
    BY <1>1, <1>2, <1>4, GoesOnFamily DEF PrepareForRemove
<1>5. CASE RemoveDevirtualizedRegistry(t)
    BY <1>1, <1>2, <1>5, GoesOnFamily DEF RemoveDevirtualizedRegistry
<1>6. CASE RemoveVfsFiles(t)
  <2>1. /\ Removing(t, "VirtualFileHandler") /\ dir' = dir /\ stuck' = stuck
        /\ GoesOn(t) \/ UNCHANGED req
    BY <1>6 DEF RemoveVfsFiles
  <2>2. CASE GoesOn(t)
    BY <1>1, <1>2, <2>1, <2>2, GoesOnFamily
  <2>3. CASE UNCHANGED req
    BY <2>1, <2>3, FamilyQuiet
  <2> QED
    BY <2>1, <2>2, <2>3
<1> QED
    BY <1>3, <1>4, <1>5, <1>6

\* remove_all deletes the directory, or leaves some of it behind.
LEMMA RemoveDirectoryFamily ==
    ASSUME DeployInv, NEW t \in Threads, FamilyInv(t), RemoveDirectory(t)
    PROVE  FamilyInv(t)'
<1> DEFINE p == req[t].rem
<1>1. /\ ReqInv /\ Removing(t, "Extractor") /\ req \in [Threads -> Request]
      /\ dir \in [Packages -> SUBSET Items]
    BY DEF DeployInv, MachineTypeOK, ReqInv, RemoveDirectory
<1>2. p \in Packages /\ req[t] \in Request
    BY <1>1, RemovingRuns
<1>3. PICK kept \in SUBSET dir[p] :
          /\ dir' = [dir EXCEPT ![p] = kept]
          /\ req' = [req EXCEPT ![t].rpc = "done", ![t].left = (kept # {})]
          /\ stuck' = IF kept = {} THEN stuck ELSE stuck \cup {p}
    BY DEF RemoveDirectory
<1>4. \A q \in Packages : dir'[q] \subseteq dir[q]
    BY <1>1, <1>2, <1>3
<1>5. dir'[p] = {} \/ p \in stuck'
    BY <1>1, <1>2, <1>3
<1>6. \A q \in Packages : LeftBehind(q) => LeftBehind(q)'
    BY <1>3 DEF LeftBehind
<1>7. /\ req'[t].hr = req[t].hr /\ req'[t].op = req[t].op /\ req'[t].pc = req[t].pc
      /\ req'[t].pkg = req[t].pkg /\ req'[t].rem = p
    BY <1>1, <1>2, <1>3 DEF Request
<1> HIDE DEF p
<1>8. Apart'
    BY <1>4, <1>6 DEF FamilyInv, Apart
<1>9. Cleared(t)'
    BY <1>5, <1>7 DEF Cleared
<1>10. Beside(t)'
    BY <1>4, <1>6, <1>7 DEF FamilyInv, Beside, Extracting, p
<1> QED
    BY <1>8, <1>9, <1>10 DEF FamilyInv

LEMMA ReturnFromRemoveFamily ==
    ASSUME DeployInv, NEW t \in Threads, FamilyInv(t), ReturnFromRemove(t)
    PROVE  FamilyInv(t)'
<1>1. /\ Removing(t, "done") /\ RemovalReturns(t, "ok") /\ dir' = dir /\ stuck' = stuck
      /\ ReqInv
    BY DEF ReturnFromRemove, DeployInv
<1>2. dir[req[t].rem] = {} \/ req[t].rem \in stuck
    BY <1>1 DEF FamilyInv, Cleared, Removing
<1> QED
    BY <1>1, <1>2, ReturnsFamily

\* Requests are made, cancelled and killed.
LEMMA RequestFamily ==
    ASSUME DeployInv, NEW t \in Threads, FamilyInv(t),
           \/ \E op \in {"add", "remove"}, p \in Packages : Start(t, op, p)
           \/ CancelRequest(t) \/ Crash(t) \/ InstallComplete(t)
    PROVE  FamilyInv(t)'
<1>1. req \in [Threads -> Request] /\ req[t] \in Request
    BY DEF DeployInv, ReqInv
<1>2. ASSUME NEW op \in {"add", "remove"}, NEW p \in Packages, Start(t, op, p)
      PROVE  FamilyInv(t)'
  <2> DEFINE r == [NoRequest EXCEPT !.op = op, !.pkg = p, !.status = "started",
                                    !.hr = "pending"]
             s == IF op = "add" THEN [r EXCEPT !.pc = "PopulatePackageInfo"]
                                ELSE RemoveOf(r, p)
  <2>1. req'[t] = s
    BY <1>1, <1>2 DEF Start
  <2>2. /\ op = "add" => s.pc = "PopulatePackageInfo" /\ s.rem = NoPkg
        /\ op = "remove" => s.pc = "done" /\ s.rpc = "PopulatePackageInfo"
    BY DEF NoRequest, RemoveOf
  <2> HIDE DEF s
  <2>3. dir' = dir /\ stuck' = stuck
    BY <1>2 DEF Start, machineVars
  <2> QED
    BY <2>1, <2>2, <2>3, FamilyQuiet
<1>3. CASE CancelRequest(t)
  <2>1. req'[t] = [req[t] EXCEPT !.cancelled = TRUE] /\ dir' = dir /\ stuck' = stuck
    BY <1>1, <1>3 DEF CancelRequest, machineVars
  <2>2. /\ req'[t].hr = req[t].hr /\ req'[t].op = req[t].op /\ req'[t].pc = req[t].pc
        /\ req'[t].pkg = req[t].pkg /\ req'[t].rem = req[t].rem /\ req'[t].rpc = req[t].rpc
    BY <1>1, <2>1 DEF Request
  <2> QED
    BY <2>1, <2>2, FamilyQuiet
<1>4. CASE Crash(t)
  <2>1. req'[t] = Returned(req[t], "killed") /\ dir' = dir /\ stuck' = stuck
    BY <1>1, <1>4 DEF Crash
  <2>2. req'[t].hr = "killed"
    BY <1>1, <2>1, ReturnedFields
  <2> QED
    BY <2>1, <2>2, FamilyQuiet
<1>5. CASE InstallComplete(t)
  <2> DEFINE c == IF req[t].cancelled THEN req[t]
                                      ELSE [req[t] EXCEPT !.status = "completed"]
  <2>1. req'[t] = Returned(c, "ok") /\ dir' = dir /\ stuck' = stuck
    BY <1>1, <1>5 DEF InstallComplete
  <2>2. c \in Request
    BY <1>1 DEF Request
  <2> HIDE DEF c
  <2>3. req'[t].hr = "ok"
    BY <2>1, <2>2, ReturnedFields
  <2> QED
    BY <2>1, <2>3, FamilyQuiet
<1> QED
    BY <1>2, <1>3, <1>4, <1>5

LEMMA FamilyNext ==
    ASSUME OneThread, DeployInv, ReportInv, \A t \in Threads : FamilyInv(t), [Next]_vars
    PROVE  \A t \in Threads : FamilyInv(t)'
<1>1. CASE UNCHANGED vars
    BY <1>1, FamilyQuiet DEF vars
<1>2. ASSUME NEW t \in Threads,
             \/ \E op \in {"add", "remove"}, p \in Packages : Start(t, op, p)
             \/ CancelRequest(t) \/ Crash(t) \/ Step(t) \/ ScriptEnds(t)
      PROVE  \A u \in Threads : FamilyInv(u)'
  <2>1. FamilyInv(t)'
    BY <1>2, RequestFamily, ValidateFamily, ProcessPotentialUpdateFamily,
       CreatePackageRootFamily, ExtractFileFamily, LateHandlersFamily, ReadManifestFamily,
       RemoveHandlersFamily, RemoveDirectoryFamily, ReturnFromRemoveFamily DEF Step
  <2> QED
    BY <2>1 DEF OneThread
<1> QED
    BY <1>1, <1>2 DEF Next

(***************************************************************************)
(* When the requests run one after the other, two versions of one package  *)
(* are listed only after a removal in that family could not read the       *)
(* manifest or remove_all failed, whatever else fails, is cancelled or is  *)
(* killed (ProcessPotentialUpdate).                                        *)
(***************************************************************************)
THEOREM DeployOnePerFamily == OneThread /\ Spec => []OnePerFamily
<1>1. Init => Apart /\ \A t \in Threads : FamilyInv(t)
  <2> SUFFICES ASSUME Init PROVE Apart /\ \A t \in Threads : FamilyInv(t)
    OBVIOUS
  <2>1. Apart
    BY DEF Init, Apart
  <2>2. \A t \in Threads : req[t].hr # "pending"
    BY DEF Init, NoRequest
  <2> QED
    BY <2>1, <2>2 DEF FamilyInv, Cleared, Beside, Extracting, Active
<1>2. ASSUME OneThread PROVE Spec => []OnePerFamily
  <2>1. Spec => [](DeployInv /\ ReportInv)
    BY <1>2, ReportHolds
  <2>2. /\ DeployInv /\ ReportInv /\ (Apart /\ \A t \in Threads : FamilyInv(t)) /\ [Next]_vars
        => (Apart /\ \A t \in Threads : FamilyInv(t))'
    <3> SUFFICES ASSUME DeployInv, ReportInv, Apart, \A t \in Threads : FamilyInv(t),
                        [Next]_vars
                 PROVE  (Apart /\ \A t \in Threads : FamilyInv(t))'
      OBVIOUS
    <3>1. \A t \in Threads : FamilyInv(t)'
      BY <1>2, FamilyNext
    <3>2. CASE Threads = {}
      BY <3>2 DEF Next, vars, Apart, LeftBehind
    <3>3. CASE Threads # {}
      BY <3>1, <3>3 DEF FamilyInv
    <3> QED
      BY <3>1, <3>2, <3>3
  <2>3. Apart => OnePerFamily
    BY DEF Apart, OnePerFamily, Installed, LeftBehind
  <2> QED
    BY <1>1, <2>1, <2>2, <2>3, PTL DEF Spec
<1> QED
    BY <1>2

-----------------------------------------------------------------------------
(***************************************************************************)
(* The directories, step by step.                                          *)
(***************************************************************************)
LEMMA EmptyOrRoot ==
    ASSUME ReportInv, NEW p \in Packages
    PROVE  /\ "root" \in dir[p] <=> dir[p] # {}
           /\ Whole(p) => /\ dir[p] # {} /\ "root" \in dir[p]
                          /\ "manifest" \in dir[p] /\ "blockmap" \in dir[p]
                          /\ "registry.dat" \in dir[p] <=> HiveKeys[p] # <<>>
<1>1. "manifest" \in KeysOf(Contents(p))
    BY ContentsFacts DEF KeysOf
<1> QED
    BY <1>1, ContentsFacts DEF ReportInv, DirInv, Whole

\* A request that is over, or has done nothing yet, asks nothing of the
\* directories but that they are whole or gone.
LEMMA IdlePlaces ==
    ASSUME NEW t \in Threads, PlacesInv(t), dir' = dir, ~Adding(t, "Extractor"),
           \A p \in Packages : hive'[p] = Free,
           \/ req'[t].hr # "pending"
           \/ /\ req'[t].rem = NoPkg /\ req'[t].pc \in ReturnError
              /\ ~req'[t].cancelled /\ ~req'[t].reinstall
           \/ /\ req'[t].rem # NoPkg /\ req'[t].pc \notin ReturnError \cup {"Extractor"}
              /\ req'[t].rpc = "PopulatePackageInfo"
    PROVE  PlacesInv(t)'
<1>1. Early(t)' /\ Mounts(t)'
    BY DEF Early, Mounts, Active, ReturnError
<1>2. WholeOrGone(t)' /\ OneDirectory'
    BY DEF PlacesInv, WholeOrGone, OneDirectory, Whole
<1>3. Handled(t)' /\ Alone(t)'
    BY DEF Handled, Alone, Active, ReturnError
<1> QED
    BY <1>1, <1>2, <1>3 DEF PlacesInv

LEMMA StartPlaces ==
    ASSUME DeployInv, NEW t \in Threads, PlacesInv(t),
           NEW op \in {"add", "remove"}, NEW p \in Packages, Start(t, op, p)
    PROVE  PlacesInv(t)'
<1> DEFINE r == [NoRequest EXCEPT !.op = op, !.pkg = p, !.status = "started",
                                  !.hr = "pending"]
           s == IF op = "add" THEN [r EXCEPT !.pc = "PopulatePackageInfo"] ELSE RemoveOf(r, p)
<1>1. req'[t] = s
    BY DEF Start, DeployInv, ReqInv
<1>2. /\ op = "add" => s.pc = "PopulatePackageInfo" /\ s.rem = NoPkg
                       /\ ~s.reinstall /\ ~s.cancelled
      /\ op = "remove" => s.pc = "done" /\ s.rem = p /\ s.rpc = "PopulatePackageInfo"
    BY DEF NoRequest, RemoveOf
<1> HIDE DEF s
<1>3. dir' = dir /\ hive' = hive /\ ~Active(t)
    BY DEF Start, machineVars
<1>4. \A q \in Packages : hive'[q] = Free
    BY <1>3 DEF PlacesInv, Mounts
<1> QED
    BY <1>1, <1>2, <1>3, <1>4, IdlePlaces, NamesAssumption DEF Adding, ReturnError

LEMMA CancelPlaces ==
    ASSUME LateFaults, DeployInv, NEW t \in Threads, PlacesInv(t), CancelRequest(t)
    PROVE  PlacesInv(t)'
<1> DEFINE r == req[t]
           s == [r EXCEPT !.cancelled = TRUE]
<1>1. r \in Request /\ req'[t] = s
    BY DEF CancelRequest, DeployInv, ReqInv
<1>2. /\ s.op = r.op /\ s.pkg = r.pkg /\ s.pc = r.pc /\ s.rem = r.rem /\ s.rpc = r.rpc
      /\ s.hr = r.hr /\ s.reinstall = r.reinstall
    BY <1>1 DEF Request
<1>3. dir' = dir /\ hive' = hive
    BY DEF CancelRequest, machineVars
<1> HIDE DEF s
<1>4. s.pc \notin ReturnError \cup {"Extractor"}
    BY <1>2 DEF CancelRequest, LateFaults
<1>5. Early(t)' /\ Mounts(t)'
    BY <1>1, <1>2, <1>3, <1>4 DEF PlacesInv, Early, Mounts, Active
<1>6. WholeOrGone(t)' /\ OneDirectory'
    BY <1>1, <1>2, <1>3 DEF PlacesInv, WholeOrGone, OneDirectory, Whole, Adding, Active
<1>7. Handled(t)' /\ Alone(t)'
    BY <1>1, <1>2, <1>3 DEF PlacesInv, Handled, Alone, Active, Whole
<1> QED
    BY <1>5, <1>6, <1>7 DEF PlacesInv

LEMMA ValidatePlaces ==
    ASSUME DeployInv, NEW t \in Threads, PlacesInv(t), Validate(t)
    PROVE  PlacesInv(t)'
<1>1. PICK h \in ReturnError \ {"ProcessPotentialUpdate"} : Adding(t, h)
    BY DEF Validate
<1>2. ReqInv /\ dir' = dir /\ hive' = hive /\ h # "InstallComplete" /\ h # "Extractor"
    BY DEF DeployInv, Validate, machineVars, ReturnError
<1>3. \A q \in Packages : hive'[q] = Free
    BY <1>1, <1>2, NamesAssumption DEF PlacesInv, Mounts, Adding, ReturnError
<1>4. NextHandler(AddHandlers, h) \in ReturnError
    BY AddHandlersNext DEF ReturnError
<1>5. CASE Goes(t)
  <2>1. /\ req'[t].rem = NoPkg /\ req'[t].pc = NextHandler(AddHandlers, h)
        /\ req'[t].reinstall = req[t].reinstall /\ req'[t].cancelled = req[t].cancelled
    BY <1>1, <1>2, <1>5, GoesFields
  <2>2. ~req[t].reinstall /\ ~req[t].cancelled
    BY <1>1 DEF PlacesInv, Early, Adding
  <2> QED
    BY <1>1, <1>2, <1>3, <1>4, <2>1, <2>2, IdlePlaces DEF Adding
<1>6. CASE Fails(t, "failed")
  <2>1. req'[t].hr # "pending"
    BY <1>1, <1>2, <1>6, EarlyFailFields DEF Errors
  <2> QED
    BY <1>1, <1>2, <1>3, <2>1, IdlePlaces DEF Adding
<1> QED
    BY <1>5, <1>6 DEF Validate

LEMMA ProcessPotentialUpdatePlaces ==
    ASSUME DeployInv, ReportInv, NEW t \in Threads, PlacesInv(t), ProcessPotentialUpdate(t)
    PROVE  PlacesInv(t)'
<1> DEFINE h == "ProcessPotentialUpdate"
           r == req[t]
           sameFamily == {q \in Packages : "root" \in dir[q] /\ Family[q] = Family[r.pkg]}
<1>1. Adding(t, h) /\ h \in ReturnError /\ h # "InstallComplete" /\ ~Adding(t, "Extractor")
    BY DEF ProcessPotentialUpdate, ReturnError, Adding
<1>2. ReqInv /\ dir' = dir /\ hive' = hive
    BY DEF DeployInv, ProcessPotentialUpdate, machineVars
<1>3. r \in Request /\ r.op = "add" /\ r.pc = h /\ r.pkg \in Packages /\ r.rem = NoPkg
      /\ r.hr = "pending"
    BY <1>1, <1>2, AddingRuns DEF Runs, InChain
<1>4. \A q \in Packages : hive'[q] = Free
    BY <1>2, <1>3, NamesAssumption DEF PlacesInv, Mounts
<1>5. ~r.reinstall /\ ~r.cancelled
    BY <1>1 DEF PlacesInv, Early, Adding
<1>6. \A q \in Packages : Whole(q) \/ dir[q] = {}
    BY <1>1 DEF PlacesInv, WholeOrGone
<1>7. \A q \in Packages : q \in sameFamily <=> dir[q] # {} /\ Family[q] = Family[r.pkg]
    BY EmptyOrRoot
<1>8. \A q, p \in sameFamily : q = p
    BY <1>7 DEF PlacesInv, OneDirectory
<1> HIDE DEF sameFamily
<1>9. OneDirectory' /\ Mounts(t)'
    BY <1>2, <1>4 DEF PlacesInv, OneDirectory, Mounts
<1>10. ASSUME sameFamily = {}, Goes(t) PROVE PlacesInv(t)'
  <2>1. /\ req'[t].pc = "Extractor" /\ req'[t].rem = NoPkg /\ req'[t].pkg = r.pkg
        /\ ~req'[t].reinstall /\ ~req'[t].cancelled
    BY <1>1, <1>2, <1>5, <1>10, GoesFields, AddHandlersNext
  <2>2. Early(t)' /\ Handled(t)'
    BY <2>1 DEF Early, Handled, ReturnError
  <2>3. WholeOrGone(t)'
    BY <1>2, <1>6 DEF WholeOrGone, Whole
  <2>4. Alone(t)'
    BY <1>2, <1>3, <1>7, <1>10, <2>1 DEF Alone
  <2> QED
    BY <1>9, <2>2, <2>3, <2>4 DEF PlacesInv
<1>11. ASSUME r.pkg \in sameFamily,
              req' = [req EXCEPT ![t].reinstall = TRUE, ![t].pc = "Extractor"]
       PROVE  PlacesInv(t)'
  <2>1. /\ req'[t].pc = "Extractor" /\ req'[t].rem = NoPkg /\ req'[t].pkg = r.pkg
        /\ req'[t].reinstall /\ ~req'[t].cancelled
    BY <1>2, <1>3, <1>5, <1>11 DEF ReqInv, Request
  <2>2. Whole(r.pkg)
    BY <1>3, <1>6, <1>7, <1>11
  <2>3. Early(t)' /\ Handled(t)'
    BY <1>2, <2>1, <2>2 DEF Early, Handled, ReturnError, Whole
  <2>4. WholeOrGone(t)'
    BY <1>2, <1>6 DEF WholeOrGone, Whole
  <2>5. Alone(t)'
    BY <1>2, <1>3, <1>7, <1>8, <1>11, <2>1 DEF Alone
  <2> QED
    BY <1>9, <2>3, <2>4, <2>5 DEF PlacesInv
<1>12. ASSUME NEW q \in sameFamily \ {r.pkg}, req' = [req EXCEPT ![t] = RemoveOf(@, q)]
       PROVE  PlacesInv(t)'
  <2>1. req'[t] = RemoveOf(r, q)
    BY <1>2, <1>12 DEF ReqInv
  <2>2. /\ req'[t].rem = q /\ req'[t].rpc = "PopulatePackageInfo" /\ req'[t].pc = h
        /\ req'[t].pkg = r.pkg /\ ~req'[t].reinstall /\ ~req'[t].cancelled
    BY <1>3, <1>5, <2>1 DEF RemoveOf, Request
  <2>3. q \in Packages /\ q # NoPkg
    BY <1>12, NamesAssumption DEF sameFamily
  <2>4. Early(t)' /\ Handled(t)'
    BY <2>2, <2>3 DEF Early, Handled
  <2>5. WholeOrGone(t)'
    BY <1>2, <1>6 DEF WholeOrGone, Whole
  <2>6. Alone(t)'
    BY <1>2, <1>3, <1>7, <1>8, <1>12, <2>2, <2>3 DEF Alone
  <2> QED
    BY <1>9, <2>4, <2>5, <2>6 DEF PlacesInv
<1>13. ASSUME Fails(t, "downgrade") PROVE PlacesInv(t)'
  <2>1. req'[t].hr # "pending"
    BY <1>1, <1>2, <1>13, EarlyFailFields DEF Errors
  <2> QED
    BY <1>1, <1>2, <1>4, <2>1, IdlePlaces
<1> QED
    BY <1>10, <1>11, <1>12, <1>13 DEF ProcessPotentialUpdate, sameFamily

\* Extractor does not fail, is not cancelled and finds registry.dat free.
LEMMA Extracts ==
    ASSUME LateFaults, DeployInv, NEW t \in Threads, PlacesInv(t), Adding(t, "Extractor")
    PROVE  ~MayFail(t) /\ ~req[t].cancelled /\ hive[req[t].pkg] = Free
<1>1. req[t].pkg \in Packages
    BY AddingRuns DEF DeployInv, Runs
<1> QED
    BY <1>1, NamesAssumption
       DEF LateFaults, MayFail, PlacesInv, Early, Mounts, Adding

\* What is added to the directory that is extracted.
LEMMA ExtractPlaces ==
    ASSUME DeployInv, NEW t \in Threads, PlacesInv(t), Adding(t, "Extractor"),
           NEW item \in {"root"} \cup KeysOf(Contents(req[t].pkg)),
           dir' = [dir EXCEPT ![req[t].pkg] = @ \cup {item}], hive' = hive,
           req'[t].hr = "pending", req'[t].op = "add", req'[t].rem = NoPkg,
           req'[t].pkg = req[t].pkg, req'[t].reinstall = req[t].reinstall,
           req'[t].cancelled = req[t].cancelled,
           \/ req'[t].pc = "Extractor"
           \/ /\ req'[t].pc = "PrepareDevirtualizedRegistry"
              /\ Whole(req[t].pkg)'
    PROVE  PlacesInv(t)'
<1> DEFINE r == req[t]
           p == r.pkg
<1>1. /\ p \in Packages /\ r.op = "add" /\ r.rem = NoPkg /\ r.pc = "Extractor"
      /\ r.hr = "pending" /\ dir \in [Packages -> SUBSET Items]
    BY AddingRuns DEF DeployInv, MachineTypeOK, Runs, InChain
<1>2. \A q \in Packages : dir'[q] = IF q = p THEN dir[q] \cup {item} ELSE dir[q]
    BY <1>1
<1>3. Early(t)'
    BY <1>1 DEF PlacesInv, Early, Active, ReturnError
<1>4. Mounts(t)'
    BY <1>1, NamesAssumption DEF PlacesInv, Mounts, Active
<1>5. Whole(p) => Whole(p)'
    BY <1>1, <1>2 DEF Whole
<1>6. Handled(t)'
    BY <1>1, <1>5 DEF PlacesInv, Handled, Active
<1>7. WholeOrGone(t)'
  <2>1. ASSUME NEW q \in Packages
        PROVE  Whole(q)' \/ dir'[q] = {} \/ (q = p /\ req'[t].pc = "Extractor" /\ ~r.reinstall)
    <3>1. CASE q = p
      <4>1. r.reinstall => Whole(p)'
        BY <1>1, <1>5 DEF PlacesInv, Handled, Active
      <4> QED
        BY <3>1, <4>1
    <3>2. CASE q # p
      BY <1>2, <3>2 DEF PlacesInv, WholeOrGone, Whole
    <3> QED
      BY <3>1, <3>2
  <2> QED
    BY <2>1 DEF WholeOrGone, Adding, Active
<1>8. \A q \in Packages : Family[q] = Family[p] /\ dir[q] # {} => q = p
    BY <1>1 DEF PlacesInv, Alone, Active
<1>9. OneDirectory'
    BY <1>1, <1>2, <1>8 DEF PlacesInv, OneDirectory
<1>10. Alone(t)'
    BY <1>1, <1>2, <1>8 DEF Alone
<1> QED
    BY <1>3, <1>4, <1>6, <1>7, <1>9, <1>10 DEF PlacesInv

LEMMA CreatePackageRootDoes ==
    ASSUME LateFaults, DeployInv, NEW t \in Threads, PlacesInv(t), CreatePackageRoot(t)
    PROVE  /\ Adding(t, "Extractor")
           /\ dir' = [dir EXCEPT ![req[t].pkg] = @ \cup {"root"}]
           /\ req' = [req EXCEPT ![t].todo = 1]
           /\ UNCHANGED <<hive, target, shared, reg, vfs, requests>>
BY Extracts DEF CreatePackageRoot

LEMMA CreatePackageRootPlaces ==
    ASSUME LateFaults, DeployInv, NEW t \in Threads, PlacesInv(t), CreatePackageRoot(t)
    PROVE  PlacesInv(t)'
<1>1. /\ Adding(t, "Extractor") /\ ReqInv /\ hive' = hive
      /\ dir' = [dir EXCEPT ![req[t].pkg] = @ \cup {"root"}]
      /\ req' = [req EXCEPT ![t].todo = 1]
    BY CreatePackageRootDoes DEF DeployInv
<1>2. /\ req'[t].hr = "pending" /\ req'[t].op = "add" /\ req'[t].rem = NoPkg
      /\ req'[t].pc = "Extractor" /\ req'[t].pkg = req[t].pkg
      /\ req'[t].reinstall = req[t].reinstall /\ req'[t].cancelled = req[t].cancelled
    BY <1>1, TodoStepFields
<1> QED
    BY <1>1, <1>2, ExtractPlaces

\* A file is extracted; the last one ends the handler.
LEMMA ExtractFileDoes ==
    ASSUME LateFaults, DeployInv, ReportInv, NEW t \in Threads, PlacesInv(t), ExtractFile(t)
    PROVE  /\ Adding(t, "Extractor")
           /\ req[t].todo \in 1..Len(Contents(req[t].pkg))
           /\ dir' = [dir EXCEPT ![req[t].pkg] =
                        @ \cup {Contents(req[t].pkg)[req[t].todo]}]
           /\ UNCHANGED <<hive, target, shared, reg, vfs, requests>>
           /\ req'[t].hr = "pending" /\ req'[t].op = "add" /\ req'[t].rem = NoPkg
           /\ req'[t].pkg = req[t].pkg /\ req'[t].reinstall = req[t].reinstall
           /\ req'[t].cancelled = req[t].cancelled
           /\ \/ req'[t].pc = "Extractor"
              \/ req'[t].pc = "PrepareDevirtualizedRegistry" /\ Whole(req[t].pkg)'
<1> DEFINE r == req[t]
           p == r.pkg
           n == Len(Contents(p))
           item == Contents(p)[r.todo]
<1>1. /\ Adding(t, "Extractor") /\ ReqInv /\ req \in [Threads -> Request]
      /\ UNCHANGED <<hive, target, shared, reg, vfs, requests>>
    BY DEF ExtractFile, DeployInv, ReqInv
<1>2. r \in Request /\ Runs(r) /\ InChain(r) /\ r.pc = "Extractor" /\ p \in Packages
    BY <1>1, AddingRuns DEF Runs
<1>3. r.todo \in 1..n /\ n \in Nat
    BY <1>2, ContentsFacts DEF InChain, TodoOK, ExtractFile
<1>4. ~MayFail(t) /\ ~r.cancelled /\ hive[p] = Free
    BY <1>1, Extracts
<1>5. /\ dir' = [dir EXCEPT ![p] = @ \cup {item}]
      /\ IF r.todo = n
           THEN req' = [req EXCEPT ![t].pc = NextHandler(AddHandlers, @),
                                   ![t].todo = 0, ![t].status = "extraction"]
           ELSE req' = [req EXCEPT ![t].todo = @ + 1]
    BY <1>4 DEF ExtractFile
<1>6. CASE r.todo # n
  <2>1. req' = [req EXCEPT ![t].todo = r.todo + 1] /\ r.todo + 1 \in Nat
    BY <1>1, <1>3, <1>5, <1>6
  <2>2. /\ req'[t].hr = "pending" /\ req'[t].op = "add" /\ req'[t].rem = NoPkg
        /\ req'[t].pc = "Extractor" /\ req'[t].pkg = req[t].pkg
        /\ req'[t].reinstall = req[t].reinstall /\ req'[t].cancelled = req[t].cancelled
    BY <1>1, <2>1, TodoStepFields
  <2> QED
    BY <1>1, <1>3, <1>5, <2>2
<1>7. CASE r.todo = n
  <2>1. /\ req'[t].hr = "pending" /\ req'[t].op = "add" /\ req'[t].rem = NoPkg
        /\ req'[t].pc = "PrepareDevirtualizedRegistry" /\ req'[t].pkg = req[t].pkg
        /\ req'[t].reinstall = req[t].reinstall /\ req'[t].cancelled = req[t].cancelled
    BY <1>1, <1>2, <1>5, <1>7, AddHandlersNext DEF Request, Runs, InChain
  <2>2. ReportInv' /\ DeployInv'
    BY ExtractFileReport, ExtractFileInv DEF LateFaults
  <2>3. Adding(t, "PrepareDevirtualizedRegistry")'
    BY <2>1 DEF Adding, Active
  <2>4. InChain(req[t])' /\ Active(t)'
    <3>1. Runs(req[t])'
      BY <2>1, <2>2 DEF DeployInv, ReqInv, RequestOK, Over
    <3> QED
      BY <2>1, <3>1, NamesAssumption DEF Active, Runs, PlainRemoval, Updating, RollingBack
  <2>5. Extracted(req[t])'
    BY <2>2, <2>4 DEF ReportInv, Progress
  <2>6. Whole(p)'
    BY <2>1, <2>5, RankValues DEF Extracted
  <2> QED
    BY <1>1, <1>3, <1>5, <2>1, <2>6
<1> QED
    BY <1>6, <1>7

LEMMA ExtractFilePlaces ==
    ASSUME LateFaults, DeployInv, ReportInv, NEW t \in Threads, PlacesInv(t), ExtractFile(t)
    PROVE  PlacesInv(t)'
<1> DEFINE p == req[t].pkg
           item == Contents(p)[req[t].todo]
<1>1. p \in Packages /\ item \in KeysOf(Contents(p))
  <2>1. p \in Packages
    BY ExtractFileDoes, AddingRuns DEF DeployInv, Runs
  <2> QED
    BY <2>1, ExtractFileDoes, ContentsFacts DEF KeysOf
<1> QED
  <2> DEFINE i == item
  <2> HIDE DEF i
  <2>1. i \in {"root"} \cup KeysOf(Contents(req[t].pkg))
    BY <1>1 DEF i
  <2>2. dir' = [dir EXCEPT ![req[t].pkg] = @ \cup {i}]
    BY ExtractFileDoes DEF i
  <2> QED
    BY <2>1, <2>2, ExtractFileDoes, ExtractPlaces

\* After the extraction an add does not touch the directories.
LEMMA LatePlaces ==
    ASSUME NEW t \in Threads, PlacesInv(t), NEW h, Adding(t, h),
           h \notin ReturnError \cup {"Extractor"}, dir' = dir, Mounts(t)',
           req'[t].rem = NoPkg, req'[t].pkg = req[t].pkg,
           req'[t].reinstall = req[t].reinstall,
           req'[t].pc \notin ReturnError \cup {"Extractor"}
    PROVE  PlacesInv(t)'
<1>1. Early(t)' /\ Alone(t)'
    BY DEF Early, Alone, Active, ReturnError
<1>2. WholeOrGone(t)' /\ OneDirectory'
    BY DEF PlacesInv, WholeOrGone, OneDirectory, Whole, Adding
<1>3. Handled(t)'
    BY DEF PlacesInv, Handled, Whole, Adding
<1> QED
    BY <1>1, <1>2, <1>3 DEF PlacesInv

\* A late failure starts the removal of what was added.
LEMMA LateFailPlaces ==
    ASSUME ReqInv, NEW t \in Threads, PlacesInv(t), NEW h, Adding(t, h),
           h \notin ReturnError \cup {"Extractor"},
           dir' = dir, \A p \in Packages : hive'[p] = Free,
           NEW code \in {"failed", "userexit"}, Fails(t, code)
    PROVE  PlacesInv(t)'
<1>1. /\ req'[t].pc = "ErrorHandler" /\ req'[t].rem # NoPkg
      /\ req'[t].rpc = "PopulatePackageInfo"
    BY LateFailFields
<1> QED
    BY <1>1, IdlePlaces DEF Adding, ReturnError

\* Only these two handlers of an add find a registry.dat mounted.
LEMMA NoneMounted ==
    ASSUME NEW t \in Threads, PlacesInv(t), NEW h, Adding(t, h),
           h \notin {"VirtualFileHandler", "WriteDevirtualizedRegistry"}
    PROVE  \A p \in Packages : hive[p] = Free
BY NamesAssumption DEF PlacesInv, Mounts, Adding

LEMMA PreparePlaces ==
    ASSUME LateFaults, DeployInv, NEW t \in Threads, PlacesInv(t),
           PrepareDevirtualizedRegistry(t)
    PROVE  PlacesInv(t)' /\ Goes(t)
<1> DEFINE h == "PrepareDevirtualizedRegistry"
           p == req[t].pkg
<1>1. Adding(t, h) /\ h \notin ReturnError \cup {"Extractor"} /\ h # "InstallComplete"
    BY DEF PrepareDevirtualizedRegistry, ReturnError
<1>2. /\ ReqInv /\ dir' = dir
      /\ hive \in [Packages -> {Free, Stray} \cup (Threads \X {"add", "remove"})]
    BY DEF DeployInv, MachineTypeOK, MountsOK, PrepareDevirtualizedRegistry
<1>3. p \in Packages
    BY <1>1, <1>2, AddingRuns DEF Runs
<1>4. \A q \in Packages : hive[q] = Free
    BY <1>1, NoneMounted
<1>5. ~MayFail(t)
    BY <1>1 DEF LateFaults, MayFail, Adding
<1>6. Goes(t) /\ (hive' = hive \/ hive' = [hive EXCEPT ![p] = <<t, "add">>])
    BY <1>3, <1>4, <1>5 DEF PrepareDevirtualizedRegistry
<1>7. /\ req'[t].hr = "pending" /\ req'[t].rem = NoPkg /\ req'[t].pc = "VirtualFileHandler"
      /\ req'[t].pkg = p /\ req'[t].reinstall = req[t].reinstall
    BY <1>1, <1>2, <1>6, GoesFields, AddHandlersNext
<1>8. Mounts(t)'
    BY <1>2, <1>3, <1>4, <1>6, <1>7 DEF Mounts, Active
<1> QED
    BY <1>1, <1>2, <1>6, <1>7, <1>8, LatePlaces DEF ReturnError

LEMMA PSFScriptExecuterPlaces ==
    ASSUME DeployInv, NEW t \in Threads, PlacesInv(t), PSFScriptExecuter(t) \/ ScriptEnds(t)
    PROVE  PlacesInv(t)'
<1> DEFINE h == "PSFScriptExecuter"
<1>1. Adding(t, h) /\ h \notin ReturnError \cup {"Extractor"} /\ h # "InstallComplete"
    BY DEF PSFScriptExecuter, ScriptEnds, ReturnError
<1>2. ReqInv /\ dir' = dir /\ hive' = hive
    BY DEF DeployInv, PSFScriptExecuter, ScriptEnds, machineVars
<1>3. \A q \in Packages : hive'[q] = Free
    BY <1>1, <1>2, NoneMounted
<1>4. Mounts(t)'
    BY <1>3 DEF Mounts
<1>5. CASE Goes(t)
  <2>1. /\ req'[t].rem = NoPkg /\ req'[t].pc = "StartMenuLink"
        /\ req'[t].pkg = req[t].pkg /\ req'[t].reinstall = req[t].reinstall
    BY <1>1, <1>2, <1>5, GoesFields, AddHandlersNext
  <2> QED
    BY <1>1, <1>2, <1>4, <2>1, LatePlaces DEF ReturnError
<1>6. CASE Fails(t, "userexit") \/ Fails(t, "failed")
    BY <1>1, <1>2, <1>3, <1>6, LateFailPlaces
<1>7. CASE req' = [req EXCEPT ![t].todo = 1]
  <2>1. /\ req'[t].rem = NoPkg /\ req'[t].pc = h
        /\ req'[t].pkg = req[t].pkg /\ req'[t].reinstall = req[t].reinstall
    BY <1>1, <1>2, <1>7, TodoStepFields
  <2> QED
    BY <1>1, <1>2, <1>4, <2>1, LatePlaces
<1> QED
    BY <1>5, <1>6, <1>7 DEF PSFScriptExecuter, ScriptEnds

LEMMA RegisterPlaces ==
    ASSUME DeployInv, NEW t \in Threads, PlacesInv(t), Register(t)
    PROVE  PlacesInv(t)'
<1>1. PICK h \in Registrars : Adding(t, h)
    BY DEF Register
<1>2. /\ h \notin ReturnError \cup {"Extractor"} /\ h # "InstallComplete"
      /\ h \notin {"VirtualFileHandler", "WriteDevirtualizedRegistry"}
    BY HandlersDistinct
<1>3. ReqInv /\ dir' = dir /\ hive' = hive /\ req \in [Threads -> Request]
    BY DEF DeployInv, ReqInv, Register
<1>4. \A q \in Packages : hive'[q] = Free
    BY <1>1, <1>2, <1>3, NoneMounted
<1>5. Mounts(t)'
    BY <1>4 DEF Mounts
<1>6. CASE Goes(t)
  <2>1. /\ req'[t].rem = NoPkg /\ req'[t].pc = NextHandler(AddHandlers, h)
        /\ req'[t].pkg = req[t].pkg /\ req'[t].reinstall = req[t].reinstall
    BY <1>1, <1>2, <1>3, <1>6, GoesFields
  <2>2. NextHandler(AddHandlers, h) \notin ReturnError \cup {"Extractor"}
    BY AddHandlersNext DEF Registrars, ReturnError
  <2> QED
    BY <1>1, <1>2, <1>3, <1>5, <2>1, <2>2, LatePlaces
<1>7. CASE Fails(t, "userexit") \/ Fails(t, "failed")
    BY <1>1, <1>2, <1>3, <1>4, <1>7, LateFailPlaces
<1>8. CASE req' = [req EXCEPT ![t].todo = @ + 1]
  <2>3. /\ req'[t].rem = NoPkg /\ req'[t].pc = h
        /\ req'[t].pkg = req[t].pkg /\ req'[t].reinstall = req[t].reinstall
    BY <1>1, <1>3, <1>8, NextTodoFields
  <2> QED
    BY <1>1, <1>2, <1>3, <1>5, <2>3, LatePlaces
<1> QED
    BY <1>6, <1>7, <1>8 DEF Register

LEMMA InstallCompletePlaces ==
    ASSUME LateFaults, DeployInv, ReportInv, NEW t \in Threads, PlacesInv(t), InstallComplete(t)
    PROVE  PlacesInv(t)'
<1>1. Adding(t, "InstallComplete") /\ dir' = dir /\ Release(t, {"add"})
    BY DEF InstallComplete
<1>2. \A q \in Packages : hive[q] = Free
    BY <1>1, NoneMounted
<1>3. \A q \in Packages : hive'[q] = Free
    BY <1>1, <1>2, ReleaseFacts
<1>4. req'[t].hr # "pending"
    BY InstallCompleteReport DEF LateFaults
<1> QED
    BY <1>1, <1>3, <1>4, IdlePlaces DEF Adding

\* VirtualFileHandler neither fails nor finds a file gone that it saw.
LEMMA CopyVfsFilesPlaces ==
    ASSUME DeployInv, NEW t \in Threads, PlacesInv(t), CopyVfsFiles(t), req' = req \/ Goes(t)
    PROVE  PlacesInv(t)'
<1> DEFINE h == "VirtualFileHandler"
<1>1. Adding(t, h) /\ h \notin ReturnError \cup {"Extractor"} /\ h # "InstallComplete"
    BY DEF CopyVfsFiles, ReturnError
<1>2. ReqInv /\ dir' = dir /\ hive' = hive
    BY DEF DeployInv, CopyVfsFiles
<1>3. CASE req' = req
  <2>1. Mounts(t)'
    BY <1>2, <1>3 DEF PlacesInv, Mounts, Active
  <2> QED
    BY <1>1, <1>2, <1>3, <2>1, LatePlaces DEF Adding
<1>4. CASE Goes(t)
  <2>1. /\ req'[t].rem = NoPkg /\ req'[t].pc = "WriteDevirtualizedRegistry"
        /\ req'[t].pkg = req[t].pkg /\ req'[t].reinstall = req[t].reinstall
        /\ req'[t].hr = "pending"
    BY <1>1, <1>2, <1>4, GoesFields, AddHandlersNext
  <2>2. Mounts(t)'
    BY <1>1, <1>2, <2>1, NamesAssumption DEF PlacesInv, Mounts, Active, Adding
  <2> QED
    BY <1>1, <1>2, <2>1, <2>2, LatePlaces DEF ReturnError
<1> QED
    BY <1>3, <1>4

LEMMA WritePlaces ==
    ASSUME LateFaults, DeployInv, NEW t \in Threads, PlacesInv(t), WriteDevirtualizedRegistry(t)
    PROVE  PlacesInv(t)'
<1> DEFINE h == "WriteDevirtualizedRegistry"
           p == req[t].pkg
           mounted == hive[p] = <<t, "add">>
<1>1. Adding(t, h) /\ h \notin ReturnError \cup {"Extractor"} /\ h # "InstallComplete"
    BY DEF WriteDevirtualizedRegistry, DevirtualizeKey, ReturnError
<1>2. /\ ReqInv /\ dir' = dir /\ req \in [Threads -> Request]
      /\ hive \in [Packages -> {Free, Stray} \cup (Threads \X {"add", "remove"})]
    BY DEF DeployInv, ReqInv, MachineTypeOK, MountsOK, WriteDevirtualizedRegistry, DevirtualizeKey
<1>3. p \in Packages
    BY <1>1, <1>2, AddingRuns DEF Runs
<1>4. \A q \in Packages : hive[q] = Free \/ (q = p /\ mounted)
    BY <1>1, NamesAssumption DEF PlacesInv, Mounts, Adding
<1>5. CASE /\ req' = [req EXCEPT ![t].todo = @ + 1] /\ hive' = hive
  <2>3. /\ req'[t].rem = NoPkg /\ req'[t].pc = h /\ req'[t].hr = "pending"
        /\ req'[t].pkg = req[t].pkg /\ req'[t].reinstall = req[t].reinstall
    BY <1>1, <1>2, <1>5, NextTodoFields
  <2>4. Mounts(t)'
    BY <1>1, <1>5, <2>3, NamesAssumption DEF PlacesInv, Mounts, Active, Adding
  <2> QED
    BY <1>1, <1>2, <2>3, <2>4, LatePlaces
<1>6. CASE Goes(t) /\ hive' = IF mounted THEN [hive EXCEPT ![p] = Free] ELSE hive
  <2>1. /\ req'[t].rem = NoPkg /\ req'[t].pc = "PSFScriptExecuter"
        /\ req'[t].pkg = req[t].pkg /\ req'[t].reinstall = req[t].reinstall
    BY <1>1, <1>2, <1>6, GoesFields, AddHandlersNext
  <2>2. \A q \in Packages : hive'[q] = Free
    BY <1>2, <1>3, <1>4, <1>6
  <2>3. Mounts(t)'
    BY <2>2 DEF Mounts
  <2> QED
    BY <1>1, <1>2, <2>1, <2>3, LatePlaces DEF ReturnError
<1>7. CASE Fails(t, "failed") /\ hive' = [hive EXCEPT ![p] = Free]
  <2>1. \A q \in Packages : hive'[q] = Free
    BY <1>2, <1>3, <1>4, <1>7
  <2> QED
    BY <1>1, <1>2, <1>7, <2>1, LateFailPlaces
<1> QED
    BY <1>5, <1>6, <1>7
        DEF WriteDevirtualizedRegistry, DevirtualizeKey, UnloadMountedHive, LateFaults

\* A removal that goes on leaves the directories.
LEMMA RemovalPlaces ==
    ASSUME ReqInv, NEW t \in Threads, PlacesInv(t),
           NEW h \in KeysOf(RemoveHandlers) \ {"Extractor"}, Removing(t, h), GoesOn(t),
           dir' = dir, Mounts(t)',
           h = "PopulatePackageInfo" => Whole(req[t].rem)
    PROVE  PlacesInv(t)'
<1> DEFINE r == req[t]
           s == req'[t]
<1>1. /\ s.hr = "pending" /\ s.op = r.op /\ s.pc = r.pc /\ s.pkg = r.pkg
      /\ s.rem = r.rem /\ s.rem \in Packages /\ s.rpc = NextHandler(RemoveHandlers, h)
      /\ s.reinstall = r.reinstall /\ s.cancelled = r.cancelled
    BY GoesOnFields
<1>2. r.hr = "pending" /\ r.rem # NoPkg /\ r.rpc = h
    BY DEF Removing, Active
<1>3. NextHandler(RemoveHandlers, h) \notin {"PopulatePackageInfo", "done"} /\ h # "done"
    BY RemoveHandlersNext, RemoveHandlersKeys
<1> HIDE DEF r, s
<1>4. Early(t)'
    BY <1>1, <1>2 DEF PlacesInv, Early, Active, r, s
<1>5. WholeOrGone(t)' /\ OneDirectory'
    BY <1>2 DEF PlacesInv, WholeOrGone, OneDirectory, Whole, Adding, r
<1>6. Whole(r.rem)
    BY <1>2, <1>3 DEF PlacesInv, Handled, Active, r
<1>7. Handled(t)'
    BY <1>1, <1>2, <1>3, <1>6 DEF Handled, Whole, s
<1>8. Alone(t)'
    BY <1>1, <1>2 DEF PlacesInv, Alone, Active, r, s
<1> QED
    BY <1>4, <1>5, <1>7, <1>8 DEF PlacesInv

\* A removal returns once the directory is gone.
LEMMA ReturnsPlaces ==
    ASSUME ReqInv, NEW t \in Threads, PlacesInv(t), NEW h, h \notin Mounted, Removing(t, h),
           NEW hr \in {"ok", "failed"}, RemovalReturns(t, hr),
           dir' = dir, dir[req[t].rem] = {}
    PROVE  PlacesInv(t)'
<1> DEFINE r == req[t]
           s == req'[t]
<1>1. r.hr = "pending" /\ r.rem # NoPkg /\ r.rpc = h /\ r.rem \in Packages
    BY RemovingRuns DEF Removing, Active
<1>2. \A q \in Packages : hive[q] = Free
    BY <1>1 DEF PlacesInv, Mounts
<1>3. \A q \in Packages : hive'[q] = Free
  <2>1. PICK kinds \in SUBSET {"add", "remove"} : Release(t, kinds)
    BY DEF RemovalReturns
  <2> QED
    BY <1>2, <2>1, ReleaseFacts
<1>4. CASE s.hr # "pending"
    BY <1>1, <1>3, <1>4, IdlePlaces DEF Adding
<1>5. CASE /\ Updating(r)
           /\ s.hr = "pending" /\ s.rem = NoPkg /\ s.pc = "Extractor" /\ s.pkg = r.pkg
           /\ s.reinstall = r.reinstall /\ s.cancelled = r.cancelled
  <2>1. /\ r.op = "add" /\ r.pc = "ProcessPotentialUpdate"
    BY <1>5 DEF Updating
  <2> HIDE DEF r, s
  <2>2. ~r.reinstall /\ ~r.cancelled
    BY <1>1, <2>1 DEF PlacesInv, Early, Active, ReturnError, r
  <2>3. Early(t)' /\ Mounts(t)' /\ Handled(t)'
    BY <1>3, <1>5, <2>2 DEF Early, Mounts, Handled, ReturnError, s
  <2>4. WholeOrGone(t)' /\ OneDirectory'
    BY <1>1 DEF PlacesInv, WholeOrGone, OneDirectory, Whole, Adding, r
  <2>5. \A q \in Packages : Family[q] = Family[r.pkg] /\ dir[q] # {} => q = r.rem
    BY <1>1, <2>1 DEF PlacesInv, Alone, Active, r
  <2>6. Alone(t)'
    BY <1>5, <2>5 DEF Alone, r, s
  <2> QED
    BY <2>3, <2>4, <2>6 DEF PlacesInv
<1> QED
    BY <1>4, <1>5, ReturnsFields

LEMMA ReadManifestPlaces ==
    ASSUME DeployInv, ReportInv, NEW t \in Threads, PlacesInv(t), ReadManifest(t)
    PROVE  PlacesInv(t)'
<1> DEFINE p == req[t].rem
           h == "PopulatePackageInfo"
<1>1. ReqInv /\ dir' = dir /\ Removing(t, h) /\ h \notin Mounted
    BY DEF DeployInv, ReadManifest, Mounted
<1>2. h \in KeysOf(RemoveHandlers) \ {"Extractor"}
    BY HandlersDistinct
<1>3. p \in Packages
    BY <1>1, RemovingRuns
<1>4. Whole(p) \/ dir[p] = {}
    BY <1>1, <1>3 DEF PlacesInv, WholeOrGone, Adding, Removing
<1>5. CASE "manifest" \in dir[p] /\ GoesOn(t) /\ hive' = hive
  <2>1. Whole(p)
    BY <1>4, <1>5
  <2>2. \A q \in Packages : hive'[q] = Free
    BY <1>1, <1>5 DEF PlacesInv, Mounts, Removing
  <2>3. Mounts(t)'
    BY <2>2 DEF Mounts
  <2> QED
    BY <1>1, <1>2, <1>5, <2>1, <2>3, RemovalPlaces
<1>6. CASE "manifest" \notin dir[p] /\ RemovalReturns(t, "failed")
  <2>1. dir[p] = {}
    BY <1>3, <1>4, <1>6, EmptyOrRoot
  <2> QED
    BY <1>1, <1>6, <2>1, ReturnsPlaces
<1> QED
    BY <1>5, <1>6 DEF ReadManifest

LEMMA UnregisterPlaces ==
    ASSUME DeployInv, NEW t \in Threads, PlacesInv(t), Unregister(t)
    PROVE  PlacesInv(t)'
<1>1. PICK h \in Registrars : Removing(t, h)
    BY DEF Unregister
<1>2. ReqInv /\ dir' = dir /\ hive' = hive /\ GoesOn(t)
    BY DEF DeployInv, Unregister
<1>3. h \in KeysOf(RemoveHandlers) \ {"Extractor"} /\ h # "PopulatePackageInfo"
    BY HandlersDistinct
<1>4. h \in Mounted => NextHandler(RemoveHandlers, h) \in Mounted
    BY <1>3, RemoveHandlersNext, HandlersDistinct DEF Mounted, Registrars
<1>5. /\ req'[t].hr = "pending" /\ req'[t].rem = req[t].rem
      /\ req'[t].rpc = NextHandler(RemoveHandlers, h)
    BY <1>1, <1>2, <1>3, GoesOnFields
<1>6. Mounts(t)'
    BY <1>1, <1>2, <1>4, <1>5 DEF PlacesInv, Mounts, Removing, Active
<1> QED
    BY <1>1, <1>2, <1>3, <1>6, RemovalPlaces

LEMMA PrepareForRemovePlaces ==
    ASSUME DeployInv, NEW t \in Threads, PlacesInv(t), PrepareForRemove(t)
    PROVE  PlacesInv(t)'
<1> DEFINE h == "PrepareDevirtualizedRegistry"
           p == req[t].rem
<1>1. /\ ReqInv /\ dir' = dir /\ GoesOn(t) /\ Removing(t, h)
      /\ hive \in [Packages -> {Free, Stray} \cup (Threads \X {"add", "remove"})]
      /\ hive' = hive \/ hive' = [hive EXCEPT ![p] = <<t, "remove">>]
    BY DEF DeployInv, MachineTypeOK, MountsOK, PrepareForRemove
<1>2. h \in KeysOf(RemoveHandlers) \ {"Extractor"} /\ h # "PopulatePackageInfo"
    BY HandlersDistinct
<1>3. /\ req'[t].hr = "pending" /\ req'[t].rem = p /\ p \in Packages
      /\ req'[t].rpc = "Protocol"
    BY <1>1, <1>2, GoesOnFields, RemoveHandlersNext
<1>4. \A q \in Packages : hive[q] = Free
    BY <1>1 DEF PlacesInv, Mounts, Removing, Mounted
<1>5. Mounts(t)'
    BY <1>1, <1>3, <1>4 DEF Mounts, Active, Mounted
<1> QED
    BY <1>1, <1>2, <1>5, RemovalPlaces

LEMMA RemoveVfsFilesPlaces ==
    ASSUME DeployInv, NEW t \in Threads, PlacesInv(t), RemoveVfsFiles(t)
    PROVE  PlacesInv(t)'
<1> DEFINE h == "VirtualFileHandler"
<1>1. ReqInv /\ dir' = dir /\ hive' = hive /\ Removing(t, h)
    BY DEF DeployInv, RemoveVfsFiles
<1>2. h \in KeysOf(RemoveHandlers) \ {"Extractor"} /\ h # "PopulatePackageInfo"
    BY HandlersDistinct
<1>3. CASE req' = req
    BY <1>1, <1>3 DEF PlacesInv, Early, Mounts, WholeOrGone, Handled, OneDirectory, Alone,
                      Active, Adding, Whole
<1>4. CASE GoesOn(t)
  <2>1. /\ req'[t].hr = "pending" /\ req'[t].rem = req[t].rem
        /\ req'[t].rpc = "WriteDevirtualizedRegistry"
    BY <1>1, <1>2, <1>4, GoesOnFields, RemoveHandlersNext
  <2>2. Mounts(t)'
    BY <1>1, <2>1 DEF PlacesInv, Mounts, Removing, Active, Mounted
  <2> QED
    BY <1>1, <1>2, <1>4, <2>2, RemovalPlaces
<1> QED
    BY <1>3, <1>4 DEF RemoveVfsFiles

LEMMA RemoveRegistryPlaces ==
    ASSUME LateFaults, DeployInv, NEW t \in Threads, PlacesInv(t), RemoveDevirtualizedRegistry(t)
    PROVE  PlacesInv(t)'
<1> DEFINE h == "WriteDevirtualizedRegistry"
           p == req[t].rem
           mounted == hive[p] = <<t, "remove">>
<1>1. /\ ReqInv /\ dir' = dir /\ GoesOn(t) /\ Removing(t, h)
      /\ hive \in [Packages -> {Free, Stray} \cup (Threads \X {"add", "remove"})]
      /\ hive' = IF mounted THEN [hive EXCEPT ![p] = Free] ELSE hive
    BY DEF DeployInv, MachineTypeOK, MountsOK, RemoveDevirtualizedRegistry,
           UnloadMountedHive, LateFaults
<1>2. h \in KeysOf(RemoveHandlers) \ {"Extractor"} /\ h # "PopulatePackageInfo"
    BY HandlersDistinct
<1>3. p \in Packages
    BY <1>1, RemovingRuns
<1>4. \A q \in Packages : hive[q] = Free \/ (q = p /\ mounted)
    BY <1>1 DEF PlacesInv, Mounts, Removing
<1>5. \A q \in Packages : hive'[q] = Free
    BY <1>1, <1>3, <1>4
<1>6. Mounts(t)'
    BY <1>5 DEF Mounts
<1> QED
    BY <1>1, <1>2, <1>6, RemovalPlaces

LEMMA RemoveDirectoryDoes ==
    ASSUME LateFaults, DeployInv, NEW t \in Threads, PlacesInv(t), RemoveDirectory(t)
    PROVE  /\ Removing(t, "Extractor") /\ req[t].rem \in Packages
           /\ \A q \in Packages : dir'[q] = IF q = req[t].rem THEN {} ELSE dir[q]
           /\ req'[t].hr = "pending" /\ req'[t].op = req[t].op /\ req'[t].pc = req[t].pc
           /\ req'[t].pkg = req[t].pkg /\ req'[t].rem = req[t].rem /\ req'[t].rpc = "done"
           /\ req'[t].reinstall = req[t].reinstall
           /\ req'[t].cancelled = req[t].cancelled
           /\ UNCHANGED <<hive, target, shared, reg, vfs, requests>>
<1> DEFINE p == req[t].rem
<1>1. /\ ReqInv /\ Removing(t, "Extractor") /\ req \in [Threads -> Request]
      /\ dir \in [Packages -> SUBSET Items]
      /\ UNCHANGED <<hive, target, shared, reg, vfs, requests>>
    BY DEF DeployInv, MachineTypeOK, ReqInv, RemoveDirectory
<1>2. p \in Packages
    BY <1>1, RemovingRuns
<1>3. hive[p] = Free
    BY <1>1, <1>2, NamesAssumption DEF PlacesInv, Mounts, Removing, Mounted
<1>4. /\ dir' = [dir EXCEPT ![p] = {}]
      /\ req' = [req EXCEPT ![t].rpc = "done", ![t].left = FALSE]
  <2>1. ~MayFailToRemove(t)
    BY DEF MayFailToRemove, LateFaults
  <2>2. PICK kept \in SUBSET dir[p] :
            /\ kept = {}
            /\ dir' = [dir EXCEPT ![p] = kept]
            /\ req' = [req EXCEPT ![t].rpc = "done", ![t].left = (kept # {})]
    BY <1>3, <2>1 DEF RemoveDirectory
  <2> QED
    BY <2>2
<1>5. req'[t] = [req[t] EXCEPT !.rpc = "done", !.left = FALSE] /\ req[t] \in Request
    BY <1>1, <1>4
<1>6. /\ req'[t].hr = req[t].hr /\ req'[t].op = req[t].op /\ req'[t].pc = req[t].pc
      /\ req'[t].pkg = req[t].pkg /\ req'[t].rem = p /\ req'[t].rpc = "done"
      /\ req'[t].reinstall = req[t].reinstall /\ req'[t].cancelled = req[t].cancelled
    BY <1>5 DEF Request
<1> QED
    BY <1>1, <1>2, <1>4, <1>6 DEF Removing, Active

LEMMA RemoveDirectoryPlaces ==
    ASSUME LateFaults, DeployInv, NEW t \in Threads, PlacesInv(t), RemoveDirectory(t)
    PROVE  PlacesInv(t)'
<1> DEFINE r == req[t]
           s == req'[t]
<1>1. /\ r.hr = "pending" /\ r.rem # NoPkg /\ r.rpc = "Extractor" /\ r.rem \in Packages
      /\ s.hr = "pending" /\ s.op = r.op /\ s.pc = r.pc /\ s.pkg = r.pkg /\ s.rem = r.rem
      /\ s.rpc = "done" /\ s.reinstall = r.reinstall /\ s.cancelled = r.cancelled
      /\ hive' = hive
    BY RemoveDirectoryDoes DEF Removing, Active
<1>2. \A q \in Packages : dir'[q] = IF q = r.rem THEN {} ELSE dir[q]
    BY RemoveDirectoryDoes
<1> HIDE DEF r, s
<1>3. Early(t)'
    BY <1>1 DEF PlacesInv, Early, Active, r, s
<1>4. Mounts(t)'
    BY <1>1, NamesAssumption DEF PlacesInv, Mounts, Active, Mounted, r, s
<1>5. WholeOrGone(t)' /\ OneDirectory'
    BY <1>1, <1>2 DEF PlacesInv, WholeOrGone, OneDirectory, Whole, Adding, r, s
<1>6. Handled(t)' /\ Alone(t)'
    BY <1>1, <1>2 DEF PlacesInv, Handled, Alone, Active, r, s
<1> QED
    BY <1>3, <1>4, <1>5, <1>6 DEF PlacesInv

LEMMA ReturnFromRemovePlaces ==
    ASSUME DeployInv, NEW t \in Threads, PlacesInv(t), ReturnFromRemove(t)
    PROVE  PlacesInv(t)'
<1>1. /\ ReqInv /\ dir' = dir /\ Removing(t, "done") /\ RemovalReturns(t, "ok")
      /\ "done" \notin Mounted
    BY DEF DeployInv, ReturnFromRemove, Mounted
<1>2. dir[req[t].rem] = {}
    BY <1>1 DEF PlacesInv, Handled, Removing
<1> QED
    BY <1>1, <1>2, ReturnsPlaces

-----------------------------------------------------------------------------
(***************************************************************************)
(* The VFS files.  What the loop of VirtualFileHandler has read is so.     *)
(***************************************************************************)
InLoop(t) == Adding(t, "VirtualFileHandler") \/ Removing(t, "VirtualFileHandler")

Subject(r) == IF r.rem = NoPkg THEN r.pkg ELSE r.rem

Loop(t) ==
    LET v == vfs[t]
    IN  /\ ~InLoop(t) => v = VfsClosed
        /\ ~v.open => v = VfsClosed
        /\ v.open => v.left \subseteq Vfs[Subject(req[t])]
        /\ v.file \notin v.left
        /\ v.file # NoFile => /\ v.open
                              /\ v.file \in Vfs[Subject(req[t])]
                              /\ v.exists <=> target[v.file] # Missing
                              /\ v.count = shared[v.file]

(***************************************************************************)
(* Package p has a reference to the file at f: an add gives it one file    *)
(* after the other, and so does a removal take them back.                  *)
(***************************************************************************)
Copies(t, p) ==
    /\ Active(t) /\ req[t].rem = NoPkg /\ req[t].pkg = p
    /\ req[t].pc \in {"Extractor", "PrepareDevirtualizedRegistry", "VirtualFileHandler"}

Removes(t, p) ==
    /\ Active(t) /\ req[t].rem = p
    /\ req[t].rpc \in {"VirtualFileHandler", "WriteDevirtualizedRegistry", "Extractor"}

Refers(t, p, f) ==
    LET r == req[t]
        v == vfs[t]
        todo == f \in v.left \/ f = v.file
    IN  /\ f \in Vfs[p]
        /\ IF Copies(t, p)
             THEN r.reinstall \/ (r.pc = "VirtualFileHandler" /\ v.open /\ ~todo)
             ELSE IF Removes(t, p)
                    THEN r.rpc = "VirtualFileHandler" /\ (~v.open \/ todo)
                    ELSE Whole(p)

Referrers(t, f) == {p \in Packages : Refers(t, p, f)}

Needed(t, f) == Cardinality(Referrers(t, f)) + (IF f \in Foreign THEN 1 ELSE 0)

CountOK(t, f) ==
    /\ target[f] # Missing <=> Needed(t, f) > 0
    /\ shared[f] = Needed(t, f) \/ (Needed(t, f) = 1 /\ shared[f] = 0)
    /\ \A p \in Referrers(t, f) : target[f] >= FileVersion[p][f]

FilesInv(t) == Loop(t) /\ \A f \in Files : CountOK(t, f)

-----------------------------------------------------------------------------
(***************************************************************************)
(* The VFS files, step by step.                                            *)
(***************************************************************************)
LEMMA NeededFacts ==
    ASSUME NEW t, NEW f
    PROVE  /\ IsFiniteSet(Referrers(t, f))
           /\ Cardinality(Referrers(t, f)) \in Nat
           /\ Needed(t, f) \in Nat
<1>1. Referrers(t, f) \subseteq Packages /\ IsFiniteSet(Packages)
    BY VfsAssumption DEF Referrers
<1>2. IsFiniteSet(Referrers(t, f))
    BY <1>1, FS_Subset
<1>3. Cardinality(Referrers(t, f)) \in Nat
    BY <1>2, FS_CardinalityType
<1> QED
    BY <1>2, <1>3 DEF Needed

\* A file whose referrers stay, and which stays with its count.
LEMMA CountSame ==
    ASSUME NEW t \in Threads, NEW f \in Files, CountOK(t, f),
           target'[f] = target[f], shared'[f] = shared[f],
           \A p \in Packages : Refers(t, p, f)' <=> Refers(t, p, f)
    PROVE  CountOK(t, f)'
<1>1. Referrers(t, f)' = Referrers(t, f)
    BY DEF Referrers
<1>2. Needed(t, f)' = Needed(t, f)
    BY <1>1 DEF Needed
<1> QED
    BY <1>1, <1>2 DEF CountOK

\* Outside of VirtualFileHandler a package has its references or has none.
HasFiles(t, p) ==
    IF Copies(t, p) THEN req[t].reinstall
    ELSE IF Removes(t, p) THEN req[t].rpc = "VirtualFileHandler"
    ELSE Whole(p)

LEMMA QuietFiles ==
    ASSUME NEW t \in Threads, FilesInv(t), ~InLoop(t),
           UNCHANGED <<target, shared, vfs>>,
           \A p \in Packages : HasFiles(t, p)' <=> HasFiles(t, p)
    PROVE  FilesInv(t)'
<1>1. vfs[t] = VfsClosed /\ vfs'[t] = VfsClosed
    BY DEF FilesInv, Loop
<1>2. ~vfs[t].open /\ vfs[t].left = {} /\ vfs[t].file = NoFile
    BY <1>1 DEF VfsClosed
<1>3. Loop(t)'
    BY <1>1, <1>2 DEF Loop
<1>4. ASSUME NEW p \in Packages, NEW f \in Files
      PROVE  Refers(t, p, f)' <=> Refers(t, p, f)
  <2>1. Refers(t, p, f) <=> f \in Vfs[p] /\ HasFiles(t, p)
    BY <1>2 DEF Refers, HasFiles
  <2>2. Refers(t, p, f)' <=> f \in Vfs[p] /\ HasFiles(t, p)'
    BY <1>1, <1>2 DEF Refers, HasFiles
  <2> QED
    BY <2>1, <2>2
<1>5. \A f \in Files : CountOK(t, f)'
    BY <1>4, CountSame DEF FilesInv
<1> QED
    BY <1>3, <1>5 DEF FilesInv

\* A request that is over, or has not come to the files.
LEMMA IdleHasFiles ==
    ASSUME NEW t \in Threads,
           \/ req[t].hr # "pending"
           \/ /\ req[t].rem = NoPkg
              /\ req[t].pc \notin {"Extractor", "PrepareDevirtualizedRegistry",
                                   "VirtualFileHandler"}
           \/ /\ req[t].rem # NoPkg
              /\ req[t].rpc \notin {"VirtualFileHandler", "WriteDevirtualizedRegistry",
                                    "Extractor"},
           NEW p \in Packages
    PROVE  HasFiles(t, p) <=> Whole(p)
BY NamesAssumption DEF HasFiles, Copies, Removes, Active

LEMMA IdleHasFilesNext ==
    ASSUME NEW t \in Threads,
           \/ req'[t].hr # "pending"
           \/ /\ req'[t].rem = NoPkg
              /\ req'[t].pc \notin {"Extractor", "PrepareDevirtualizedRegistry",
                                   "VirtualFileHandler"}
           \/ /\ req'[t].rem # NoPkg
              /\ req'[t].rpc \notin {"VirtualFileHandler", "WriteDevirtualizedRegistry",
                                    "Extractor"},
           NEW p \in Packages
    PROVE  HasFiles(t, p)' <=> Whole(p)'
BY NamesAssumption DEF HasFiles, Copies, Removes, Active

\* From one such state to another.
LEMMA IdleFiles ==
    ASSUME NEW t \in Threads, FilesInv(t), UNCHANGED <<dir, target, shared, vfs>>,
           \/ req[t].hr # "pending"
           \/ /\ req[t].rem = NoPkg
              /\ req[t].pc \notin {"Extractor", "PrepareDevirtualizedRegistry",
                                   "VirtualFileHandler"}
           \/ /\ req[t].rem # NoPkg
              /\ req[t].rpc \notin {"VirtualFileHandler", "WriteDevirtualizedRegistry",
                                    "Extractor"},
           \/ req'[t].hr # "pending"
           \/ /\ req'[t].rem = NoPkg
              /\ req'[t].pc \notin {"Extractor", "PrepareDevirtualizedRegistry",
                                    "VirtualFileHandler"}
           \/ /\ req'[t].rem # NoPkg
              /\ req'[t].rpc \notin {"VirtualFileHandler", "WriteDevirtualizedRegistry",
                                     "Extractor"}
    PROVE  FilesInv(t)'
<1>1. ~InLoop(t)
    BY DEF InLoop, Adding, Removing, Active
<1>2. ASSUME NEW p \in Packages PROVE HasFiles(t, p)' <=> HasFiles(t, p)
  <2>1. HasFiles(t, p) <=> Whole(p)
    BY IdleHasFiles
  <2>2. HasFiles(t, p)' <=> Whole(p)'
    BY IdleHasFilesNext
  <2> QED
    BY <2>1, <2>2 DEF Whole
<1> QED
    BY <1>1, <1>2, QuietFiles

LEMMA StartFiles ==
    ASSUME DeployInv, NEW t \in Threads, FilesInv(t),
           NEW op \in {"add", "remove"}, NEW p \in Packages, Start(t, op, p)
    PROVE  FilesInv(t)'
<1> DEFINE r == [NoRequest EXCEPT !.op = op, !.pkg = p, !.status = "started",
                                  !.hr = "pending"]
           s == IF op = "add" THEN [r EXCEPT !.pc = "PopulatePackageInfo"] ELSE RemoveOf(r, p)
<1>1. req'[t] = s
    BY DEF Start, DeployInv, ReqInv
<1>2. /\ op = "add" => s.pc = "PopulatePackageInfo" /\ s.rem = NoPkg
      /\ op = "remove" => s.rem = p /\ s.rpc = "PopulatePackageInfo"
    BY DEF NoRequest, RemoveOf
<1> HIDE DEF s
<1>3. UNCHANGED <<dir, target, shared, vfs>> /\ req[t].hr # "pending"
    BY DEF Start, machineVars, Active
<1> QED
    BY <1>1, <1>2, <1>3, IdleFiles, NamesAssumption

LEMMA CancelFiles ==
    ASSUME DeployInv, NEW t \in Threads, FilesInv(t), CancelRequest(t)
    PROVE  FilesInv(t)'
<1> DEFINE r == req[t]
           s == [r EXCEPT !.cancelled = TRUE]
<1>1. r \in Request /\ req'[t] = s
    BY DEF CancelRequest, DeployInv, ReqInv
<1>2. /\ s.op = r.op /\ s.pkg = r.pkg /\ s.pc = r.pc /\ s.rem = r.rem /\ s.rpc = r.rpc
      /\ s.hr = r.hr /\ s.reinstall = r.reinstall
    BY <1>1 DEF Request
<1>3. UNCHANGED <<dir, target, shared, vfs>>
    BY DEF CancelRequest, machineVars
<1> HIDE DEF s
<1>4. Loop(t)'
    BY <1>1, <1>2, <1>3 DEF FilesInv, Loop, InLoop, Adding, Removing, Active, Subject
<1>5. \A p, f : Refers(t, p, f)' <=> Refers(t, p, f)
    BY <1>1, <1>2, <1>3 DEF Refers, Copies, Removes, Whole, Active
<1>6. \A f \in Files : CountOK(t, f)'
    BY <1>3, <1>5, CountSame DEF FilesInv
<1> QED
    BY <1>4, <1>6 DEF FilesInv

LEMMA ValidateFiles ==
    ASSUME DeployInv, NEW t \in Threads, FilesInv(t), Validate(t)
    PROVE  FilesInv(t)'
<1>1. PICK h \in ReturnError \ {"ProcessPotentialUpdate"} : Adding(t, h)
    BY DEF Validate
<1>2. ReqInv /\ UNCHANGED <<dir, target, shared, vfs>> /\ h # "InstallComplete"
    BY DEF DeployInv, Validate, machineVars, ReturnError
<1>3. req[t].rem = NoPkg /\ req[t].pc = h /\ h \in ReturnError
    BY <1>1 DEF Adding
<1>4. NextHandler(AddHandlers, h) \in ReturnError
    BY AddHandlersNext DEF ReturnError
<1>5. CASE Goes(t)
  <2>1. req'[t].rem = NoPkg /\ req'[t].pc = NextHandler(AddHandlers, h)
    BY <1>1, <1>2, <1>5, GoesFields
  <2> QED
    BY <1>2, <1>3, <1>4, <2>1, IdleFiles DEF ReturnError
<1>6. CASE Fails(t, "failed")
  <2>1. req'[t].hr # "pending"
    BY <1>1, <1>2, <1>6, EarlyFailFields DEF Errors
  <2> QED
    BY <1>2, <1>3, <2>1, IdleFiles DEF ReturnError
<1> QED
    BY <1>5, <1>6 DEF Validate

\* An add comes to the extraction: it has its files already or has none.
LEMMA ExtractorFiles ==
    ASSUME NEW t \in Threads, FilesInv(t), UNCHANGED <<dir, target, shared, vfs>>,
           \/ req[t].rem = NoPkg /\ req[t].pc \in ReturnError
           \/ /\ req[t].rem # NoPkg
              /\ req[t].rpc \in {"PopulatePackageInfo", "done"},
           req'[t].hr = "pending", req'[t].rem = NoPkg, req'[t].pc = "Extractor",
           req'[t].reinstall <=> Whole(req'[t].pkg)
    PROVE  FilesInv(t)'
<1>1. ~InLoop(t)
    BY DEF InLoop, Adding, Removing, ReturnError
<1>2. ASSUME NEW p \in Packages PROVE HasFiles(t, p)' <=> HasFiles(t, p)
  <2>1. HasFiles(t, p) <=> Whole(p)
    BY IdleHasFiles DEF ReturnError
  <2>2. HasFiles(t, p)' <=> IF p = req'[t].pkg THEN req'[t].reinstall ELSE Whole(p)'
    BY NamesAssumption DEF HasFiles, Copies, Removes, Active
  <2> QED
    BY <2>1, <2>2 DEF Whole
<1> QED
    BY <1>1, <1>2, QuietFiles

LEMMA ProcessPotentialUpdateFiles ==
    ASSUME DeployInv, ReportInv, NEW t \in Threads, PlacesInv(t), FilesInv(t),
           ProcessPotentialUpdate(t)
    PROVE  FilesInv(t)'
<1> DEFINE h == "ProcessPotentialUpdate"
           r == req[t]
           sameFamily == {q \in Packages : "root" \in dir[q] /\ Family[q] = Family[r.pkg]}
<1>1. Adding(t, h) /\ h \in ReturnError /\ h # "InstallComplete"
    BY DEF ProcessPotentialUpdate, ReturnError, Adding
<1>2. ReqInv /\ UNCHANGED <<dir, target, shared, vfs>>
    BY DEF DeployInv, ProcessPotentialUpdate, machineVars
<1>3. r \in Request /\ r.op = "add" /\ r.pc = h /\ r.pkg \in Packages /\ r.rem = NoPkg
      /\ r.hr = "pending"
    BY <1>1, <1>2, AddingRuns DEF Runs, InChain
<1>4. ~r.reinstall /\ (Whole(r.pkg) \/ dir[r.pkg] = {})
    BY <1>1, <1>3 DEF PlacesInv, Early, WholeOrGone, Adding
<1>5. r.pkg \in sameFamily <=> Whole(r.pkg)
    BY <1>3, <1>4, EmptyOrRoot
<1> HIDE DEF sameFamily
<1>6. ASSUME sameFamily = {}, Goes(t) PROVE FilesInv(t)'
  <2>1. /\ req'[t].pc = "Extractor" /\ req'[t].rem = NoPkg /\ req'[t].pkg = r.pkg
        /\ req'[t].reinstall = r.reinstall /\ req'[t].hr = "pending"
    BY <1>1, <1>2, <1>6, GoesFields, AddHandlersNext
  <2> QED
    BY <1>1, <1>2, <1>3, <1>4, <1>5, <1>6, <2>1, ExtractorFiles
<1>7. ASSUME r.pkg \in sameFamily,
             req' = [req EXCEPT ![t].reinstall = TRUE, ![t].pc = "Extractor"]
      PROVE  FilesInv(t)'
  <2>1. /\ req'[t].pc = "Extractor" /\ req'[t].rem = NoPkg /\ req'[t].pkg = r.pkg
        /\ req'[t].reinstall = TRUE /\ req'[t].hr = "pending"
    BY <1>2, <1>3, <1>7 DEF ReqInv, Request
  <2> QED
    BY <1>1, <1>2, <1>3, <1>5, <1>7, <2>1, ExtractorFiles
<1>8. ASSUME NEW q \in sameFamily \ {r.pkg}, req' = [req EXCEPT ![t] = RemoveOf(@, q)]
      PROVE  FilesInv(t)'
  <2>1. req'[t] = RemoveOf(r, q)
    BY <1>2, <1>8 DEF ReqInv
  <2>2. req'[t].rem = q /\ req'[t].rpc = "PopulatePackageInfo"
    BY <1>3, <2>1 DEF RemoveOf, Request
  <2>3. q \in Packages /\ q # NoPkg
    BY <1>8, NamesAssumption DEF sameFamily
  <2> QED
    BY <1>2, <1>3, <2>2, <2>3, IdleFiles
<1>9. ASSUME Fails(t, "downgrade") PROVE FilesInv(t)'
  <2>1. req'[t].hr # "pending"
    BY <1>1, <1>2, <1>9, EarlyFailFields DEF Errors
  <2> QED
    BY <1>2, <1>3, <2>1, IdleFiles
<1> QED
    BY <1>6, <1>7, <1>8, <1>9 DEF ProcessPotentialUpdate, sameFamily

\* The package that is extracted has its files or gets them later.
LEMMA CopiesFiles ==
    ASSUME DeployInv, NEW t \in Threads, FilesInv(t),
           NEW h \in {"Extractor", "PrepareDevirtualizedRegistry"}, Adding(t, h),
           \A q \in Packages : q # req[t].pkg => dir'[q] = dir[q],
           UNCHANGED <<target, shared, vfs>>,
           req'[t].hr = "pending", req'[t].rem = NoPkg, req'[t].pkg = req[t].pkg,
           req'[t].reinstall = req[t].reinstall,
           req'[t].pc \in {"Extractor", "PrepareDevirtualizedRegistry", "VirtualFileHandler"}
    PROVE  FilesInv(t)'
<1>1. ~InLoop(t) /\ Active(t) /\ req[t].rem = NoPkg /\ req[t].pc = h
    BY DEF InLoop, Adding, Removing
<1>2. ASSUME NEW p \in Packages PROVE HasFiles(t, p)' <=> HasFiles(t, p)
  <2>1. CASE p = req[t].pkg
    BY <1>1, <2>1 DEF HasFiles, Copies, Active
  <2>2. CASE p # req[t].pkg
    BY <1>1, <2>2, NamesAssumption DEF HasFiles, Copies, Removes, Whole
  <2> QED
    BY <2>1, <2>2
<1> QED
    BY <1>1, <1>2, QuietFiles

LEMMA CreatePackageRootFiles ==
    ASSUME LateFaults, DeployInv, NEW t \in Threads, PlacesInv(t), FilesInv(t),
           CreatePackageRoot(t)
    PROVE  FilesInv(t)'
<1>1. /\ Adding(t, "Extractor") /\ ReqInv /\ dir \in [Packages -> SUBSET Items]
      /\ dir' = [dir EXCEPT ![req[t].pkg] = @ \cup {"root"}]
      /\ req' = [req EXCEPT ![t].todo = 1]
      /\ UNCHANGED <<target, shared, vfs>>
    BY CreatePackageRootDoes DEF DeployInv, MachineTypeOK
<1>2. /\ req'[t].hr = "pending" /\ req'[t].rem = NoPkg
      /\ req'[t].pc = "Extractor" /\ req'[t].pkg = req[t].pkg
      /\ req'[t].reinstall = req[t].reinstall
  <2>1. ReqInv /\ Adding(t, "Extractor") /\ req' = [req EXCEPT ![t].todo = 1]
    BY <1>1
  <2> QED
    BY <2>1, TodoStepFields
<1>3. \A q \in Packages : q # req[t].pkg => dir'[q] = dir[q]
    BY <1>1
<1> QED
    BY <1>1, <1>2, <1>3, CopiesFiles

LEMMA ExtractFileFiles ==
    ASSUME LateFaults, DeployInv, ReportInv, NEW t \in Threads, PlacesInv(t), FilesInv(t),
           ExtractFile(t)
    PROVE  FilesInv(t)'
<1>1. dir \in [Packages -> SUBSET Items]
    BY DEF DeployInv, MachineTypeOK
<1>2. \A q \in Packages : q # req[t].pkg => dir'[q] = dir[q]
    BY <1>1, ExtractFileDoes
<1> QED
    BY <1>2, ExtractFileDoes, CopiesFiles

LEMMA PrepareFiles ==
    ASSUME LateFaults, DeployInv, NEW t \in Threads, PlacesInv(t), FilesInv(t),
           PrepareDevirtualizedRegistry(t)
    PROVE  FilesInv(t)'
<1> DEFINE h == "PrepareDevirtualizedRegistry"
<1>1. /\ Adding(t, h) /\ h # "InstallComplete" /\ ReqInv
      /\ UNCHANGED <<dir, target, shared, vfs>>
    BY DEF PrepareDevirtualizedRegistry, DeployInv
<1>2. /\ req'[t].hr = "pending" /\ req'[t].rem = NoPkg
      /\ req'[t].pc = "VirtualFileHandler" /\ req'[t].pkg = req[t].pkg
      /\ req'[t].reinstall = req[t].reinstall
    BY <1>1, PreparePlaces, GoesFields, AddHandlersNext
<1> QED
    BY <1>1, <1>2, CopiesFiles

\* After VirtualFileHandler an add, and the request to take it back, leave
\* the files.
LEMMA LateFiles ==
    ASSUME ReqInv, NEW t \in Threads, FilesInv(t), NEW h, Adding(t, h),
           h \notin ReturnError \cup {"Extractor", "PrepareDevirtualizedRegistry",
                                      "VirtualFileHandler"},
           UNCHANGED <<dir, target, shared, vfs>>,
           \/ req'[t].rem = NoPkg /\ req'[t].pc = h
           \/ /\ h # "InstallComplete" /\ Goes(t)
              /\ NextHandler(AddHandlers, h) \notin
                    {"Extractor", "PrepareDevirtualizedRegistry", "VirtualFileHandler"}
           \/ \E code \in {"failed", "userexit"} : Fails(t, code)
    PROVE  FilesInv(t)'
<1>1. req[t].rem = NoPkg /\ req[t].pc = h /\ req[t] \in Request
      /\ req \in [Threads -> Request]
    BY AddingRuns DEF Adding, ReqInv
<1>2. CASE req'[t].rem = NoPkg /\ req'[t].pc = h
    BY <1>1, <1>2, IdleFiles
<1>3. CASE /\ h # "InstallComplete" /\ Goes(t)
           /\ NextHandler(AddHandlers, h) \notin
                 {"Extractor", "PrepareDevirtualizedRegistry", "VirtualFileHandler"}
  <2>1. req'[t].rem = NoPkg /\ req'[t].pc = NextHandler(AddHandlers, h)
    BY <1>3, GoesFields
  <2> QED
    BY <1>1, <1>3, <2>1, IdleFiles
<1>4. CASE \E code \in {"failed", "userexit"} : Fails(t, code)
  <2>1. req'[t].rem # NoPkg /\ req'[t].rpc = "PopulatePackageInfo"
    BY <1>4, LateFailFields
  <2> QED
    BY <1>1, <2>1, IdleFiles
<1> QED
    BY <1>2, <1>3, <1>4

LEMMA LateHandlersFiles ==
    ASSUME LateFaults, DeployInv, ReportInv, NEW t \in Threads, FilesInv(t),
           \/ WriteDevirtualizedRegistry(t) \/ PSFScriptExecuter(t) \/ ScriptEnds(t)
           \/ Register(t) \/ InstallComplete(t)
    PROVE  FilesInv(t)'
<1>1. ReqInv
    BY DEF DeployInv
<1>2. CASE WriteDevirtualizedRegistry(t)
  <2>1. NextHandler(AddHandlers, "WriteDevirtualizedRegistry") = "PSFScriptExecuter"
    BY AddHandlersNext
  <2> QED
    BY <1>1, <1>2, <2>1, LateFiles, NextTodoFields
        DEF WriteDevirtualizedRegistry, DevirtualizeKey, ReturnError
<1>3. CASE PSFScriptExecuter(t) \/ ScriptEnds(t)
  <2> DEFINE h == "PSFScriptExecuter"
  <2>1. NextHandler(AddHandlers, h) = "StartMenuLink"
    BY AddHandlersNext
  <2>2. Adding(t, h) /\ UNCHANGED <<dir, target, shared, vfs>>
    BY <1>3 DEF PSFScriptExecuter, ScriptEnds, machineVars
  <2>3. ASSUME req' = [req EXCEPT ![t].todo = 1] PROVE req'[t].rem = NoPkg /\ req'[t].pc = h
    BY <1>1, <2>2, <2>3, TodoStepFields
  <2>4. \/ req'[t].rem = NoPkg /\ req'[t].pc = h
        \/ Goes(t)
        \/ \E code \in {"failed", "userexit"} : Fails(t, code)
    BY <1>3, <2>3 DEF PSFScriptExecuter, ScriptEnds
  <2> QED
    BY <1>1, <2>1, <2>2, <2>4, LateFiles DEF ReturnError
<1>4. CASE Register(t)
  <2>1. PICK h \in Registrars : Adding(t, h)
    BY <1>4 DEF Register
  <2>2. /\ h \notin ReturnError \cup {"Extractor", "PrepareDevirtualizedRegistry",
                                      "VirtualFileHandler"}
        /\ h # "InstallComplete"
    BY HandlersDistinct
  <2>3. NextHandler(AddHandlers, h) \notin
            {"Extractor", "PrepareDevirtualizedRegistry", "VirtualFileHandler"}
    BY AddHandlersNext DEF Registrars
  <2>4. UNCHANGED <<dir, target, shared, vfs>>
    BY <1>4 DEF Register
  <2>5. \/ req'[t].rem = NoPkg /\ req'[t].pc = h
        \/ Goes(t)
        \/ \E code \in {"failed", "userexit"} : Fails(t, code)
    BY <1>1, <1>4, <2>1, NextTodoFields DEF Register
  <2> QED
    BY <1>1, <2>1, <2>2, <2>3, <2>4, <2>5, LateFiles
<1>5. CASE InstallComplete(t)
  <2>1. /\ req[t].rem = NoPkg /\ req[t].pc = "InstallComplete"
        /\ UNCHANGED <<dir, target, shared, vfs>>
    BY <1>5 DEF InstallComplete, Adding
  <2>2. req'[t].hr # "pending"
    BY <1>5, InstallCompleteReport DEF LateFaults
  <2> QED
    BY <2>1, <2>2, IdleFiles
<1> QED
    BY <1>2, <1>3, <1>4, <1>5

\* A removal returns: no file was its package's any more.
LEMMA ReturnsFiles ==
    ASSUME ReqInv, NEW t \in Threads, PlacesInv(t), FilesInv(t),
           NEW h \in {"PopulatePackageInfo", "done"}, Removing(t, h),
           NEW hr \in {"ok", "failed"}, RemovalReturns(t, hr),
           UNCHANGED <<dir, target, shared, vfs>>, dir[req[t].rem] = {}
    PROVE  FilesInv(t)'
<1> DEFINE r == req[t]
           s == req'[t]
<1>1. r.hr = "pending" /\ r.rem # NoPkg /\ r.rpc = h /\ r.rem \in Packages
      /\ r.pkg \in Packages
    BY RemovingRuns DEF Removing, Active, Runs
<1>2. CASE s.hr # "pending"
    BY <1>1, <1>2, IdleFiles
<1>3. CASE /\ Updating(r)
           /\ s.hr = "pending" /\ s.rem = NoPkg /\ s.pc = "Extractor" /\ s.pkg = r.pkg
           /\ s.reinstall = r.reinstall
  <2>1. r.op = "add" /\ r.pc = "ProcessPotentialUpdate" /\ Version[r.rem] < Version[r.pkg]
    BY <1>3 DEF Updating
  <2>2. ~r.reinstall
    BY <1>1, <2>1 DEF PlacesInv, Early, Active, ReturnError
  <2>3. r.rem # r.pkg
    BY <1>1, <2>1, NamesAssumption
  <2>4. dir[r.pkg] = {}
    BY <1>1, <2>1, <2>3 DEF PlacesInv, Alone, Active
  <2>5. ~Whole(r.pkg)
    BY <2>4 DEF Whole
  <2> QED
    BY <1>1, <1>3, <2>2, <2>5, ExtractorFiles
<1> QED
    BY <1>2, <1>3, ReturnsFields

LEMMA ReadManifestFiles ==
    ASSUME DeployInv, ReportInv, NEW t \in Threads, PlacesInv(t), FilesInv(t), ReadManifest(t)
    PROVE  FilesInv(t)'
<1> DEFINE p == req[t].rem
           h == "PopulatePackageInfo"
<1>1. ReqInv /\ UNCHANGED <<dir, target, shared, vfs>> /\ Removing(t, h)
    BY DEF DeployInv, ReadManifest
<1>2. h \in KeysOf(RemoveHandlers) \ {"Extractor"}
    BY HandlersDistinct
<1>3. p \in Packages
    BY <1>1, RemovingRuns
<1>4. Whole(p) \/ dir[p] = {}
    BY <1>1, <1>3 DEF PlacesInv, WholeOrGone, Adding, Removing
<1>5. CASE GoesOn(t)
  <2>1. req'[t].rem # NoPkg /\ req'[t].rpc = "StartMenuLink"
    BY <1>1, <1>2, <1>5, GoesOnFields, RemoveHandlersNext, NamesAssumption
  <2> QED
    BY <1>1, <2>1, IdleFiles DEF Removing
<1>6. CASE "manifest" \notin dir[p] /\ RemovalReturns(t, "failed")
  <2>1. dir[p] = {}
    BY <1>3, <1>4, <1>6, EmptyOrRoot
  <2> QED
    BY <1>1, <1>6, <2>1, ReturnsFiles
<1> QED
    BY <1>5, <1>6 DEF ReadManifest

LEMMA ReturnFromRemoveFiles ==
    ASSUME DeployInv, NEW t \in Threads, PlacesInv(t), FilesInv(t), ReturnFromRemove(t)
    PROVE  FilesInv(t)'
<1>1. /\ ReqInv /\ UNCHANGED <<dir, target, shared, vfs>> /\ Removing(t, "done")
      /\ RemovalReturns(t, "ok")
    BY DEF DeployInv, ReturnFromRemove
<1>2. dir[req[t].rem] = {}
    BY <1>1 DEF PlacesInv, Handled, Removing
<1> QED
    BY <1>1, <1>2, ReturnsFiles

LEMMA UnregisterFiles ==
    ASSUME DeployInv, NEW t \in Threads, PlacesInv(t), FilesInv(t),
           Unregister(t) \/ PrepareForRemove(t)
    PROVE  FilesInv(t)'
<1>1. PICK h \in Registrars \cup {"PrepareDevirtualizedRegistry"} : Removing(t, h)
    BY DEF Unregister, PrepareForRemove
<1>2. ReqInv /\ UNCHANGED <<dir, target, shared, vfs>> /\ GoesOn(t)
    BY DEF DeployInv, Unregister, PrepareForRemove
<1>3. /\ h \in KeysOf(RemoveHandlers) \ {"Extractor"} /\ h # "PopulatePackageInfo"
      /\ h # "done"
      /\ h \notin {"VirtualFileHandler", "WriteDevirtualizedRegistry", "Extractor"}
    BY RemoveHandlersKeys DEF Registrars
<1>4. NextHandler(RemoveHandlers, h) \notin {"WriteDevirtualizedRegistry", "Extractor"}
    BY RemoveHandlersNext DEF Registrars
<1>5. /\ req'[t].hr = "pending" /\ req'[t].rem = req[t].rem /\ req'[t].rem \in Packages
      /\ req'[t].rpc = NextHandler(RemoveHandlers, h)
    BY <1>1, <1>2, <1>3, GoesOnFields
<1>6. req[t].rem # NoPkg /\ req[t].rpc = h /\ ~InLoop(t)
    BY <1>1, <1>3 DEF Removing, Adding, InLoop
<1>7. Whole(req[t].rem)
    BY <1>1, <1>3, <1>6 DEF PlacesInv, Handled, Removing
<1>8. ASSUME NEW p \in Packages PROVE HasFiles(t, p)' <=> HasFiles(t, p)
  <2>1. HasFiles(t, p) <=> Whole(p)
    BY <1>3, <1>6, IdleHasFiles
  <2>2. CASE p = req[t].rem
    BY <1>2, <1>4, <1>5, <1>6, <1>7, <2>1, <2>2, NamesAssumption
       DEF HasFiles, Copies, Removes, Whole, Active
  <2>3. CASE p # req[t].rem
    BY <1>2, <1>5, <1>6, <2>1, <2>3 DEF HasFiles, Copies, Removes, Whole
  <2> QED
    BY <2>2, <2>3
<1> QED
    BY <1>2, <1>6, <1>8, QuietFiles

\* The files are gone before the directory is.
LEMMA RemoveRegistryFiles ==
    ASSUME DeployInv, NEW t \in Threads, PlacesInv(t), FilesInv(t),
           RemoveDevirtualizedRegistry(t)
    PROVE  FilesInv(t)'
<1> DEFINE h == "WriteDevirtualizedRegistry"
<1>1. ReqInv /\ UNCHANGED <<dir, target, shared, vfs>> /\ GoesOn(t) /\ Removing(t, h)
    BY DEF DeployInv, RemoveDevirtualizedRegistry
<1>2. h \in KeysOf(RemoveHandlers) \ {"Extractor"}
    BY HandlersDistinct
<1>3. /\ req'[t].hr = "pending" /\ req'[t].rem = req[t].rem /\ req'[t].rem \in Packages
      /\ req'[t].rpc = "Extractor"
    BY <1>1, <1>2, GoesOnFields, RemoveHandlersNext
<1>4. Active(t) /\ req[t].rem # NoPkg /\ req[t].rpc = h /\ ~InLoop(t)
    BY <1>1 DEF Removing, Adding, InLoop
<1>5. ASSUME NEW p \in Packages PROVE HasFiles(t, p)' <=> HasFiles(t, p)
    BY <1>1, <1>3, <1>4 DEF HasFiles, Copies, Removes, Whole, Active
<1> QED
    BY <1>1, <1>4, <1>5, QuietFiles

LEMMA RemoveDirectoryFiles ==
    ASSUME LateFaults, DeployInv, NEW t \in Threads, PlacesInv(t), FilesInv(t), RemoveDirectory(t)
    PROVE  FilesInv(t)'
<1>1. /\ Removing(t, "Extractor") /\ req[t].rem \in Packages
      /\ \A q \in Packages : dir'[q] = IF q = req[t].rem THEN {} ELSE dir[q]
      /\ req'[t].hr = "pending" /\ req'[t].rem = req[t].rem /\ req'[t].rpc = "done"
      /\ UNCHANGED <<target, shared, vfs>>
    BY RemoveDirectoryDoes
<1>2. Active(t) /\ req[t].rem # NoPkg /\ req[t].rpc = "Extractor" /\ ~InLoop(t)
    BY <1>1 DEF Removing, Adding, InLoop
<1>3. ASSUME NEW p \in Packages PROVE HasFiles(t, p)' <=> HasFiles(t, p)
    BY <1>1, <1>2 DEF HasFiles, Copies, Removes, Whole, Active
<1> QED
    BY <1>1, <1>2, <1>3, QuietFiles

-----------------------------------------------------------------------------
(***************************************************************************)
(* The loop of VirtualFileHandler: which of the package's files are done.  *)
(***************************************************************************)
Done(v, f) == v.open /\ f \notin v.left /\ f # v.file

LEMMA LoopRefers ==
    ASSUME NEW t \in Threads, InLoop(t), NEW p \in Packages, NEW f
    PROVE  Refers(t, p, f) <=>
              /\ f \in Vfs[p]
              /\ IF p # Subject(req[t]) THEN Whole(p)
                 ELSE IF req[t].rem = NoPkg THEN req[t].reinstall \/ Done(vfs[t], f)
                 ELSE ~Done(vfs[t], f)
<1>1. CASE Adding(t, "VirtualFileHandler")
    BY <1>1, NamesAssumption DEF Adding, Subject, Refers, Copies, Removes, Done
<1>2. CASE Removing(t, "VirtualFileHandler")
    BY <1>2, NamesAssumption DEF Removing, Subject, Refers, Copies, Removes, Done
<1> QED
    BY <1>1, <1>2 DEF InLoop

LEMMA LoopRefersNext ==
    ASSUME NEW t \in Threads, InLoop(t), req' = req, dir' = dir, NEW p \in Packages, NEW f
    PROVE  Refers(t, p, f)' <=>
              /\ f \in Vfs[p]
              /\ IF p # Subject(req[t]) THEN Whole(p)
                 ELSE IF req[t].rem = NoPkg THEN req[t].reinstall \/ Done(vfs'[t], f)
                 ELSE ~Done(vfs'[t], f)
<1>1. CASE Adding(t, "VirtualFileHandler")
    BY <1>1, NamesAssumption
       DEF Adding, Subject, Refers, Copies, Removes, Done, Whole, Active
<1>2. CASE Removing(t, "VirtualFileHandler")
    BY <1>2, NamesAssumption
       DEF Removing, Subject, Refers, Copies, Removes, Done, Whole, Active
<1> QED
    BY <1>1, <1>2 DEF InLoop

\* A file that is as far as it was.
LEMMA LoopCountSame ==
    ASSUME NEW t \in Threads, InLoop(t), FilesInv(t), req' = req, dir' = dir,
           NEW f \in Files, target'[f] = target[f], shared'[f] = shared[f],
           f \in Vfs[Subject(req[t])] => (Done(vfs'[t], f) <=> Done(vfs[t], f))
    PROVE  CountOK(t, f)'
<1>1. \A p \in Packages : Refers(t, p, f)' <=> Refers(t, p, f)
    BY LoopRefers, LoopRefersNext
<1> QED
    BY <1>1, CountSame DEF FilesInv

LEMMA SubjectFacts ==
    ASSUME ReqInv, NEW t \in Threads, InLoop(t)
    PROVE  Subject(req[t]) \in Packages /\ Vfs[Subject(req[t])] \subseteq Files
<1>1. CASE Adding(t, "VirtualFileHandler")
    BY <1>1, AddingRuns, VfsAssumption DEF Subject, Adding, Runs
<1>2. CASE Removing(t, "VirtualFileHandler")
    BY <1>2, RemovingRuns, VfsAssumption DEF Subject, Removing
<1> QED
    BY <1>1, <1>2 DEF InLoop

LEMMA OpenVfsFiles ==
    ASSUME DeployInv, NEW t \in Threads, InLoop(t), FilesInv(t), req' = req, dir' = dir,
           OpenVfs(t, Vfs[Subject(req[t])])
    PROVE  FilesInv(t)'
<1> DEFINE left == Vfs[Subject(req[t])]
<1>1. left \subseteq Files /\ NoFile \notin left
    BY SubjectFacts, VfsAssumption DEF DeployInv
<1>2. vfs'[t] = VfsOpened(left) /\ ~vfs[t].open
    BY DEF OpenVfs, DeployInv, MachineTypeOK, VfsTypeOK
<1>3. vfs'[t].open /\ vfs'[t].left = left /\ vfs'[t].file = NoFile
    BY <1>2 DEF VfsOpened, VfsClosed
<1>4. Loop(t)'
    BY <1>1, <1>3 DEF Loop, InLoop, Adding, Removing, Active, Subject
<1>5. \A f \in left : ~Done(vfs'[t], f) /\ ~Done(vfs[t], f)
    BY <1>2, <1>3 DEF Done
<1>6. target' = target /\ shared' = shared
    BY DEF OpenVfs
<1>7. \A f \in Files : CountOK(t, f)'
    BY <1>5, <1>6, LoopCountSame
<1> QED
    BY <1>4, <1>7 DEF FilesInv

LEMMA ReadSharedFiles ==
    ASSUME DeployInv, NEW t \in Threads, InLoop(t), FilesInv(t), req' = req, dir' = dir,
           ReadShared(t)
    PROVE  FilesInv(t)'
<1> DEFINE v == vfs[t]
           w == vfs'[t]
<1>1. v \in [open : BOOLEAN, left : SUBSET Files, file : Files \cup {NoFile},
             exists : BOOLEAN, count : Nat]
    BY DEF DeployInv, MachineTypeOK, VfsTypeOK
<1>2. PICK f \in v.left : vfs' = [vfs EXCEPT ![t].left = @ \ {f},
                                             ![t].file = f,
                                             ![t].exists = target[f] # Missing,
                                             ![t].count = shared[f]]
    BY DEF ReadShared
<1>3. /\ w.open = v.open /\ w.left = v.left \ {f} /\ w.file = f
      /\ w.exists = (target[f] # Missing) /\ w.count = shared[f]
    BY <1>1, <1>2 DEF DeployInv, MachineTypeOK, VfsTypeOK
<1>4. target' = target /\ shared' = shared /\ v.file = NoFile /\ f \in Files
    BY <1>1, <1>2 DEF ReadShared
<1>5. v.open /\ v.left \subseteq Vfs[Subject(req[t])]
    BY <1>2 DEF FilesInv, Loop, VfsClosed
<1>6. Loop(t)'
    BY <1>2, <1>3, <1>4, <1>5 DEF Loop, InLoop, Adding, Removing, Active, Subject
<1>7. \A g \in Files : Done(w, g) <=> Done(v, g)
    BY <1>2, <1>3, <1>4, VfsAssumption DEF Done
<1>8. \A g \in Files : CountOK(t, g)'
    BY <1>4, <1>7, LoopCountSame
<1> QED
    BY <1>6, <1>8 DEF FilesInv

\* A file is done: the loop has left it.
LEMMA FileDone ==
    ASSUME DeployInv, NEW t \in Threads, InLoop(t), FilesInv(t), req' = req, dir' = dir,
           vfs[t].file # NoFile,
           \A g \in Files : g # vfs[t].file => target'[g] = target[g] /\ shared'[g] = shared[g],
           vfs' = [vfs EXCEPT ![t] = VfsOpened(vfs[t].left)],
           NEW f \in Files, f = vfs[t].file, CountOK(t, f)'
    PROVE  FilesInv(t)'
<1> DEFINE v == vfs[t]
           w == vfs'[t]
<1>1. v \in [open : BOOLEAN, left : SUBSET Files, file : Files \cup {NoFile},
             exists : BOOLEAN, count : Nat]
    BY DEF DeployInv, MachineTypeOK, VfsTypeOK
<1>2. f \in Files /\ v.open /\ v.left \subseteq Vfs[Subject(req[t])]
      /\ v.left \subseteq Files
    BY <1>1 DEF FilesInv, Loop
<1>3. w.open /\ w.left = v.left /\ w.file = NoFile
    BY DEF VfsOpened, VfsClosed, DeployInv, MachineTypeOK, VfsTypeOK
<1>4. Loop(t)'
    BY <1>2, <1>3, VfsAssumption DEF Loop, InLoop, Adding, Removing, Active, Subject
<1>5. \A g \in Files : g # f => (Done(w, g) <=> Done(v, g))
    BY <1>2, <1>3, VfsAssumption DEF Done
<1>6. \A g \in Files : g # f => CountOK(t, g)'
    BY <1>5, LoopCountSame
<1> QED
    BY <1>4, <1>6 DEF FilesInv

\* The file that is being done: before, and after.
LEMMA FileAtHand ==
    ASSUME DeployInv, NEW t \in Threads, InLoop(t), FilesInv(t), req' = req, dir' = dir,
           vfs[t].file # NoFile,
           vfs' = [vfs EXCEPT ![t] = VfsOpened(vfs[t].left)]
    PROVE  LET f == vfs[t].file
           IN  /\ f \in Files /\ f \in Vfs[Subject(req[t])]
               /\ ~Done(vfs[t], f) /\ Done(vfs'[t], f)
               /\ vfs[t].exists <=> target[f] # Missing
               /\ vfs[t].count = shared[f]
               /\ CountOK(t, f) /\ target[f] \in Nat /\ shared[f] \in Nat
<1> DEFINE f == vfs[t].file
<1>1. /\ f \in Files /\ target[f] \in Nat /\ shared[f] \in Nat
    BY DEF DeployInv, MachineTypeOK, VfsTypeOK
<1>3. f \in Vfs[Subject(req[t])] /\ vfs[t].count = shared[f] /\ f \notin vfs[t].left
    BY DEF FilesInv, Loop
<1>4. vfs[t].exists <=> target[f] # Missing
    BY DEF FilesInv, Loop
<1>5. vfs'[t].open /\ vfs'[t].left = vfs[t].left /\ vfs'[t].file = NoFile
    BY DEF VfsOpened, VfsClosed, DeployInv, MachineTypeOK, VfsTypeOK
<1> QED
    BY <1>1, <1>3, <1>4, <1>5 DEF Done, FilesInv

\* The reinstalled package had the file.
LEMMA RecopyCount ==
    ASSUME DeployInv, NEW t \in Threads, Adding(t, "VirtualFileHandler"), FilesInv(t),
           req' = req, dir' = dir, req[t].reinstall,
           NEW f \in Files, f = vfs[t].file,
           CopyVfsFile(t, req[t].pkg, req[t].reinstall, TRUE)
    PROVE  CountOK(t, f)'
<1> DEFINE p == req[t].pkg
<1>1. ReqInv /\ InLoop(t) /\ Subject(req[t]) = p /\ req[t].rem = NoPkg
    BY DEF DeployInv, InLoop, Subject, Adding
<1>2. p \in Packages
    BY <1>1, SubjectFacts
<1>3. f # NoFile /\ vfs' = [vfs EXCEPT ![t] = VfsOpened(vfs[t].left)]
    BY DEF CopyVfsFile
<1>4. /\ f \in Files /\ f \in Vfs[p] /\ target[f] \in Nat
      /\ vfs[t].exists <=> target[f] # Missing
      /\ CountOK(t, f)
    BY <1>1, <1>3, FileAtHand
<1>5. \A q \in Packages : Refers(t, q, f)' <=> Refers(t, q, f)
    BY <1>1, LoopRefers, LoopRefersNext
<1>6. Refers(t, p, f)
    BY <1>1, <1>2, <1>4, LoopRefers
<1>7. Referrers(t, f)' = Referrers(t, f) /\ Needed(t, f)' = Needed(t, f)
    BY <1>5 DEF Referrers, Needed
<1>8. shared' = shared
    BY DEF CopyVfsFile, Counted
<1>9. FileVersion[p][f] \in Nat \ {Missing}
    BY <1>2, <1>4, VfsAssumption
<1>10. p \in Referrers(t, f) /\ target[f] >= FileVersion[p][f]
    BY <1>2, <1>4, <1>6 DEF CountOK, Referrers
<1>11. target[f] # Missing /\ vfs[t].exists
    BY <1>4, <1>9, <1>10 DEF Missing
<1>12. \/ target'[f] = target[f]
       \/ /\ target'[f] = FileVersion[p][f]
          /\ \E m \in BOOLEAN : Overwrites(FileVersion[p][f], target[f], m)
    BY <1>4, <1>11 DEF CopyVfsFile, DeployInv, MachineTypeOK, VfsTypeOK
<1>13. target'[f] \in Nat /\ target'[f] >= target[f]
    BY <1>4, <1>9, <1>12 DEF Overwrites, Missing, Unversioned
<1>14. \A q \in Referrers(t, f) : FileVersion[q][f] \in Nat
    BY <1>4, VfsAssumption DEF Referrers
<1> QED
    BY <1>4, <1>7, <1>8, <1>11, <1>13, <1>14 DEF CountOK, Missing

\* A package that is installed anew comes to those that have the file.
LEMMA CopyCount ==
    ASSUME DeployInv, NEW t \in Threads, Adding(t, "VirtualFileHandler"), FilesInv(t),
           req' = req, dir' = dir, ~req[t].reinstall,
           NEW f \in Files, f = vfs[t].file,
           CopyVfsFile(t, req[t].pkg, req[t].reinstall, TRUE)
    PROVE  CountOK(t, f)'
<1> DEFINE p == req[t].pkg
           n == Needed(t, f)
           R == Referrers(t, f)
           ver == FileVersion[p][f]
<1>1. ReqInv /\ InLoop(t) /\ Subject(req[t]) = p /\ req[t].rem = NoPkg
    BY DEF DeployInv, InLoop, Subject, Adding
<1>2. p \in Packages
    BY <1>1, SubjectFacts
<1>3. f # NoFile /\ vfs' = [vfs EXCEPT ![t] = VfsOpened(vfs[t].left)]
    BY DEF CopyVfsFile
<1>4. /\ f \in Files /\ f \in Vfs[p] /\ target[f] \in Nat /\ shared[f] \in Nat
      /\ ~Done(vfs[t], f) /\ Done(vfs'[t], f)
      /\ vfs[t].count = shared[f]
      /\ CountOK(t, f)
    BY <1>1, <1>3, FileAtHand
<1>5. vfs[t].exists <=> target[f] # Missing
    BY <1>1, <1>3, FileAtHand
<1>6. \A q \in Packages : Refers(t, q, f)' <=> Refers(t, q, f) \/ q = p
    BY <1>1, <1>4, LoopRefers, LoopRefersNext
<1>7. ~Refers(t, p, f)
    BY <1>1, <1>2, <1>4, LoopRefers
<1>8. Referrers(t, f)' = R \cup {p} /\ p \notin R
    BY <1>2, <1>6, <1>7 DEF Referrers
<1>9. n \in Nat /\ IsFiniteSet(R) /\ Cardinality(R) \in Nat
    BY NeededFacts
<1>10. Cardinality(R \cup {p}) = Cardinality(R) + 1
    BY <1>8, <1>9, FS_AddElement
<1>11. Needed(t, f)' = n + 1
    BY <1>8, <1>9, <1>10 DEF Needed
<1>12. ver \in Nat \ {Missing}
    BY <1>2, <1>4, VfsAssumption
<1>13. \A q \in R : FileVersion[q][f] \in Nat
    BY <1>4, VfsAssumption DEF Referrers
<1>14. /\ target[f] # Missing <=> n > 0
       /\ shared[f] = n \/ (n = 1 /\ shared[f] = 0)
       /\ \A q \in R : target[f] >= FileVersion[q][f]
    BY <1>4 DEF CountOK
<1> HIDE DEF n, R, ver
<1>15. CASE vfs[t].exists
  <2>1. shared'[f] = AddReference(shared[f])
    BY <1>4, <1>15 DEF CopyVfsFile, Counted, DeployInv, MachineTypeOK, VfsTypeOK
  <2>2. shared'[f] = n + 1
    BY <1>4, <1>5, <1>9, <1>14, <1>15, <2>1 DEF AddReference
  <2>3. \/ target'[f] = ver
           /\ \E m \in BOOLEAN : Overwrites(ver, target[f], m)
        \/ /\ target'[f] = target[f]
           /\ \E m \in BOOLEAN : ~Overwrites(ver, target[f], m)
    BY <1>4, <1>15 DEF CopyVfsFile, DeployInv, MachineTypeOK, VfsTypeOK, ver
  <2>4. /\ target'[f] \in Nat /\ target'[f] >= target[f] /\ target'[f] >= ver
    BY <1>4, <1>5, <1>12, <1>15, <2>3 DEF Overwrites, Missing, Unversioned
  <2>5. target'[f] # Missing
    BY <1>4, <1>5, <1>15, <2>4 DEF Missing
  <2>6. \A q \in R \cup {p} : target'[f] >= FileVersion[q][f]
    BY <1>4, <1>13, <1>14, <2>4 DEF ver
  <2> QED
    BY <1>8, <1>9, <1>11, <2>2, <2>5, <2>6 DEF CountOK
<1>16. CASE ~vfs[t].exists
  <2>1. shared' = shared /\ target'[f] = ver
    BY <1>4, <1>16 DEF CopyVfsFile, Counted, DeployInv, MachineTypeOK, VfsTypeOK, ver
  <2>2. n = 0 /\ shared[f] = 0
    BY <1>4, <1>5, <1>9, <1>14, <1>16
  <2>3. Cardinality(R) = 0
    BY <1>9, <2>2 DEF Needed, n, R
  <2>4. R = {}
    BY <1>9, <2>3, FS_EmptySet
  <2>5. \A q \in R \cup {p} : target'[f] >= FileVersion[q][f]
    BY <1>12, <2>1, <2>4 DEF ver
  <2> QED
    BY <1>8, <1>11, <1>12, <2>1, <2>2, <2>5 DEF CountOK
<1> QED
    BY <1>15, <1>16

\* A package that is removed leaves them.
LEMMA RemoveCount ==
    ASSUME DeployInv, NEW t \in Threads, Removing(t, "VirtualFileHandler"), FilesInv(t),
           req' = req, dir' = dir,
           NEW f \in Files, f = vfs[t].file, RemoveVfsFile(t, TRUE)
    PROVE  CountOK(t, f)'
<1> DEFINE p == req[t].rem
           n == Needed(t, f)
           R == Referrers(t, f)
<1>1. ReqInv /\ InLoop(t) /\ Subject(req[t]) = p /\ req[t].rem # NoPkg
    BY DEF DeployInv, InLoop, Subject, Removing
<1>2. p \in Packages
    BY <1>1, SubjectFacts
<1>3. f # NoFile /\ vfs' = [vfs EXCEPT ![t] = VfsOpened(vfs[t].left)]
    BY DEF RemoveVfsFile
<1>4. /\ f \in Files /\ f \in Vfs[p] /\ target[f] \in Nat /\ shared[f] \in Nat
      /\ ~Done(vfs[t], f) /\ Done(vfs'[t], f)
      /\ vfs[t].count = shared[f]
      /\ CountOK(t, f)
    BY <1>1, <1>3, FileAtHand
<1>5. \A q \in Packages : Refers(t, q, f)' <=> Refers(t, q, f) /\ q # p
    BY <1>1, <1>4, LoopRefers, LoopRefersNext
<1>6. Refers(t, p, f)
    BY <1>1, <1>2, <1>4, LoopRefers
<1>7. Referrers(t, f)' = R \ {p} /\ p \in R
    BY <1>2, <1>5, <1>6 DEF Referrers
<1>8. n \in Nat /\ IsFiniteSet(R) /\ Cardinality(R) \in Nat
    BY NeededFacts
<1>9. Cardinality(R \ {p}) = Cardinality(R) - 1 /\ IsFiniteSet(R \ {p})
    BY <1>7, <1>8, FS_RemoveElement
<1>10. Cardinality(R \ {p}) \in Nat
    BY <1>9, FS_CardinalityType
<1>11. Needed(t, f)' = n - 1 /\ n > 0
    BY <1>7, <1>8, <1>9, <1>10 DEF Needed
<1>12. /\ target[f] # Missing <=> n > 0
       /\ shared[f] = n \/ (n = 1 /\ shared[f] = 0)
       /\ \A q \in R : target[f] >= FileVersion[q][f]
    BY <1>4 DEF CountOK
<1>13. CASE n = 1
  <2>1. shared'[f] = 0 /\ target'[f] = Missing
    BY <1>4, <1>12, <1>13 DEF RemoveVfsFile, DeployInv, MachineTypeOK, VfsTypeOK
  <2>2. Needed(t, f)' = 0
    BY <1>11, <1>13
  <2>3. Cardinality(R \ {p}) = 0
    BY <1>7, <1>10, <2>2 DEF Needed
  <2>4. R \ {p} = {}
    BY <1>9, <2>3, FS_EmptySet
  <2> QED
    BY <1>7, <2>1, <2>2, <2>4 DEF CountOK
<1>14. CASE n # 1
  <2>1. shared[f] = n /\ n > 1
    BY <1>8, <1>11, <1>12, <1>14
  <2>2. shared'[f] = n - 1 /\ target'[f] = target[f]
    BY <1>4, <1>8, <2>1 DEF RemoveVfsFile, DeployInv, MachineTypeOK, VfsTypeOK
  <2> HIDE DEF n, R
  <2> QED
    BY <1>7, <1>8, <1>11, <1>12, <2>1, <2>2 DEF CountOK
<1> QED
    BY <1>13, <1>14

\* The loop is over: every file is done.
LEMMA LoopOver ==
    ASSUME DeployInv, NEW t \in Threads, InLoop(t), FilesInv(t), VfsDone(t), CloseVfs(t),
           dir' = dir, UNCHANGED <<target, shared>>, ~InLoop(t)',
           req'[t].hr = "pending",
           \A p \in Packages : HasFiles(t, p)' <=>
              IF p # Subject(req[t]) THEN Whole(p) ELSE req[t].rem = NoPkg
    PROVE  FilesInv(t)'
<1>1. vfs'[t] = VfsClosed
    BY DEF CloseVfs, DeployInv, MachineTypeOK, VfsTypeOK
<1>2. ~vfs'[t].open /\ vfs'[t].left = {} /\ vfs'[t].file = NoFile
    BY <1>1 DEF VfsClosed
<1>3. Loop(t)'
    BY <1>1, <1>2 DEF Loop
<1>4. \A f \in Files : Done(vfs[t], f)
    BY VfsAssumption DEF VfsDone, Done
<1>5. ASSUME NEW p \in Packages, NEW f \in Files
      PROVE  Refers(t, p, f)' <=> Refers(t, p, f)
  <2>1. Refers(t, p, f) <=> f \in Vfs[p] /\ IF p # Subject(req[t]) THEN Whole(p)
                                                                  ELSE req[t].rem = NoPkg
    BY <1>4, LoopRefers
  <2>2. ~Adding(t, "VirtualFileHandler")' /\ ~Removing(t, "VirtualFileHandler")'
    BY DEF InLoop
  <2>3. Refers(t, p, f)' <=> f \in Vfs[p] /\ HasFiles(t, p)'
    BY <1>2, <2>2, NamesAssumption
       DEF Refers, HasFiles, Copies, Removes, Adding, Removing, Active
  <2> QED
    BY <2>1, <2>3
<1>6. \A f \in Files : CountOK(t, f)'
    BY <1>5, CountSame DEF FilesInv
<1> QED
    BY <1>3, <1>6 DEF FilesInv

LEMMA CopyVfsFilesFiles ==
    ASSUME LateFaults, DeployInv, ReportInv, NEW t \in Threads, PlacesInv(t), FilesInv(t),
           CopyVfsFiles(t)
    PROVE  FilesInv(t)' /\ (req' = req \/ Goes(t))
<1> DEFINE h == "VirtualFileHandler"
           r == req[t]
<1>1. Adding(t, h) /\ InLoop(t) /\ ReqInv /\ dir' = dir /\ h # "InstallComplete"
    BY DEF CopyVfsFiles, InLoop, DeployInv
<1>2. Subject(r) = r.pkg /\ r.rem = NoPkg /\ r.pc = h /\ r.pkg \in Packages
    BY <1>1, AddingRuns DEF Subject, Adding, Runs
<1>3. ~MayFail(t) /\ "CopyFile" \notin FailAt
    BY <1>2 DEF LateFaults, MayFail
<1>4. ~Vanished(t)
    BY DEF Vanished, FilesInv, Loop
<1>5. ASSUME OpenVfs(t, Vfs[r.pkg]), req' = req PROVE FilesInv(t)'
    BY <1>1, <1>2, <1>5, OpenVfsFiles
<1>6. ASSUME ReadShared(t), req' = req PROVE FilesInv(t)'
    BY <1>1, <1>6, ReadSharedFiles
<1>7. ASSUME CopyVfsFile(t, r.pkg, r.reinstall, TRUE), req' = req PROVE FilesInv(t)'
  <2>1. /\ vfs[t].file # NoFile /\ vfs' = [vfs EXCEPT ![t] = VfsOpened(vfs[t].left)]
    BY <1>7 DEF CopyVfsFile
  <2>2. PICK f \in Files : f = vfs[t].file
    BY <2>1 DEF DeployInv, MachineTypeOK, VfsTypeOK
  <2>3. \A g \in Files : g # f => target'[g] = target[g] /\ shared'[g] = shared[g]
    BY <1>7, <2>2 DEF CopyVfsFile, Counted, DeployInv, MachineTypeOK, VfsTypeOK
  <2>4. CountOK(t, f)'
    BY <1>1, <1>7, <2>2, RecopyCount, CopyCount
  <2> QED
    BY <1>1, <1>7, <2>1, <2>2, <2>3, <2>4, FileDone
<1>8. ASSUME VfsDone(t), CloseVfs(t), Goes(t), UNCHANGED <<target, shared>>
      PROVE  FilesInv(t)'
  <2>1. /\ req'[t].hr = "pending" /\ req'[t].rem = NoPkg
        /\ req'[t].pc = "WriteDevirtualizedRegistry" /\ req'[t].pkg = r.pkg
    BY <1>1, <1>8, GoesFields, AddHandlersNext
  <2>2. ~InLoop(t)'
    BY <2>1 DEF InLoop, Adding, Removing
  <2>3. \A p \in Packages : HasFiles(t, p)' <=> Whole(p)'
    BY <2>1, IdleHasFilesNext
  <2>4. AddRank[h] > 5
    BY RankValues
  <2>5. Whole(r.pkg)
    BY <1>1, <2>1, <2>4, ExtractedStays
  <2>6. \A p \in Packages : Whole(p)' <=> Whole(p)
    BY <1>1 DEF Whole
  <2> QED
    BY <1>1, <1>2, <1>8, <2>1, <2>2, <2>3, <2>5, <2>6, LoopOver
<1> QED
    BY <1>3, <1>4, <1>5, <1>6, <1>7, <1>8 DEF CopyVfsFiles

LEMMA RemoveVfsFilesFiles ==
    ASSUME LateFaults, DeployInv, ReportInv, NEW t \in Threads, PlacesInv(t), FilesInv(t),
           RemoveVfsFiles(t)
    PROVE  FilesInv(t)'
<1> DEFINE h == "VirtualFileHandler"
           r == req[t]
<1>1. Removing(t, h) /\ InLoop(t) /\ ReqInv /\ dir' = dir
    BY DEF RemoveVfsFiles, InLoop, DeployInv
<1>2. Subject(r) = r.rem /\ r.rem # NoPkg /\ r.rpc = h /\ r.rem \in Packages
    BY <1>1, RemovingRuns DEF Subject, Removing
<1>3. h \in KeysOf(RemoveHandlers) \ {"Extractor"}
    BY HandlersDistinct
<1>4. ~MayFailToRemove(t)
    BY DEF LateFaults, MayFailToRemove
<1>5. "blockmap" \in dir[r.rem]
  <2>1. Whole(r.rem)
    BY <1>1, <1>2 DEF PlacesInv, Handled, Removing
  <2> QED
    BY <1>2, <2>1, EmptyOrRoot
<1>6. ASSUME OpenVfs(t, Vfs[r.rem]), req' = req PROVE FilesInv(t)'
    BY <1>1, <1>2, <1>6, OpenVfsFiles
<1>7. ASSUME ReadShared(t), req' = req PROVE FilesInv(t)'
    BY <1>1, <1>7, ReadSharedFiles
<1>8. ASSUME RemoveVfsFile(t, TRUE), req' = req PROVE FilesInv(t)'
  <2>1. /\ vfs[t].file # NoFile /\ vfs' = [vfs EXCEPT ![t] = VfsOpened(vfs[t].left)]
    BY <1>8 DEF RemoveVfsFile
  <2>2. PICK f \in Files : f = vfs[t].file
    BY <2>1 DEF DeployInv, MachineTypeOK, VfsTypeOK
  <2>3. \A g \in Files : g # f => target'[g] = target[g] /\ shared'[g] = shared[g]
    BY <1>8, <2>2 DEF RemoveVfsFile, DeployInv, MachineTypeOK, VfsTypeOK
  <2>4. CountOK(t, f)'
    BY <1>1, <1>8, <2>2, RemoveCount
  <2> QED
    BY <1>1, <1>8, <2>1, <2>2, <2>3, <2>4, FileDone
<1>9. ASSUME VfsDone(t), CloseVfs(t), GoesOn(t), UNCHANGED <<target, shared>>
      PROVE  FilesInv(t)'
  <2>1. /\ req'[t].hr = "pending" /\ req'[t].rem = r.rem
        /\ req'[t].rpc = "WriteDevirtualizedRegistry"
    BY <1>1, <1>3, <1>9, GoesOnFields, RemoveHandlersNext
  <2>2. ~InLoop(t)'
    BY <1>2, <2>1 DEF InLoop, Adding, Removing
  <2>3. \A p \in Packages : HasFiles(t, p)' <=> p # r.rem /\ Whole(p)
    BY <1>1, <1>2, <2>1 DEF HasFiles, Copies, Removes, Whole, Active
  <2> QED
    BY <1>1, <1>2, <1>9, <2>1, <2>2, <2>3, LoopOver
<1> QED
    BY <1>4, <1>5, <1>6, <1>7, <1>8, <1>9 DEF RemoveVfsFiles

-----------------------------------------------------------------------------
(***************************************************************************)
(* The inductive invariant.                                                *)
(***************************************************************************)
LateInv == DeployInv /\ ReportInv /\ \A t \in Threads : PlacesInv(t) /\ FilesInv(t)

LEMMA LateInit == Init => LateInv
<1> SUFFICES ASSUME Init PROVE LateInv
    OBVIOUS
<1>1. DeployInv /\ ReportInv
    BY InitInv, ReportInit
<1>2. ASSUME NEW t \in Threads PROVE PlacesInv(t) /\ FilesInv(t)
  <2>1. /\ req[t].hr = "ok" /\ vfs[t] = VfsClosed
        /\ \A p \in Packages : dir[p] = {} /\ hive[p] = Free
    BY DEF Init, NoRequest, VfsInit
  <2>2. PlacesInv(t)
    BY <2>1 DEF PlacesInv, Early, Mounts, WholeOrGone, Handled, OneDirectory, Alone, Active
  <2>3. Loop(t)
    BY <2>1 DEF Loop, VfsClosed
  <2>4. ASSUME NEW f \in Files PROVE CountOK(t, f)
    <3>1. Referrers(t, f) = {}
      BY <2>1 DEF Referrers, Refers, Copies, Removes, Active, Whole
    <3>2. Cardinality(Referrers(t, f)) = 0
      BY <3>1, FS_EmptySet
    <3>3. /\ shared[f] = 0
          /\ target[f] = IF f \in Foreign THEN Unversioned ELSE Missing
      BY DEF Init, VfsInit
    <3> QED
      BY <3>1, <3>2, <3>3 DEF CountOK, Needed, Missing, Unversioned
  <2> QED
    BY <2>2, <2>3, <2>4 DEF FilesInv
<1> QED
    BY <1>1, <1>2 DEF LateInv

LEMMA LatePlacesNext ==
    ASSUME LateFaults, DeployInv, ReportInv, NEW t \in Threads, PlacesInv(t), FilesInv(t),
           Step(t) \/ ScriptEnds(t)
    PROVE  PlacesInv(t)'
BY ValidatePlaces, ProcessPotentialUpdatePlaces, CreatePackageRootPlaces, ExtractFilePlaces,
   PreparePlaces, CopyVfsFilesFiles, CopyVfsFilesPlaces, WritePlaces,
   PSFScriptExecuterPlaces, RegisterPlaces, InstallCompletePlaces, ReadManifestPlaces,
   UnregisterPlaces, PrepareForRemovePlaces, RemoveVfsFilesPlaces, RemoveRegistryPlaces,
   RemoveDirectoryPlaces, ReturnFromRemovePlaces DEF Step

LEMMA LateFilesNext ==
    ASSUME LateFaults, DeployInv, ReportInv, NEW t \in Threads, PlacesInv(t), FilesInv(t),
           Step(t) \/ ScriptEnds(t)
    PROVE  FilesInv(t)'
BY ValidateFiles, ProcessPotentialUpdateFiles, CreatePackageRootFiles, ExtractFileFiles,
   PrepareFiles, CopyVfsFilesFiles, LateHandlersFiles, ReadManifestFiles, UnregisterFiles,
   RemoveVfsFilesFiles, RemoveRegistryFiles, RemoveDirectoryFiles, ReturnFromRemoveFiles
   DEF Step

LEMMA LateNext == LateFaults /\ LateInv /\ [Next]_vars => LateInv'
<1> SUFFICES ASSUME LateFaults, LateInv, [Next]_vars PROVE LateInv'
    OBVIOUS
<1>1. DeployInv' /\ ReportInv'
    BY NextInv, ReportNext DEF LateInv, LateFaults
<1>2. ASSUME NEW t \in Threads PROVE PlacesInv(t)' /\ FilesInv(t)'
  <2>1. DeployInv /\ ReportInv /\ PlacesInv(t) /\ FilesInv(t)
    BY DEF LateInv
  <2>2. CASE UNCHANGED vars
    <3>1. UNCHANGED <<dir, hive, req, target, shared, vfs>>
      BY <2>2 DEF vars
    <3>2. PlacesInv(t)'
      BY <2>1, <3>1 DEF PlacesInv, Early, Mounts, WholeOrGone, Handled, OneDirectory, Alone,
                        Active, Adding, Whole
    <3>3. Loop(t)'
      BY <2>1, <3>1 DEF FilesInv, Loop, InLoop, Adding, Removing, Active, Subject
    <3>4. \A p, f : Refers(t, p, f)' <=> Refers(t, p, f)
      BY <3>1 DEF Refers, Copies, Removes, Whole, Active
    <3>5. \A f \in Files : CountOK(t, f)'
      BY <2>1, <3>1, <3>4, CountSame DEF FilesInv
    <3> QED
      BY <3>2, <3>3, <3>5 DEF FilesInv
  <2>3. CASE Next
    <3>1. \/ \E op \in {"add", "remove"}, p \in Packages : Start(t, op, p)
          \/ CancelRequest(t)
          \/ Step(t) \/ ScriptEnds(t)
      BY <2>3 DEF Next, LateFaults, OneThread, Crash
    <3> QED
      BY <2>1, <3>1, StartPlaces, StartFiles, CancelPlaces, CancelFiles, LatePlacesNext,
         LateFilesNext
  <2> QED
    BY <2>2, <2>3
<1> QED
    BY <1>1, <1>2 DEF LateInv

LEMMA LateHolds == LateFaults /\ Spec => []LateInv
<1>1. ASSUME LateFaults PROVE Spec => []LateInv
  <2>1. LateInv /\ [Next]_vars => LateInv'
    BY <1>1, LateNext
  <2> QED
    BY <2>1, LateInit, PTL DEF Spec
<1> QED
    BY <1>1

\* Between requests the packages that are listed have their files.
LEMMA RestReferences ==
    ASSUME LateInv, NEW t \in Threads, ~Active(t), NEW f
    PROVE  References(f) = Needed(t, f)
<1>1. PlacesInv(t) /\ ReportInv
    BY DEF LateInv
<1>2. ASSUME NEW p \in Packages PROVE Refers(t, p, f) <=> Installed(p) /\ f \in Vfs[p]
  <2>1. Refers(t, p, f) <=> f \in Vfs[p] /\ Whole(p)
    BY DEF Refers, Copies, Removes
  <2>2. Whole(p) \/ dir[p] = {}
    BY <1>1 DEF PlacesInv, WholeOrGone, Adding
  <2> QED
    BY <1>1, <2>1, <2>2, EmptyOrRoot DEF Installed
<1>3. Referrers(t, f) = {p \in Packages : Installed(p) /\ f \in Vfs[p]}
    BY <1>2 DEF Referrers
<1> QED
    BY <1>3 DEF References, Needed

(***************************************************************************)
(* Between requests SharedDLLs counts every VFS file as often as it is     *)
(* needed, and the file is there just when it is (VirtualFileHandler).     *)
(***************************************************************************)
THEOREM DeployRefCounts == LateFaults /\ Spec => []RefCountsExact
<1>1. ASSUME LateFaults, LateInv PROVE RefCountsExact
  <2> SUFFICES ASSUME AtRest, NEW f \in Files
               PROVE  /\ target[f] # Missing <=> References(f) > 0
                      /\ shared[f] = References(f) \/ (References(f) = 1 /\ shared[f] = 0)
    BY DEF RefCountsExact
  <2>1. PICK t \in Threads : ~Active(t) /\ CountOK(t, f)
    BY <1>1 DEF LateInv, LateFaults, AtRest, FilesInv
  <2>2. References(f) = Needed(t, f)
    BY <1>1, <2>1, RestReferences
  <2> QED
    BY <2>1, <2>2 DEF CountOK
<1>2. ASSUME LateFaults PROVE Spec => []RefCountsExact
  <2>1. LateInv => RefCountsExact
    BY <1>1, <1>2
  <2>2. Spec => []LateInv
    BY <1>2, LateHolds
  <2> QED
    BY <2>1, <2>2, PTL
<1> QED
    BY <1>2

(***************************************************************************)
(* While requests for other families run, an installed package finds each  *)
(* of its VFS files in its version or a higher one (NeedToCopyFile and     *)
(* RemoveVfsFile).                                                         *)
(***************************************************************************)
THEOREM DeployVfsServed == LateFaults /\ Spec => []VfsServed
<1>1. ASSUME LateFaults, LateInv PROVE VfsServed
  <2> SUFFICES ASSUME NEW p \in Packages, Whole(p),
                      \A t \in Threads : Active(t) => Family[req[t].pkg] # Family[p],
                      NEW f \in Vfs[p]
               PROVE  target[f] >= FileVersion[p][f]
    BY DEF VfsServed
  <2>1. f \in Files
    BY VfsAssumption
  <2>2. PICK t \in Threads : CountOK(t, f)
    BY <1>1, <2>1 DEF LateInv, LateFaults, FilesInv
  <2>3. ~Copies(t, p)
    BY DEF Copies
  <2>4. ~Removes(t, p)
    <3>1. SUFFICES ASSUME Active(t), req[t].rem = p PROVE Family[req[t].pkg] = Family[p]
      BY DEF Removes
    <3>2. Removing(t, req[t].rpc)
      BY <3>1, NamesAssumption DEF Removing
    <3>3. PlainRemoval(req[t]) \/ Updating(req[t]) \/ RollingBack(req[t])
      BY <1>1, <3>2, RemovingRuns DEF LateInv, DeployInv
    <3> QED
      BY <3>1, <3>3 DEF PlainRemoval, Updating, RollingBack
  <2>5. p \in Referrers(t, f)
    BY <2>3, <2>4 DEF Referrers, Refers
  <2> QED
    BY <2>2, <2>5 DEF CountOK
<1>2. ASSUME LateFaults PROVE Spec => []VfsServed
  <2>1. LateInv => VfsServed
    BY <1>1, <1>2
  <2>2. Spec => []LateInv
    BY <1>2, LateHolds
  <2> QED
    BY <2>1, <2>2, PTL
<1> QED
    BY <1>2

(***************************************************************************)
(* A file that another program has put in place is never deleted: it       *)
(* counts as one that is needed (RemoveVfsFile).                           *)
(***************************************************************************)
THEOREM DeployForeignFiles == LateFaults /\ Spec => ForeignFilesStay
<1> DEFINE Stay == \A f \in Foreign : target[f] # Missing
<1>1. ASSUME LateFaults, LateInv PROVE Stay
  <2> SUFFICES ASSUME NEW f \in Foreign PROVE target[f] # Missing
    OBVIOUS
  <2>1. PICK t \in Threads : CountOK(t, f)
    BY <1>1, VfsAssumption DEF LateInv, LateFaults, FilesInv
  <2>2. Needed(t, f) > 0
    BY NeededFacts DEF Needed
  <2> QED
    BY <2>1, <2>2 DEF CountOK
<1>2. Stay' => [\A f \in Foreign : target[f] # Missing => target'[f] # Missing]_vars
    OBVIOUS
<1> HIDE DEF Stay
<1>3. ASSUME LateFaults PROVE Spec => ForeignFilesStay
  <2>1. LateInv => Stay
    BY <1>1, <1>3
  <2>2. Spec => []LateInv
    BY <1>3, LateHolds
  <2> QED
    BY <1>2, <2>1, <2>2, PTL DEF ForeignFilesStay
<1> QED
    BY <1>3

-----------------------------------------------------------------------------
(***************************************************************************)
(* The registry.  Another family's package writes key k too.               *)
(***************************************************************************)
Contested(p, k) == \E q \in Packages : Family[q] # Family[p] /\ k \in AllKeys(q)

(***************************************************************************)
(* A task and a firewall rule are written by nobody else: a removal goes   *)
(* through the list of its own until one is missing.                       *)
(***************************************************************************)
KeysApart ==
    \A p \in Packages : \A h \in StopAtMissing : \A k \in KeysOf(HandlerKeys(h, p)) :
        /\ ~Contested(p, k)
        /\ k \notin KeysOf(HiveKeys[p])
        /\ \A g \in Registrars \ {h} : k \notin KeysOf(HandlerKeys(g, p))

(***************************************************************************)
(* Going through the keys s one comes to k: none before it is missing.     *)
(***************************************************************************)
RunsTo(s, k) ==
    \E j \in DOMAIN s : s[j] = k /\ \A m \in 1..j : reg[s[m]] # NoEntry

\* Whatever p has in the registry a removal of p finds, but for what it never
\* deletes, and a package that is gone has nothing else there.
Findable(p, k) ==
    /\ k \in AllKeys(p)
    /\ dir[p] # {}
    /\ \A h \in StopAtMissing :
          k \in KeysOf(HandlerKeys(h, p)) => RunsTo(HandlerKeys(h, p), k)

Settled(p) == \A k \in Keys \ Leftover(p) : InPlace(p, k) => Findable(p, k)

Kept(p) == \A k \in SureKeys(p) : InPlace(p, k) \/ Contested(p, k)

\* p is being added and was not there before.
Fresh(t, p) ==
    /\ Active(t) /\ req[t].rem = NoPkg /\ req[t].pkg = p
    /\ req[t].pc \notin ReturnError /\ ~req[t].reinstall

KeptKeys(t) ==
    \A p \in Packages :
        Whole(p) /\ ~Fresh(t, p) /\ ~(Active(t) /\ req[t].rem = p) => Kept(p)

MountedForRemoval(t) ==
    LET r == req[t]
    IN  /\ Active(t) /\ r.rem # NoPkg /\ r.rpc \in Mounted /\ HiveKeys[r.rem] # <<>>
        => hive[r.rem] = <<t, "remove">>

\* What a removal has still to delete.
Rank(h) == IF h = "done" THEN 16 ELSE RemoveRank[h]

LeftFor(p, k, n) ==
    \/ \E h \in Registrars : RemoveRank[h] >= n /\ k \in KeysOf(HandlerKeys(h, p))
    \/ n <= 14 /\ k \in KeysOf(HiveKeys[p])

LeftKeys(t) ==
    LET r == req[t]
    IN  Active(t) /\ r.rem # NoPkg =>
          \A k \in Keys \ Leftover(r.rem) :
             InPlace(r.rem, k) => LeftFor(r.rem, k, Rank(r.rpc))

KeysInv(t) ==
    /\ \A p \in Packages : Settled(p)
    /\ KeptKeys(t) /\ MountedForRemoval(t) /\ LeftKeys(t)

-----------------------------------------------------------------------------
(***************************************************************************)
(* What a change of the registry leaves.                                   *)
(***************************************************************************)
LEMMA KeySets ==
    ASSUME NEW p \in Packages
    PROVE  /\ KeysOf(HiveKeys[p]) \subseteq AllKeys(p)
           /\ \A h \in Registrars : KeysOf(HandlerKeys(h, p)) \subseteq AllKeys(p)
           /\ AllKeys(p) \subseteq Keys
           /\ SureKeys(p) \subseteq AllKeys(p)
           /\ \A k \in AllKeys(p) : \/ k \in KeysOf(HiveKeys[p])
                                    \/ \E h \in Registrars : k \in KeysOf(HandlerKeys(h, p))
<1>1. /\ KeysOf(HiveKeys[p]) \subseteq Keys
      /\ \A h \in Registrars : KeysOf(HandlerKeys(h, p)) \subseteq Keys
    BY KeySequences DEF KeysOf
<1>2. SureKeys(p) \subseteq AllKeys(p)
    BY DEF SureKeys, AllKeys
<1> QED
    BY <1>1, <1>2 DEF AllKeys

LEMMA StopAreRegistrars == StopAtMissing \subseteq Registrars
BY DEF StopAtMissing, Registrars

LEMMA RunsToStays ==
    ASSUME NEW s, NEW k, s \in Seq(Keys), RunsTo(s, k),
           \A g \in KeysOf(s) : reg[g] # NoEntry => reg'[g] # NoEntry
    PROVE  RunsTo(s, k)'
<1>1. PICK j \in DOMAIN s : s[j] = k /\ \A m \in 1..j : reg[s[m]] # NoEntry
    BY DEF RunsTo
<1>2. \A m \in 1..j : m \in DOMAIN s
    BY <1>1
<1>3. \A m \in 1..j : reg'[s[m]] # NoEntry
    BY <1>1, <1>2 DEF KeysOf
<1> QED
    BY <1>1, <1>3 DEF RunsTo

\* A key of p that stays, among entries that do not get in the way.
LEMMA FindableStays ==
    ASSUME NEW p \in Packages, NEW k, Findable(p, k), dir'[p] # {},
           \A h \in StopAtMissing : k \in KeysOf(HandlerKeys(h, p)) =>
              \A g \in KeysOf(HandlerKeys(h, p)) : reg[g] # NoEntry => reg'[g] # NoEntry
    PROVE  Findable(p, k)'
<1>1. ASSUME NEW h \in StopAtMissing, k \in KeysOf(HandlerKeys(h, p))
      PROVE  RunsTo(HandlerKeys(h, p), k)'
  <2>1. HandlerKeys(h, p) \in Seq(Keys)
    BY KeySequences, StopAreRegistrars
  <2>2. RunsTo(HandlerKeys(h, p), k)
    BY <1>1 DEF Findable
  <2> QED
    BY <1>1, <2>1, <2>2, RunsToStays
<1> QED
    BY <1>1 DEF Findable, HandlerKeys

\* Nothing happens to a key.
LEMMA SettledSame ==
    ASSUME NEW p \in Packages, Settled(p), reg' = reg,
           dir'[p] = {} => dir[p] = {} \/ \A k \in Keys \ Leftover(p) : ~InPlace(p, k)
    PROVE  Settled(p)'
<1> SUFFICES ASSUME NEW k \in Keys \ Leftover(p), InPlace(p, k)' PROVE Findable(p, k)'
    BY DEF Settled, Leftover, PassesOver, HasFTA
<1>1. InPlace(p, k)
    BY DEF InPlace
<1>2. Findable(p, k)
    BY <1>1 DEF Settled
<1>3. dir'[p] # {}
    BY <1>1, <1>2 DEF Findable
<1> QED
    BY <1>2, <1>3, FindableStays

\* The other packages, when p's keys change.
LEMMA OthersKeep ==
    ASSUME KeysApart, NEW p \in Packages, dir[p] # {}, OneDirectory, dir' = dir,
           \A k \in Keys : k \notin AllKeys(p) => reg'[k] = reg[k],
           \A k \in Keys : \A q \in Packages :
              q # p /\ reg'[k] = [owner |-> q, whole |-> TRUE] => InPlace(q, k),
           NEW q \in Packages, q # p, Settled(q)
    PROVE  Settled(q)' /\ (Whole(q) /\ dir[q] # {} /\ Kept(q) => Kept(q)')
<1>1. ASSUME dir[q] # {}, NEW k \in AllKeys(p) PROVE Contested(q, k)
    BY <1>1 DEF OneDirectory, Contested
<1>2. ASSUME NEW k \in Keys \ Leftover(q), InPlace(q, k)' PROVE Findable(q, k)'
  <2>1. InPlace(q, k)
    BY <1>2 DEF InPlace
  <2>2. Findable(q, k) /\ dir[q] # {}
    BY <2>1 DEF Settled, Findable
  <2>3. ASSUME NEW h \in StopAtMissing, NEW g \in KeysOf(HandlerKeys(h, q)) PROVE reg'[g] = reg[g]
    <3>1. ~Contested(q, g)
      BY DEF KeysApart
    <3>2. g \in Keys
      BY KeySets, StopAreRegistrars
    <3> QED
      BY <1>1, <2>2, <3>1, <3>2
  <2> QED
    BY <2>2, <2>3, FindableStays
<1>3. ASSUME dir[q] # {}, Kept(q) PROVE Kept(q)'
  <2> SUFFICES ASSUME NEW k \in SureKeys(q), ~Contested(q, k) PROVE InPlace(q, k)'
    BY DEF Kept, Contested
  <2>1. InPlace(q, k) /\ k \in Keys
    BY <1>3, KeySets DEF Kept
  <2>2. k \notin AllKeys(p)
    BY <1>1, <1>3
  <2> QED
    BY <2>1, <2>2 DEF InPlace
<1> QED
    BY <1>2, <1>3 DEF Settled

\* All the keys of s up to k are p's, or all before it.
LedTo(p, s, k) == \E j \in DOMAIN s : s[j] = k /\ \A m \in 1..j : m = j \/ InPlace(p, s[m])

LEMMA LedToReaches ==
    ASSUME NEW p \in Packages, NEW s, NEW k, s \in Seq(Keys), LedTo(p, s, k),
           \A g \in KeysOf(s) : g = k \/ InPlace(p, g) => reg'[g] # NoEntry
    PROVE  RunsTo(s, k)'
<1>1. PICK j \in DOMAIN s : s[j] = k /\ \A m \in 1..j : m = j \/ InPlace(p, s[m])
    BY DEF LedTo
<1>2. \A m \in 1..j : m \in DOMAIN s /\ s[m] \in KeysOf(s)
    BY <1>1 DEF KeysOf
<1>3. \A m \in 1..j : s[m] = k \/ InPlace(p, s[m])
    BY <1>1
<1>4. \A m \in 1..j : reg'[s[m]] # NoEntry
    BY <1>2, <1>3
<1> QED
    BY <1>1, <1>4 DEF RunsTo

LEMMA EntryFacts ==
    ASSUME NEW p \in Packages
    PROVE  /\ [owner |-> p, whole |-> TRUE] # NoEntry
           /\ [owner |-> p, whole |-> FALSE] # NoEntry
           /\ \A q, b : q # p => /\ [owner |-> p, whole |-> TRUE] # [owner |-> q, whole |-> b]
                                 /\ [owner |-> p, whole |-> FALSE] # [owner |-> q, whole |-> b]
           /\ \A q : /\ NoEntry # [owner |-> q, whole |-> TRUE]
                     /\ [owner |-> p, whole |-> FALSE] # [owner |-> q, whole |-> TRUE]
<1>1. NoOwner # p
    BY RegAssumption
<1>2. /\ NoEntry.owner = NoOwner /\ NoEntry.whole = FALSE
      /\ [owner |-> p, whole |-> TRUE].owner = p /\ [owner |-> p, whole |-> FALSE].owner = p
      /\ [owner |-> p, whole |-> FALSE].whole = FALSE
      /\ \A q, b : /\ [owner |-> q, whole |-> b].owner = q
                   /\ [owner |-> q, whole |-> b].whole = b
    BY DEF NoEntry
<1> QED
    BY <1>1, <1>2

\* A key was written for p: all of p's keys before it in a list that is gone
\* through were in place.
LEMMA WrittenKeys ==
    ASSUME RegTypeOK, NEW p \in Packages, NEW k \in AllKeys(p), Settled(p), reg' = Written(p, k),
           dir[p] # {}, dir' = dir,
           \A h \in StopAtMissing :
              k \in KeysOf(HandlerKeys(h, p)) => LedTo(p, HandlerKeys(h, p), k)
    PROVE  /\ Settled(p)'
           /\ Kept(p) => Kept(p)'
           /\ \A g \in Keys : g \notin AllKeys(p) => reg'[g] = reg[g]
           /\ \A g \in Keys : \A q \in Packages :
                 q # p /\ reg'[g] = [owner |-> q, whole |-> TRUE] => InPlace(q, g)
<1>0. k \in Keys /\ AllKeys(p) \subseteq Keys /\ SureKeys(p) \subseteq Keys
    BY KeySets
<1>1. \A g \in Keys : reg'[g] = IF g = k THEN [owner |-> p, whole |-> TRUE] ELSE reg[g]
    BY <1>0 DEF Written, RegTypeOK
<1>2. \A g \in Keys : g = k \/ InPlace(p, g) =>
          reg'[g] = [owner |-> p, whole |-> TRUE] /\ reg'[g] # NoEntry
    BY <1>1, EntryFacts DEF InPlace
<1>3. ASSUME NEW g \in Keys \ Leftover(p), InPlace(p, g)' PROVE Findable(p, g)'
  <2>1. CASE g = k
    <3>1. ASSUME NEW h \in StopAtMissing, k \in KeysOf(HandlerKeys(h, p))
          PROVE  RunsTo(HandlerKeys(h, p), k)'
      <4>1. HandlerKeys(h, p) \in Seq(Keys) /\ KeysOf(HandlerKeys(h, p)) \subseteq Keys
        BY KeySequences, KeySets, StopAreRegistrars
      <4>2. LedTo(p, HandlerKeys(h, p), k)
        BY <3>1
      <4> QED
        BY <1>2, <4>1, <4>2, LedToReaches
    <3> QED
      BY <2>1, <3>1 DEF Findable, HandlerKeys
  <2>2. CASE g # k
    <3>1. InPlace(p, g)
      BY <1>1, <1>3, <2>2 DEF InPlace
    <3>2. Findable(p, g)
      BY <3>1 DEF Settled
    <3>3. \A f \in Keys : reg[f] # NoEntry => reg'[f] # NoEntry
      BY <1>1, EntryFacts
    <3>4. \A h \in StopAtMissing : KeysOf(HandlerKeys(h, p)) \subseteq Keys
      BY KeySets, StopAreRegistrars
    <3> QED
      BY <3>2, <3>3, <3>4, FindableStays
  <2> QED
    BY <2>1, <2>2
<1>4. ASSUME Kept(p) PROVE Kept(p)'
  <2> SUFFICES ASSUME NEW g \in SureKeys(p), ~Contested(p, g) PROVE InPlace(p, g)'
    BY DEF Kept, Contested
  <2>1. InPlace(p, g) /\ g \in Keys
    BY <1>0, <1>4 DEF Kept
  <2> QED
    BY <1>2, <2>1 DEF InPlace
<1>5. ASSUME NEW g \in Keys, NEW q \in Packages, q # p,
             reg'[g] = [owner |-> q, whole |-> TRUE]
      PROVE  InPlace(q, g)
  <2>1. g # k
    BY <1>1, <1>5, EntryFacts
  <2> QED
    BY <1>1, <1>5, <2>1 DEF InPlace
<1>6. \A g \in Keys : g \notin AllKeys(p) => reg'[g] = reg[g]
    BY <1>1
<1>7. Settled(p)'
    BY <1>3 DEF Settled, Leftover, PassesOver, HasFTA
<1> QED
    BY <1>4, <1>5, <1>6, <1>7

\* A key was written halfway.
LEMMA TornKeys ==
    ASSUME RegTypeOK, NEW p \in Packages, NEW k \in AllKeys(p), NEW h, Settled(p),
           reg' = Torn(h, p, k), dir[p] # {}, dir' = dir
    PROVE  /\ Settled(p)'
           /\ \A g \in Keys : g \notin AllKeys(p) => reg'[g] = reg[g]
           /\ \A g \in Keys : \A q \in Packages :
                 q # p /\ reg'[g] = [owner |-> q, whole |-> TRUE] => InPlace(q, g)
<1>0. k \in Keys /\ AllKeys(p) \subseteq Keys
    BY KeySets
<1>1. CASE reg' = reg
    BY <1>1, SettledSame DEF InPlace
<1>2. CASE reg[k].owner # p /\ reg' = [reg EXCEPT ![k] = [owner |-> p, whole |-> FALSE]]
  <2>1. \A g \in Keys : reg'[g] = IF g = k THEN [owner |-> p, whole |-> FALSE] ELSE reg[g]
    BY <1>0, <1>2 DEF RegTypeOK
  <2>2. ASSUME NEW g \in Keys \ Leftover(p), InPlace(p, g)' PROVE Findable(p, g)'
    <3>1. InPlace(p, g)
      BY <2>1, <2>2, EntryFacts DEF InPlace
    <3>2. Findable(p, g)
      BY <3>1 DEF Settled
    <3>3. \A f \in Keys : reg[f] # NoEntry => reg'[f] # NoEntry
      BY <2>1, EntryFacts
    <3>4. \A f \in StopAtMissing : KeysOf(HandlerKeys(f, p)) \subseteq Keys
      BY KeySets, StopAreRegistrars
    <3> QED
      BY <3>2, <3>3, <3>4, FindableStays
  <2>3. ASSUME NEW g \in Keys, NEW q \in Packages, reg'[g] = [owner |-> q, whole |-> TRUE]
        PROVE  InPlace(q, g)
    <3>1. g # k
      BY <2>1, <2>3, EntryFacts
    <3> QED
      BY <2>1, <2>3, <3>1 DEF InPlace
  <2>4. Settled(p)'
    BY <2>2 DEF Settled, Leftover, PassesOver, HasFTA
  <2> QED
    BY <1>0, <2>1, <2>3, <2>4
<1> QED
    BY <1>1, <1>2 DEF Torn

-----------------------------------------------------------------------------
(***************************************************************************)
(* The steps that leave the registry alone.                                *)
(***************************************************************************)
LEMMA RemoveRanks ==
    /\ Rank("PopulatePackageInfo") = 1 /\ Rank("PrepareDevirtualizedRegistry") = 4
    /\ Rank("VirtualFileHandler") = 13 /\ Rank("WriteDevirtualizedRegistry") = 14
    /\ Rank("Extractor") = 15 /\ Rank("done") = 16
    /\ \A h \in KeysOf(RemoveHandlers) : Rank(h) = RemoveRank[h] /\ RemoveRank[h] \in 1..15
    /\ \A h \in KeysOf(RemoveHandlers) \ {"Extractor"} :
          Rank(NextHandler(RemoveHandlers, h)) = Rank(h) + 1
    /\ \A g, h \in KeysOf(RemoveHandlers) : RemoveRank[g] = RemoveRank[h] => g = h
    /\ \A h \in Registrars : RemoveRank[h] \in {2, 3} \cup 5..12
<1>1. \A h \in KeysOf(RemoveHandlers) :
          \E i \in 1..15 : h = RemoveHandlers[i] /\ RemoveRank[h] = i
    BY RemoveHandlersRank DEF KeysOf
<1>2. "done" \notin KeysOf(RemoveHandlers)
    BY RemoveHandlersKeys
<1>3. \A h \in KeysOf(RemoveHandlers) : Rank(h) = RemoveRank[h]
    BY <1>2 DEF Rank
<1>4. \A h \in KeysOf(RemoveHandlers) \ {"Extractor"} :
          Rank(NextHandler(RemoveHandlers, h)) = Rank(h) + 1
    BY RemoveHandlersKeys, RemoveHandlersNext DEF Rank, RemoveRank
<1>5. /\ Rank("PopulatePackageInfo") = 1 /\ Rank("PrepareDevirtualizedRegistry") = 4
      /\ Rank("VirtualFileHandler") = 13 /\ Rank("WriteDevirtualizedRegistry") = 14
      /\ Rank("Extractor") = 15 /\ Rank("done") = 16
    BY DEF Rank, RemoveRank
<1>6. \A h \in Registrars : RemoveRank[h] \in {2, 3} \cup 5..12
    BY DEF Registrars, RemoveRank
<1> QED
    BY <1>1, <1>3, <1>4, <1>5, <1>6

LEMMA LeftAtFirst ==
    \A p \in Packages : \A k \in AllKeys(p) : LeftFor(p, k, Rank("PopulatePackageInfo"))
<1> SUFFICES ASSUME NEW p \in Packages, NEW k \in AllKeys(p) PROVE LeftFor(p, k, 1)
    BY RemoveRanks
<1>1. k \in KeysOf(HiveKeys[p]) \/ \E h \in Registrars : k \in KeysOf(HandlerKeys(h, p))
    BY KeySets
<1>2. \A h \in Registrars : RemoveRank[h] >= 1
    BY RemoveRanks
<1> QED
    BY <1>1, <1>2 DEF LeftFor

\* A request that is over, or has done nothing yet, or comes to a removal.
LEMMA IdleKeys ==
    ASSUME NEW t \in Threads, \A p \in Packages : Settled(p)', dir' = dir,
           \/ /\ \/ req'[t].hr # "pending"
                 \/ req'[t].rem = NoPkg /\ req'[t].pc \in ReturnError
              /\ \A p \in Packages : Whole(p) => Kept(p)'
           \/ /\ req'[t].hr = "pending" /\ req'[t].rem \in Packages
              /\ req'[t].rpc = "PopulatePackageInfo"
              /\ \A p \in Packages : Whole(p) /\ p # req'[t].rem => Kept(p)'
    PROVE  KeysInv(t)'
<1>1. KeptKeys(t)'
    BY NamesAssumption DEF KeptKeys, Whole, Active, Fresh
<1>2. MountedForRemoval(t)'
    BY NamesAssumption DEF MountedForRemoval, Active, Mounted
<1>3. LeftKeys(t)'
  <2>1. CASE req'[t].hr # "pending" \/ req'[t].rem = NoPkg
    BY <2>1 DEF LeftKeys, Active
  <2>2. CASE req'[t].rem \in Packages /\ req'[t].rpc = "PopulatePackageInfo"
    <3>1. PICK p \in Packages : p = req'[t].rem
      BY <2>2
    <3>2. \A k \in Keys \ Leftover(p) :
             reg'[k] = [owner |-> p, whole |-> TRUE] => LeftFor(p, k, Rank("PopulatePackageInfo"))
      <4>1. Settled(p)'
        OBVIOUS
      <4> QED
        BY <4>1, LeftAtFirst DEF Settled, Findable, InPlace, Leftover, PassesOver, HasFTA,
                                 AllKeys, HandlerKeys
    <3> QED
      BY <2>2, <3>1, <3>2 DEF LeftKeys, InPlace, Leftover, PassesOver, HasFTA
  <2> QED
    BY <2>1, <2>2
<1> QED
    BY <1>1, <1>2, <1>3 DEF KeysInv

\* The same, from a request that has done nothing.
LEMMA EarlyKeys ==
    ASSUME NEW t \in Threads, KeysInv(t), reg' = reg, dir' = dir,
           req[t].hr # "pending" \/ (req[t].rem = NoPkg /\ req[t].pc \in ReturnError),
           \/ req'[t].hr # "pending"
           \/ req'[t].rem = NoPkg /\ req'[t].pc \in ReturnError
           \/ req'[t].rem \in Packages /\ req'[t].rpc = "PopulatePackageInfo"
    PROVE  KeysInv(t)'
<1>1. \A p \in Packages : Settled(p)'
    BY SettledSame DEF KeysInv
<1>2. \A p \in Packages : Whole(p) => Kept(p)
    BY NamesAssumption DEF KeysInv, KeptKeys, Fresh, Active
<1>3. \A p \in Packages : Kept(p) => Kept(p)'
    BY DEF Kept, InPlace, Contested
<1> QED
    BY <1>1, <1>2, <1>3, IdleKeys

LEMMA StartKeys ==
    ASSUME DeployInv, NEW t \in Threads, KeysInv(t),
           NEW op \in {"add", "remove"}, NEW p \in Packages, Start(t, op, p)
    PROVE  KeysInv(t)'
<1> DEFINE r == [NoRequest EXCEPT !.op = op, !.pkg = p, !.status = "started",
                                  !.hr = "pending"]
           s == IF op = "add" THEN [r EXCEPT !.pc = "PopulatePackageInfo"] ELSE RemoveOf(r, p)
<1>1. req'[t] = s
    BY DEF Start, DeployInv, ReqInv
<1>2. /\ op = "add" => s.pc = "PopulatePackageInfo" /\ s.rem = NoPkg
      /\ op = "remove" => s.rem = p /\ s.rpc = "PopulatePackageInfo"
    BY DEF NoRequest, RemoveOf
<1> HIDE DEF s
<1>3. reg' = reg /\ dir' = dir /\ req[t].hr # "pending"
    BY DEF Start, machineVars, Active
<1> QED
    BY <1>1, <1>2, <1>3, EarlyKeys DEF ReturnError

LEMMA CancelKeys ==
    ASSUME DeployInv, NEW t \in Threads, KeysInv(t), CancelRequest(t)
    PROVE  KeysInv(t)'
<1> DEFINE r == req[t]
           s == [r EXCEPT !.cancelled = TRUE]
<1>1. r \in Request /\ req'[t] = s
    BY DEF CancelRequest, DeployInv, ReqInv
<1>2. /\ s.op = r.op /\ s.pkg = r.pkg /\ s.pc = r.pc /\ s.rem = r.rem /\ s.rpc = r.rpc
      /\ s.hr = r.hr /\ s.reinstall = r.reinstall /\ s.todo = r.todo
    BY <1>1 DEF Request
<1>3. UNCHANGED <<dir, hive, reg>>
    BY DEF CancelRequest, machineVars
<1> HIDE DEF s
<1>4. \A p \in Packages : Settled(p)'
    BY <1>3, SettledSame DEF KeysInv
<1>5. \A p \in Packages : Kept(p) => Kept(p)'
    BY <1>3 DEF Kept, InPlace, Contested
<1>6. KeptKeys(t)'
    BY <1>1, <1>2, <1>3, <1>5 DEF KeysInv, KeptKeys, Whole, Active, Fresh
<1>7. MountedForRemoval(t)' /\ LeftKeys(t)'
    BY <1>1, <1>2, <1>3 DEF KeysInv, MountedForRemoval, LeftKeys, Active, InPlace, Leftover,
                            PassesOver, HasFTA
<1> QED
    BY <1>4, <1>6, <1>7 DEF KeysInv

LEMMA ValidateKeys ==
    ASSUME DeployInv, NEW t \in Threads, KeysInv(t), Validate(t)
    PROVE  KeysInv(t)'
<1>1. PICK h \in ReturnError \ {"ProcessPotentialUpdate"} : Adding(t, h)
    BY DEF Validate
<1>2. ReqInv /\ reg' = reg /\ dir' = dir /\ h # "InstallComplete"
    BY DEF DeployInv, Validate, machineVars, ReturnError
<1>3. req[t].rem = NoPkg /\ req[t].pc \in ReturnError
    BY <1>1 DEF Adding
<1>4. NextHandler(AddHandlers, h) \in ReturnError
    BY AddHandlersNext DEF ReturnError
<1>5. CASE Goes(t)
  <2>1. req'[t].rem = NoPkg /\ req'[t].pc = NextHandler(AddHandlers, h)
    BY <1>1, <1>2, <1>5, GoesFields
  <2> QED
    BY <1>2, <1>3, <1>4, <2>1, EarlyKeys
<1>6. CASE Fails(t, "failed")
  <2>1. req'[t].hr # "pending"
    BY <1>1, <1>2, <1>6, EarlyFailFields DEF Errors
  <2> QED
    BY <1>2, <1>3, <2>1, EarlyKeys
<1> QED
    BY <1>5, <1>6 DEF Validate

\* An add comes to the extraction.
LEMMA ExtractorKeys ==
    ASSUME NEW t \in Threads, \A p \in Packages : Settled(p), reg' = reg, dir' = dir,
           \A p \in Packages : Whole(p) => Kept(p),
           req'[t].hr = "pending", req'[t].rem = NoPkg, req'[t].pc = "Extractor"
    PROVE  KeysInv(t)'
<1>1. \A p \in Packages : Settled(p)'
    BY SettledSame
<1>2. \A p \in Packages : Kept(p) => Kept(p)'
    BY DEF Kept, InPlace, Contested
<1>3. KeptKeys(t)'
    BY <1>2 DEF KeptKeys, Whole
<1>4. MountedForRemoval(t)' /\ LeftKeys(t)'
    BY DEF MountedForRemoval, LeftKeys
<1> QED
    BY <1>1, <1>3, <1>4 DEF KeysInv

LEMMA ProcessPotentialUpdateKeys ==
    ASSUME DeployInv, ReportInv, NEW t \in Threads, PlacesInv(t), KeysInv(t),
           ProcessPotentialUpdate(t)
    PROVE  KeysInv(t)'
<1> DEFINE h == "ProcessPotentialUpdate"
           r == req[t]
           sameFamily == {q \in Packages : "root" \in dir[q] /\ Family[q] = Family[r.pkg]}
<1>1. Adding(t, h) /\ h \in ReturnError /\ h # "InstallComplete"
    BY DEF ProcessPotentialUpdate, ReturnError, Adding
<1>2. ReqInv /\ reg' = reg /\ dir' = dir
    BY DEF DeployInv, ProcessPotentialUpdate, machineVars
<1>3. r \in Request /\ r.op = "add" /\ r.pc = h /\ r.pkg \in Packages /\ r.rem = NoPkg
      /\ r.hr = "pending"
    BY <1>1, <1>2, AddingRuns DEF Runs, InChain
<1>4. \A p \in Packages : Whole(p) => Kept(p)
    BY <1>1, <1>3, NamesAssumption DEF KeysInv, KeptKeys, Fresh
<1>5. \A p \in Packages : Settled(p)
    BY DEF KeysInv
<1> HIDE DEF sameFamily
<1>7. ASSUME Goes(t) PROVE KeysInv(t)'
  <2>1. /\ req'[t].pc = "Extractor" /\ req'[t].rem = NoPkg /\ req'[t].pkg = r.pkg
        /\ req'[t].hr = "pending"
    BY <1>1, <1>2, <1>7, GoesFields, AddHandlersNext
  <2> QED
    BY <1>2, <1>4, <1>5, <2>1, ExtractorKeys
<1>8. ASSUME req' = [req EXCEPT ![t].reinstall = TRUE, ![t].pc = "Extractor"]
      PROVE  KeysInv(t)'
  <2>1. /\ req'[t].pc = "Extractor" /\ req'[t].rem = NoPkg /\ req'[t].pkg = r.pkg
        /\ req'[t].reinstall = TRUE /\ req'[t].hr = "pending"
    BY <1>2, <1>3, <1>8 DEF ReqInv, Request
  <2> QED
    BY <1>2, <1>4, <1>5, <2>1, ExtractorKeys
<1>9. ASSUME NEW q \in sameFamily \ {r.pkg}, req' = [req EXCEPT ![t] = RemoveOf(@, q)]
      PROVE  KeysInv(t)'
  <2>1. req'[t] = RemoveOf(r, q)
    BY <1>2, <1>9 DEF ReqInv
  <2>2. req'[t].rem = q /\ req'[t].rpc = "PopulatePackageInfo"
    BY <1>3, <2>1 DEF RemoveOf, Request
  <2>3. q \in Packages
    BY <1>9 DEF sameFamily
  <2> QED
    BY <1>1, <1>2, <1>3, <2>2, <2>3, EarlyKeys
<1>10. ASSUME Fails(t, "downgrade") PROVE KeysInv(t)'
  <2>1. req'[t].hr # "pending"
    BY <1>1, <1>2, <1>10, EarlyFailFields DEF Errors
  <2> QED
    BY <1>1, <1>2, <1>3, <2>1, EarlyKeys
<1> QED
    BY <1>7, <1>8, <1>9, <1>10 DEF ProcessPotentialUpdate, sameFamily

\* An add goes on: a package that was there before keeps its keys.
LEMMA ChainKeys ==
    ASSUME NEW t \in Threads, PlacesInv(t), KeysInv(t), NEW h, Adding(t, h),
           h \notin ReturnError,
           NEW p \in Packages, p = req[t].pkg,
           \A q \in Packages : Settled(q)',
           \A q \in Packages : q # p => dir'[q] = dir[q] /\ (Whole(q) /\ Kept(q) => Kept(q)'),
           Kept(p) => Kept(p)',
           req'[t].hr = "pending", req'[t].rem = NoPkg, req'[t].pkg = p,
           req'[t].reinstall = req[t].reinstall, req'[t].pc \notin ReturnError
    PROVE  KeysInv(t)'
<1>1. Active(t) /\ req[t].rem = NoPkg /\ req[t].pc = h
    BY DEF Adding
<1>2. ASSUME NEW q \in Packages, Whole(q)', ~Fresh(t, q)' PROVE Kept(q)'
  <2>1. CASE q = p
    <3>1. req[t].reinstall
      BY <1>2, <2>1 DEF Fresh, Active
    <3>2. Whole(p) /\ ~Fresh(t, p)
      BY <1>1, <3>1 DEF PlacesInv, Handled, Fresh
    <3>3. Kept(p)
      BY <1>1, <3>2, NamesAssumption DEF KeysInv, KeptKeys
    <3> QED
      BY <2>1, <3>3
  <2>2. CASE q # p
    <3>1. Whole(q) /\ ~Fresh(t, q)
      BY <1>1, <1>2, <2>2 DEF Whole, Fresh
    <3>2. Kept(q)
      BY <1>1, <3>1, NamesAssumption DEF KeysInv, KeptKeys
    <3> QED
      BY <2>2, <3>1, <3>2
  <2> QED
    BY <2>1, <2>2
<1>3. KeptKeys(t)'
    BY <1>2 DEF KeptKeys
<1>4. MountedForRemoval(t)' /\ LeftKeys(t)'
    BY DEF MountedForRemoval, LeftKeys
<1> QED
    BY <1>3, <1>4 DEF KeysInv

LEMMA QuietChainKeys ==
    ASSUME ReqInv, NEW t \in Threads, PlacesInv(t), KeysInv(t), NEW h, Adding(t, h),
           h \notin ReturnError, reg' = reg,
           \A q \in Packages : q # req[t].pkg => dir'[q] = dir[q],
           dir[req[t].pkg] \subseteq dir'[req[t].pkg],
           req'[t].hr = "pending", req'[t].rem = NoPkg, req'[t].pkg = req[t].pkg,
           req'[t].reinstall = req[t].reinstall, req'[t].pc \notin ReturnError
    PROVE  KeysInv(t)'
<1>1. PICK p \in Packages : p = req[t].pkg
    BY AddingRuns DEF Runs
<1>2. ASSUME NEW q \in Packages PROVE Settled(q)'
  <2>1. dir'[q] = {} => dir[q] = {}
    BY <1>1
  <2> QED
    BY <2>1, SettledSame DEF KeysInv
<1>3. \A q \in Packages : Kept(q) => Kept(q)'
    BY DEF Kept, InPlace, Contested
<1> QED
    BY <1>1, <1>2, <1>3, ChainKeys

LEMMA ExtractorStepKeys ==
    ASSUME LateFaults, DeployInv, ReportInv, NEW t \in Threads, PlacesInv(t), KeysInv(t),
           CreatePackageRoot(t) \/ ExtractFile(t)
    PROVE  KeysInv(t)'
<1>1. /\ Adding(t, "Extractor") /\ "Extractor" \notin ReturnError /\ ReqInv
      /\ dir \in [Packages -> SUBSET Items] /\ reg' = reg
    BY DEF CreatePackageRoot, ExtractFile, DeployInv, MachineTypeOK, ReturnError
<1>2. req[t].pkg \in Packages
    BY <1>1, AddingRuns DEF Runs
<1>3. CASE CreatePackageRoot(t)
  <2>1. /\ dir' = [dir EXCEPT ![req[t].pkg] = @ \cup {"root"}]
        /\ req' = [req EXCEPT ![t].todo = 1]
    BY <1>3, CreatePackageRootDoes
  <2>2. /\ req'[t].hr = "pending" /\ req'[t].rem = NoPkg
        /\ req'[t].pc = "Extractor" /\ req'[t].pkg = req[t].pkg
        /\ req'[t].reinstall = req[t].reinstall
    <3>1. ReqInv /\ Adding(t, "Extractor") /\ req' = [req EXCEPT ![t].todo = 1]
      BY <1>1, <2>1
    <3> QED
      BY <3>1, TodoStepFields
  <2>3. /\ \A q \in Packages : q # req[t].pkg => dir'[q] = dir[q]
        /\ dir[req[t].pkg] \subseteq dir'[req[t].pkg]
    BY <1>1, <1>2, <2>1
  <2> QED
    BY <1>1, <2>2, <2>3, QuietChainKeys
<1>4. CASE ExtractFile(t)
  <2>1. /\ \E item : dir' = [dir EXCEPT ![req[t].pkg] = @ \cup {item}]
        /\ req'[t].hr = "pending" /\ req'[t].rem = NoPkg
        /\ req'[t].pkg = req[t].pkg /\ req'[t].reinstall = req[t].reinstall
        /\ req'[t].pc \in {"Extractor", "PrepareDevirtualizedRegistry"}
    BY <1>4, ExtractFileDoes
  <2>2. /\ \A q \in Packages : q # req[t].pkg => dir'[q] = dir[q]
        /\ dir[req[t].pkg] \subseteq dir'[req[t].pkg]
    BY <1>1, <1>2, <2>1
  <2> QED
    BY <1>1, <2>1, <2>2, QuietChainKeys DEF ReturnError
<1> QED
    BY <1>3, <1>4

LEMMA PrepareKeys ==
    ASSUME LateFaults, DeployInv, NEW t \in Threads, PlacesInv(t), KeysInv(t),
           PrepareDevirtualizedRegistry(t)
    PROVE  KeysInv(t)'
<1> DEFINE h == "PrepareDevirtualizedRegistry"
<1>1. /\ Adding(t, h) /\ h # "InstallComplete" /\ h \notin ReturnError /\ ReqInv
      /\ reg' = reg /\ dir' = dir
    BY DEF PrepareDevirtualizedRegistry, DeployInv, ReturnError
<1>2. /\ req'[t].hr = "pending" /\ req'[t].rem = NoPkg
      /\ req'[t].pc = "VirtualFileHandler" /\ req'[t].pkg = req[t].pkg
      /\ req'[t].reinstall = req[t].reinstall
    BY <1>1, PreparePlaces, GoesFields, AddHandlersNext
<1> QED
    BY <1>1, <1>2, QuietChainKeys DEF ReturnError

LEMMA CopyVfsFilesKeys ==
    ASSUME LateFaults, DeployInv, ReportInv, NEW t \in Threads, PlacesInv(t), FilesInv(t),
           KeysInv(t), CopyVfsFiles(t)
    PROVE  KeysInv(t)'
<1> DEFINE h == "VirtualFileHandler"
<1>1. /\ Adding(t, h) /\ h # "InstallComplete" /\ h \notin ReturnError /\ ReqInv
      /\ reg' = reg /\ dir' = dir
    BY DEF CopyVfsFiles, DeployInv, ReturnError
<1>2. req' = req \/ Goes(t)
    BY CopyVfsFilesFiles
<1>3. /\ req'[t].hr = "pending" /\ req'[t].rem = NoPkg
      /\ req'[t].pc \notin ReturnError /\ req'[t].pkg = req[t].pkg
      /\ req'[t].reinstall = req[t].reinstall
    BY <1>1, <1>2, GoesFields, AddHandlersNext DEF ReturnError, Adding, Active
<1> QED
    BY <1>1, <1>3, QuietChainKeys

\* A late failure: the package is left to the removal.
LEMMA LateFailKeys ==
    ASSUME ReqInv, NEW t \in Threads, KeysInv(t), NEW h, Adding(t, h), h \notin ReturnError,
           NEW code \in {"failed", "userexit"}, Fails(t, code), dir' = dir,
           \A q \in Packages : Settled(q)',
           \A q \in Packages : q # req[t].pkg => (Whole(q) /\ Kept(q) => Kept(q)')
    PROVE  KeysInv(t)'
<1>1. /\ req'[t].hr = "pending" /\ req'[t].rem = req[t].pkg /\ req'[t].rem \in Packages
      /\ req'[t].rpc = "PopulatePackageInfo"
    BY LateFailFields
<1>2. ASSUME NEW q \in Packages, q # req'[t].rem, Whole(q) PROVE Kept(q)'
  <2>1. Kept(q)
    BY <1>1, <1>2, NamesAssumption DEF KeysInv, KeptKeys, Adding, Fresh
  <2> QED
    BY <1>1, <1>2, <2>1
<1> QED
    BY <1>1, <1>2, IdleKeys

LEMMA QuietFailKeys ==
    ASSUME ReqInv, NEW t \in Threads, KeysInv(t), NEW h, Adding(t, h), h \notin ReturnError,
           NEW code \in {"failed", "userexit"}, Fails(t, code), dir' = dir, reg' = reg
    PROVE  KeysInv(t)'
<1>1. \A q \in Packages : Settled(q)'
    BY SettledSame DEF KeysInv
<1>2. \A q \in Packages : Kept(q) => Kept(q)'
    BY DEF Kept, InPlace, Contested
<1> QED
    BY <1>1, <1>2, LateFailKeys

LEMMA PSFScriptExecuterKeys ==
    ASSUME DeployInv, NEW t \in Threads, PlacesInv(t), KeysInv(t),
           PSFScriptExecuter(t) \/ ScriptEnds(t)
    PROVE  KeysInv(t)'
<1> DEFINE h == "PSFScriptExecuter"
<1>1. /\ Adding(t, h) /\ h # "InstallComplete" /\ h \notin ReturnError /\ ReqInv
      /\ reg' = reg /\ dir' = dir
    BY DEF PSFScriptExecuter, ScriptEnds, DeployInv, ReturnError, machineVars
<1>2. CASE Goes(t)
  <2>1. /\ req'[t].hr = "pending" /\ req'[t].rem = NoPkg
        /\ req'[t].pc = "StartMenuLink" /\ req'[t].pkg = req[t].pkg
        /\ req'[t].reinstall = req[t].reinstall
    BY <1>1, <1>2, GoesFields, AddHandlersNext
  <2> QED
    BY <1>1, <2>1, QuietChainKeys DEF ReturnError
<1>3. CASE \E code \in {"failed", "userexit"} : Fails(t, code)
    BY <1>1, <1>3, QuietFailKeys
<1>4. CASE req' = [req EXCEPT ![t].todo = 1]
  <2>1. /\ req'[t].hr = "pending" /\ req'[t].rem = NoPkg /\ req'[t].pc = h
        /\ req'[t].pkg = req[t].pkg /\ req'[t].reinstall = req[t].reinstall
    <3>1. ReqInv /\ Adding(t, h) /\ req' = [req EXCEPT ![t].todo = 1]
      BY <1>1, <1>4
    <3> QED
      BY <3>1, TodoStepFields
  <2> QED
    BY <1>1, <2>1, QuietChainKeys DEF ReturnError
<1> QED
    BY <1>2, <1>3, <1>4 DEF PSFScriptExecuter, ScriptEnds

\* The add is over: every key is in place.
LEMMA InstallCompleteKeys ==
    ASSUME LateFaults, DeployInv, ReportInv, NEW t \in Threads, KeysInv(t), InstallComplete(t)
    PROVE  KeysInv(t)'
<1>1. Adding(t, "InstallComplete") /\ ReqInv /\ reg' = reg /\ dir' = dir
    BY DEF InstallComplete, DeployInv
<1>2. req'[t].hr = "ok" /\ req'[t].op = "add" /\ req'[t].pkg = req[t].pkg /\ ReportInv'
    BY InstallCompleteReport DEF LateFaults
<1>3. PICK p \in Packages : p = req[t].pkg
    BY <1>1, AddingRuns DEF Runs
<1>4. Told(t)'
    BY <1>2 DEF ReportInv
<1>5. \A k \in SureKeys(p) : InPlace(p, k)'
    BY <1>2, <1>3, <1>4 DEF Told, Active, InPlace
<1>6. Kept(p)'
    BY <1>5 DEF Kept
<1>7. \A q \in Packages : Settled(q)'
    BY <1>1, SettledSame DEF KeysInv
<1>8. \A q \in Packages : Kept(q) => Kept(q)'
    BY <1>1 DEF Kept, InPlace, Contested
<1>9. \A q \in Packages : Whole(q) => Kept(q)'
    BY <1>1, <1>3, <1>6, <1>8, NamesAssumption DEF KeysInv, KeptKeys, Adding, Fresh
<1> QED
    BY <1>1, <1>2, <1>7, <1>9, IdleKeys

-----------------------------------------------------------------------------
(***************************************************************************)
(* An add writes a key of its package.                                     *)
(***************************************************************************)
LEMMA AddWrites ==
    ASSUME KeysApart, RegTypeOK, NEW t \in Threads, PlacesInv(t), KeysInv(t),
           NEW p \in Packages, Whole(p), dir' = dir, NEW k \in AllKeys(p), reg' = Written(p, k),
           \A h \in StopAtMissing :
              k \in KeysOf(HandlerKeys(h, p)) => LedTo(p, HandlerKeys(h, p), k)
    PROVE  /\ \A q \in Packages : Settled(q)'
           /\ \A q \in Packages : Whole(q) /\ Kept(q) => Kept(q)'
<1>1. /\ \A q \in Packages : Settled(q) /\ (Whole(q) => dir[q] # {})
      /\ OneDirectory /\ dir[p] # {}
    BY DEF KeysInv, PlacesInv, Whole
<1>2. /\ Settled(p)'
      /\ Kept(p) => Kept(p)'
      /\ \A g \in Keys : g \notin AllKeys(p) => reg'[g] = reg[g]
      /\ \A g \in Keys : \A q \in Packages :
            q # p /\ reg'[g] = [owner |-> q, whole |-> TRUE] => InPlace(q, g)
    BY <1>1, WrittenKeys
<1>3. ASSUME NEW q \in Packages, q # p
      PROVE  Settled(q)' /\ (Whole(q) /\ Kept(q) => Kept(q)')
    BY <1>1, <1>2, <1>3, OthersKeep
<1> QED
    BY <1>2, <1>3

LEMMA AddTears ==
    ASSUME KeysApart, RegTypeOK, NEW t \in Threads, PlacesInv(t), KeysInv(t),
           NEW p \in Packages, Whole(p), dir' = dir, NEW k \in AllKeys(p), NEW h,
           reg' = Torn(h, p, k)
    PROVE  /\ \A q \in Packages : Settled(q)'
           /\ \A q \in Packages : q # p => (Whole(q) /\ Kept(q) => Kept(q)')
<1>1. /\ \A q \in Packages : Settled(q) /\ (Whole(q) => dir[q] # {})
      /\ OneDirectory /\ dir[p] # {}
    BY DEF KeysInv, PlacesInv, Whole
<1>2. /\ Settled(p)'
      /\ \A g \in Keys : g \notin AllKeys(p) => reg'[g] = reg[g]
      /\ \A g \in Keys : \A q \in Packages :
            q # p /\ reg'[g] = [owner |-> q, whole |-> TRUE] => InPlace(q, g)
    BY <1>1, TornKeys
<1>3. ASSUME NEW q \in Packages, q # p
      PROVE  Settled(q)' /\ (Whole(q) /\ Kept(q) => Kept(q)')
    BY <1>1, <1>2, <1>3, OthersKeep
<1> QED
    BY <1>2, <1>3

LEMMA WriteKeys ==
    ASSUME LateFaults, KeysApart, DeployInv, ReportInv, NEW t \in Threads, PlacesInv(t),
           KeysInv(t), WriteDevirtualizedRegistry(t)
    PROVE  KeysInv(t)'
<1> DEFINE h == "WriteDevirtualizedRegistry"
           n == req[t].todo
<1>1. /\ Adding(t, h) /\ h \notin ReturnError /\ AddRank[h] > 5 /\ h # "InstallComplete"
      /\ ReqInv /\ dir' = dir /\ RegTypeOK
    BY RankValues
        DEF WriteDevirtualizedRegistry, DevirtualizeKey, ReturnError, DeployInv, MachineTypeOK
<1>2. PICK p \in Packages : p = req[t].pkg
    BY <1>1, AddingRuns DEF Runs
<1> DEFINE ks == HiveKeys[p]
<1>3. Whole(p)
  <2>1. InChain(req[t]) /\ req[t].pc = h
    BY <1>1, AddingRuns
  <2>2. Extracted(req[t])
    BY <1>1, <2>1 DEF ReportInv, Progress, Adding
  <2> QED
    BY <1>1, <1>2, <2>1, <2>2, RankValues DEF Extracted
<1>4. (ks # <<>> => hive[p] = <<t, "add">>) /\ n \in 0..Len(ks)
  <2>1. InChain(req[t]) /\ req[t].pc = h
    BY <1>1, AddingRuns
  <2>2. HiveWritten(t, req[t])
    BY <1>1, <2>1 DEF ReportInv, Progress, Adding
  <2> QED
    BY <1>2, <2>1, <2>2 DEF HiveWritten
<1>5. ks \in Seq(Keys) /\ KeysOf(ks) \subseteq AllKeys(p)
    BY KeySequences, KeySets
<1>6. ASSUME NEW k \in KeysOf(ks), NEW f \in StopAtMissing
      PROVE  k \notin KeysOf(HandlerKeys(f, p))
    BY DEF KeysApart
<1> HIDE DEF n, ks
<1>7. ASSUME n < Len(ks) PROVE \E k \in KeysOf(ks) : k = ks[n + 1]
  <2>1. n + 1 \in DOMAIN ks
    BY <1>4, <1>5, <1>7
  <2> QED
    BY <2>1 DEF KeysOf
<1>8. ASSUME req' = [req EXCEPT ![t].todo = @ + 1]
      PROVE  /\ req'[t].hr = "pending" /\ req'[t].rem = NoPkg /\ req'[t].pc = h
             /\ req'[t].pkg = req[t].pkg /\ req'[t].reinstall = req[t].reinstall
    BY <1>1, <1>8, NextTodoFields
<1>9. ASSUME n < Len(ks), reg' = Written(p, ks[n + 1]), req' = [req EXCEPT ![t].todo = @ + 1]
      PROVE  KeysInv(t)'
  <2>1. PICK k \in KeysOf(ks) : k = ks[n + 1]
    BY <1>7, <1>9
  <2>2. /\ \A q \in Packages : Settled(q)'
        /\ \A q \in Packages : Whole(q) /\ Kept(q) => Kept(q)'
    <3>1. k \in AllKeys(p) /\ reg' = Written(p, k)
      BY <1>5, <1>9, <2>1
    <3>2. \A f \in StopAtMissing : k \notin KeysOf(HandlerKeys(f, p))
      BY <1>6
    <3> QED
      BY <1>1, <1>3, <3>1, <3>2, AddWrites
  <2>3. /\ req'[t].hr = "pending" /\ req'[t].rem = NoPkg /\ req'[t].pc = h
        /\ req'[t].pkg = p /\ req'[t].reinstall = req[t].reinstall
    BY <1>2, <1>8, <1>9
  <2>4. /\ \A q \in Packages : q # p => dir'[q] = dir[q] /\ (Whole(q) /\ Kept(q) => Kept(q)')
        /\ Kept(p) => Kept(p)'
    BY <1>1, <1>3, <2>2
  <2>5. req'[t].pc \notin ReturnError
    BY <1>1, <2>3
  <2> QED
    BY <1>1, <1>2, <2>2, <2>3, <2>4, <2>5, ChainKeys
<1>10. ASSUME reg' = reg, req' = [req EXCEPT ![t].todo = @ + 1] PROVE KeysInv(t)'
    BY <1>1, <1>8, <1>10, QuietChainKeys
<1>11. ASSUME Goes(t), reg' = reg PROVE KeysInv(t)'
  <2>1. /\ req'[t].hr = "pending" /\ req'[t].rem = NoPkg
        /\ req'[t].pc = "PSFScriptExecuter" /\ req'[t].pkg = req[t].pkg
        /\ req'[t].reinstall = req[t].reinstall
    BY <1>1, <1>11, GoesFields, AddHandlersNext
  <2> QED
    BY <1>1, <1>11, <2>1, QuietChainKeys DEF ReturnError
<1>12. ASSUME n < Len(ks), reg' = Torn(h, p, ks[n + 1]), Fails(t, "failed") PROVE KeysInv(t)'
  <2>1. PICK k \in KeysOf(ks) : k = ks[n + 1]
    BY <1>7, <1>12
  <2>2. /\ \A q \in Packages : Settled(q)'
        /\ \A q \in Packages : q # p => (Whole(q) /\ Kept(q) => Kept(q)')
    <3>1. k \in AllKeys(p) /\ reg' = Torn(h, p, k)
      BY <1>5, <1>12, <2>1
    <3> HIDE DEF h
    <3> QED
      BY <1>1, <1>3, <3>1, AddTears
  <2> QED
    BY <1>1, <1>2, <1>12, <2>2, LateFailKeys
<1>13. ASSUME reg' = reg, Fails(t, "failed") PROVE KeysInv(t)'
    BY <1>1, <1>13, QuietFailKeys
<1>14. (IF hive[p] = <<t, "add">> THEN HiveKeys[p] ELSE <<>>) = ks
    BY <1>4 DEF ks
<1>15. req[t].pc = h
    BY <1>1 DEF Adding
<1> QED
    BY <1>2, <1>9, <1>10, <1>11, <1>12, <1>13, <1>14, <1>15
        DEF WriteDevirtualizedRegistry, DevirtualizeKey, n

LEMMA RegisterKeys ==
    ASSUME KeysApart, DeployInv, ReportInv, NEW t \in Threads, PlacesInv(t), KeysInv(t),
           Register(t)
    PROVE  KeysInv(t)'
<1> DEFINE n == req[t].todo
<1>1. PICK h \in Registrars : Adding(t, h)
    BY DEF Register
<1>2. /\ h \in KeysOf(AddHandlers) \ {"InstallComplete"}
      /\ h \notin ReturnError /\ h \notin {"VirtualFileHandler", "WriteDevirtualizedRegistry"}
      /\ AddRank[h] \in 10..19 /\ h # "Extractor"
    BY HandlersDistinct, RankValues
<1>3. ReqInv /\ dir' = dir /\ RegTypeOK
    BY DEF DeployInv, MachineTypeOK, Register
<1>4. PICK p \in Packages : p = req[t].pkg
    BY <1>1, <1>3, AddingRuns DEF Runs
<1>5. InChain(req[t]) /\ req[t].pc = h
    BY <1>1, <1>3, AddingRuns
<1> DEFINE ks == HandlerKeys(h, p)
           passed == PassesOver(h, p, hive[p] = <<t, "add">>)
<1>6. Extracted(req[t]) /\ KeysWritten(req[t])
    BY <1>1, <1>5 DEF ReportInv, Progress, Adding
<1>7. Whole(p)
    BY <1>2, <1>4, <1>5, <1>6 DEF Extracted
<1>8. n \in 0..Len(ks) /\ \A i \in 1..n : ks[i] \in Skipped(h, p) \/ InPlace(p, ks[i])
    BY <1>4, <1>5, <1>6 DEF KeysWritten
<1>9. h \in StopAtMissing => Skipped(h, p) = {}
    BY DEF StopAtMissing, Skipped, PassesOver
<1>10. ks \in Seq(Keys) /\ KeysOf(ks) \subseteq AllKeys(p)
    BY KeySequences, KeySets
<1>11. ASSUME NEW k \in KeysOf(ks), NEW f \in StopAtMissing, k \in KeysOf(HandlerKeys(f, p))
       PROVE  f = h
    BY <1>11 DEF KeysApart
<1> HIDE DEF n, ks, passed
<1>12. ASSUME n < Len(ks)
       PROVE  \E k \in KeysOf(ks) : k = ks[n + 1] /\ (h \in StopAtMissing => LedTo(p, ks, k))
  <2>1. n + 1 \in DOMAIN ks /\ n \in Nat
    BY <1>8, <1>10, <1>12
  <2>2. h \in StopAtMissing => \A m \in 1..(n + 1) : m = n + 1 \/ InPlace(p, ks[m])
    BY <1>8, <1>9, <2>1
  <2> QED
    BY <2>1, <2>2 DEF KeysOf, LedTo
<1>13. ASSUME n < Len(ks), reg' = Written(p, ks[n + 1])
       PROVE  /\ \A q \in Packages : Settled(q)'
              /\ \A q \in Packages : Whole(q) /\ Kept(q) => Kept(q)'
  <2>1. PICK k \in KeysOf(ks) : k = ks[n + 1] /\ (h \in StopAtMissing => LedTo(p, ks, k))
    BY <1>12, <1>13
  <2>2. k \in AllKeys(p) /\ reg' = Written(p, k)
    BY <1>10, <1>13, <2>1
  <2>3. ASSUME NEW f \in StopAtMissing, k \in KeysOf(HandlerKeys(f, p))
        PROVE  LedTo(p, HandlerKeys(f, p), k)
    BY <1>11, <2>1, <2>3 DEF ks
  <2> QED
    BY <1>3, <1>7, <2>2, <2>3, AddWrites
<1>14. ASSUME n < Len(ks), reg' = Torn(h, p, ks[n + 1])
       PROVE  /\ \A q \in Packages : Settled(q)'
              /\ \A q \in Packages : q # p => (Whole(q) /\ Kept(q) => Kept(q)')
  <2>1. PICK k \in KeysOf(ks) : k = ks[n + 1]
    BY <1>12, <1>14
  <2>2. k \in AllKeys(p) /\ reg' = Torn(h, p, k)
    BY <1>10, <1>14, <2>1
  <2> QED
    BY <1>3, <1>7, <2>2, AddTears
<1>15. ASSUME req' = [req EXCEPT ![t].todo = @ + 1]
       PROVE  /\ req'[t].hr = "pending" /\ req'[t].rem = NoPkg /\ req'[t].pc = h
              /\ req'[t].pkg = req[t].pkg /\ req'[t].reinstall = req[t].reinstall
    BY <1>1, <1>3, <1>15, NextTodoFields
<1>16. ASSUME n < Len(ks), reg' = Written(p, ks[n + 1]),
              req' = [req EXCEPT ![t].todo = @ + 1]
       PROVE  KeysInv(t)'
  <2>1. /\ \A q \in Packages : Settled(q)'
        /\ \A q \in Packages : Whole(q) /\ Kept(q) => Kept(q)'
    BY <1>13, <1>16
  <2>2. /\ req'[t].hr = "pending" /\ req'[t].rem = NoPkg /\ req'[t].pc = h
        /\ req'[t].pkg = p /\ req'[t].reinstall = req[t].reinstall
    BY <1>4, <1>15, <1>16
  <2>3. /\ \A q \in Packages : q # p => dir'[q] = dir[q] /\ (Whole(q) /\ Kept(q) => Kept(q)')
        /\ Kept(p) => Kept(p)'
    BY <1>3, <1>7, <2>1
  <2> QED
    BY <1>1, <1>2, <1>4, <2>1, <2>2, <2>3, ChainKeys
<1>17. ASSUME reg' = reg, req' = [req EXCEPT ![t].todo = @ + 1] PROVE KeysInv(t)'
    BY <1>1, <1>2, <1>3, <1>15, <1>17, QuietChainKeys
<1>18. ASSUME Goes(t), reg' = reg PROVE KeysInv(t)'
  <2>1. /\ req'[t].hr = "pending" /\ req'[t].rem = NoPkg
        /\ req'[t].pc = NextHandler(AddHandlers, h) /\ req'[t].pkg = req[t].pkg
        /\ req'[t].reinstall = req[t].reinstall
    BY <1>1, <1>2, <1>3, <1>18, GoesFields
  <2>2. NextHandler(AddHandlers, h) \notin ReturnError
    BY AddHandlersNext DEF Registrars, ReturnError
  <2> QED
    BY <1>1, <1>2, <1>3, <1>18, <2>1, <2>2, QuietChainKeys
<1>19. ASSUME NEW code \in {"failed", "userexit"}, reg' = reg, Fails(t, code)
       PROVE  KeysInv(t)'
    BY <1>1, <1>2, <1>3, <1>19, QuietFailKeys
<1>20. ASSUME n < Len(ks), Fails(t, "failed"),
              reg' = Torn(h, p, ks[n + 1]) \/ reg' = Written(p, ks[n + 1])
       PROVE  KeysInv(t)'
  <2>1. /\ \A q \in Packages : Settled(q)'
        /\ \A q \in Packages : q # p => (Whole(q) /\ Kept(q) => Kept(q)')
    BY <1>13, <1>14, <1>20
  <2> QED
    BY <1>1, <1>2, <1>3, <1>4, <1>20, <2>1, LateFailKeys
<1> QED
    BY <1>4, <1>5, <1>16, <1>17, <1>18, <1>19, <1>20 DEF Register, n, ks

-----------------------------------------------------------------------------
(***************************************************************************)
(* The steps of a removal.                                                 *)
(***************************************************************************)
LEMMA LeftNext ==
    ASSUME NEW h \in KeysOf(RemoveHandlers), NEW p, NEW k, LeftFor(p, k, Rank(h)),
           h \in Registrars => k \notin KeysOf(HandlerKeys(h, p)),
           h = "WriteDevirtualizedRegistry" => k \notin KeysOf(HiveKeys[p])
    PROVE  LeftFor(p, k, Rank(h) + 1)
<1>1. Rank(h) = RemoveRank[h] /\ RemoveRank[h] \in 1..15
    BY RemoveRanks
<1>2. CASE \E g \in Registrars : RemoveRank[g] >= Rank(h) /\ k \in KeysOf(HandlerKeys(g, p))
  <2>1. PICK g \in Registrars : RemoveRank[g] >= Rank(h) /\ k \in KeysOf(HandlerKeys(g, p))
    BY <1>2
  <2>2. g # h /\ g \in KeysOf(RemoveHandlers)
    BY <2>1, HandlersDistinct
  <2>3. RemoveRank[g] # RemoveRank[h] /\ RemoveRank[g] \in 1..15
    BY <2>2, RemoveRanks
  <2>4. RemoveRank[g] >= Rank(h) + 1
    BY <1>1, <2>1, <2>3
  <2> QED
    BY <2>1, <2>4 DEF LeftFor
<1>3. CASE Rank(h) <= 14 /\ k \in KeysOf(HiveKeys[p])
  <2>1. h # "WriteDevirtualizedRegistry" /\ "WriteDevirtualizedRegistry" \in KeysOf(RemoveHandlers)
    BY <1>3, HandlersDistinct
  <2>2. RemoveRank[h] # RemoveRank["WriteDevirtualizedRegistry"]
    BY <2>1, RemoveRanks
  <2>3. RemoveRank["WriteDevirtualizedRegistry"] = 14
    BY <2>1, RemoveRanks
  <2>4. Rank(h) + 1 <= 14
    BY <1>1, <1>3, <2>2, <2>3
  <2> QED
    BY <1>3, <2>4 DEF LeftFor
<1> QED
    BY <1>2, <1>3 DEF LeftFor

LEMMA RemovalKeys ==
    ASSUME ReqInv, NEW t \in Threads, KeysInv(t),
           NEW h \in KeysOf(RemoveHandlers) \ {"Extractor"}, Removing(t, h), GoesOn(t),
           NEW p \in Packages, p = req[t].rem, dir' = dir,
           \A q \in Packages : Settled(q)',
           \A q \in Packages : q # p => (Whole(q) /\ Kept(q) => Kept(q)'),
           MountedForRemoval(t)',
           \A k \in Keys \ Leftover(p) : InPlace(p, k)' =>
              /\ InPlace(p, k)
              /\ h \in Registrars => k \notin KeysOf(HandlerKeys(h, p))
              /\ h = "WriteDevirtualizedRegistry" => k \notin KeysOf(HiveKeys[p])
    PROVE  KeysInv(t)'
<1>1. /\ req'[t].hr = "pending" /\ req'[t].rem = p
      /\ req'[t].rpc = NextHandler(RemoveHandlers, h)
    BY GoesOnFields
<1>2. Active(t) /\ req[t].rem # NoPkg /\ req[t].rpc = h
    BY DEF Removing
<1>3. KeptKeys(t)'
  <2> SUFFICES ASSUME NEW q \in Packages, Whole(q)', q # p PROVE Kept(q)'
    BY <1>1 DEF KeptKeys, Active
  <2>1. Whole(q)
    BY DEF Whole
  <2>2. Kept(q)
    BY <1>2, <2>1 DEF KeysInv, KeptKeys, Fresh
  <2> QED
    BY <2>1, <2>2
<1>5. Rank(NextHandler(RemoveHandlers, h)) = Rank(h) + 1
    BY RemoveRanks
<1>6. ASSUME NEW k \in Keys \ Leftover(p), InPlace(p, k)' PROVE LeftFor(p, k, Rank(h) + 1)
  <2>1. LeftFor(p, k, Rank(h))
    BY <1>2, <1>6 DEF KeysInv, LeftKeys
  <2> QED
    BY <1>6, <2>1, LeftNext
<1>7. LeftKeys(t)'
  <2>1. \A k \in Keys \ Leftover(p) :
           reg'[k] = [owner |-> p, whole |-> TRUE] => LeftFor(p, k, Rank(h) + 1)
    BY <1>6 DEF InPlace
  <2> QED
    BY <1>1, <1>5, <2>1 DEF LeftKeys, InPlace, Leftover, PassesOver, HasFTA
<1> QED
    BY <1>3, <1>7 DEF KeysInv

LEMMA QuietRemovalKeys ==
    ASSUME ReqInv, NEW t \in Threads, KeysInv(t),
           NEW h \in KeysOf(RemoveHandlers) \ {"Extractor"}, Removing(t, h), GoesOn(t),
           dir' = dir, reg' = reg, MountedForRemoval(t)',
           h \notin Registrars, h # "WriteDevirtualizedRegistry"
    PROVE  KeysInv(t)'
<1>1. PICK p \in Packages : p = req[t].rem
    BY RemovingRuns
<1>2. \A q \in Packages : Settled(q)'
    BY SettledSame DEF KeysInv
<1>3. \A q \in Packages : Kept(q) => Kept(q)'
    BY DEF Kept, InPlace, Contested
<1>4. \A k \in Keys : InPlace(p, k)' => InPlace(p, k)
    BY DEF InPlace
<1> QED
    BY <1>1, <1>2, <1>3, <1>4, RemovalKeys

\* What a handler's deletions leave of p's keys, and of the others'.
LEMMA UnregisteredFacts ==
    ASSUME NEW p \in Packages, NEW h \in Registrars, Settled(p), NEW mounted \in BOOLEAN,
           reg' = Unregistered(h, p, HandlerKeys(h, p),
                               Deletable(h, p, HandlerKeys(h, p)) \ PassesOver(h, p, mounted))
    PROVE  /\ \A k \in Keys : k \notin KeysOf(HandlerKeys(h, p)) => reg'[k] = reg[k]
           /\ \A k \in Keys \ Leftover(p) : k \in KeysOf(HandlerKeys(h, p)) => ~InPlace(p, k)'
           /\ \A k \in Keys : \A q \in Packages :
                 reg'[k] = [owner |-> q, whole |-> TRUE] => InPlace(q, k)
<1> DEFINE ks == HandlerKeys(h, p)
           all == Deletable(h, p, ks)
           S == all \ PassesOver(h, p, mounted)
<1>1. ks \in Seq(Keys)
    BY KeySequences
<1>2. PassesOver(h, p, mounted) \subseteq Leftover(p)
  <2>1. CASE h # "FileTypeAssociation" \/ ~mounted
    BY <2>1 DEF PassesOver
  <2>2. CASE h = "FileTypeAssociation" /\ mounted = TRUE
    BY <2>2 DEF Leftover
  <2> QED
    BY <2>1, <2>2
<1> HIDE DEF ks
<1>3. all \subseteq KeysOf(ks)
    BY DEF Deletable, KeysOf
<1>4. ASSUME NEW k \in KeysOf(ks), k \in Keys \ Leftover(p), InPlace(p, k) PROVE k \in S
  <2>1. CASE h \in OwnerChecked
    <3>1. all = {e \in KeysOf(ks) : reg[e] = [owner |-> p, whole |-> TRUE]}
      BY <2>1 DEF Deletable, OwnerChecked, StopAtMissing
    <3>2. k \in all
      BY <1>4, <3>1 DEF InPlace
    <3> QED
      BY <1>2, <1>4, <3>2
  <2>2. CASE h \in StopAtMissing
    <3>1. h \notin OwnerChecked
      BY <2>2 DEF OwnerChecked, StopAtMissing
    <3>2. RunsTo(ks, k)
      BY <1>4, <2>2 DEF Settled, Findable, ks
    <3>3. k \in all
      BY <2>2, <3>1, <3>2 DEF Deletable, RunsTo
    <3> QED
      BY <1>2, <1>4, <3>3
  <2>3. CASE h \notin OwnerChecked /\ h \notin StopAtMissing
    <3>1. all = KeysOf(ks)
      BY <2>3 DEF Deletable
    <3> QED
      BY <1>2, <1>4, <3>1
  <2> QED
    BY <2>1, <2>2, <2>3
<1>5. S \subseteq KeysOf(ks)
    BY <1>3
<1> HIDE DEF S
<1>6. \A k \in Keys : reg'[k] = IF h = "AppExecutionAlias" /\ k \in KeysOf(ks) /\ reg[k] = NoEntry
                                  THEN [owner |-> p, whole |-> FALSE]
                                  ELSE IF k \in S THEN NoEntry ELSE reg[k]
    BY DEF Unregistered, Deleted, ks, S
<1>7. ASSUME NEW k \in Keys \ Leftover(p), k \in KeysOf(ks) PROVE ~InPlace(p, k)'
    BY <1>4, <1>6, <1>7, EntryFacts DEF InPlace
<1>8. ASSUME NEW k \in Keys, NEW q \in Packages, reg'[k] = [owner |-> q, whole |-> TRUE]
      PROVE  InPlace(q, k)
    BY <1>6, <1>8, EntryFacts DEF InPlace
<1>9. \A k \in Keys : k \notin KeysOf(ks) => reg'[k] = reg[k]
    BY <1>5, <1>6
<1> QED
    BY <1>7, <1>8, <1>9 DEF ks

\* Nothing gets in the way of p's other keys.
LEMMA DeletedSettled ==
    ASSUME NEW p \in Packages, Settled(p), dir[p] # {}, dir' = dir, NEW D,
           \A k \in Keys : k \notin D => reg'[k] = reg[k],
           \A k \in Keys \ Leftover(p) : InPlace(p, k)' => InPlace(p, k) /\ k \notin D,
           \A f \in StopAtMissing : (KeysOf(HandlerKeys(f, p)) \cap D = {}) \/
                                    (KeysOf(HandlerKeys(f, p)) \subseteq D)
    PROVE  Settled(p)'
<1> SUFFICES ASSUME NEW k \in Keys \ Leftover(p), InPlace(p, k)' PROVE Findable(p, k)'
    BY DEF Settled, Leftover, PassesOver, HasFTA
<1>1. InPlace(p, k) /\ k \notin D
    OBVIOUS
<1>2. Findable(p, k)
    BY <1>1 DEF Settled
<1>3. ASSUME NEW f \in StopAtMissing, k \in KeysOf(HandlerKeys(f, p)),
             NEW g \in KeysOf(HandlerKeys(f, p))
      PROVE  reg'[g] = reg[g]
  <2>1. g \notin D
    BY <1>1, <1>3
  <2>2. g \in Keys
    BY KeySets, StopAreRegistrars
  <2> QED
    BY <2>1, <2>2
<1> QED
    BY <1>2, <1>3, FindableStays

LEMMA UnregisterKeys ==
    ASSUME LateFaults, KeysApart, DeployInv, NEW t \in Threads, PlacesInv(t), KeysInv(t),
           Unregister(t)
    PROVE  KeysInv(t)'
<1>1. PICK h \in Registrars : Removing(t, h)
    BY DEF Unregister
<1>2. ReqInv /\ dir' = dir /\ hive' = hive /\ GoesOn(t)
    BY DEF DeployInv, Unregister
<1>3. /\ h \in KeysOf(RemoveHandlers) \ {"Extractor"}
      /\ h \notin {"PopulatePackageInfo", "done", "PrepareDevirtualizedRegistry",
                   "WriteDevirtualizedRegistry"}
    BY HandlersDistinct, RemoveHandlersKeys
<1>4. PICK p \in Packages : p = req[t].rem
    BY <1>1, <1>2, RemovingRuns
<1>5. req[t].rpc = h /\ req[t].rem # NoPkg /\ Active(t)
    BY <1>1 DEF Removing
<1> DEFINE D == KeysOf(HandlerKeys(h, p))
<1>6. PICK mounted \in BOOLEAN : mounted = (hive[p] = <<t, "remove">>)
    OBVIOUS
<1>7. reg' = Unregistered(h, p, HandlerKeys(h, p),
                          Deletable(h, p, HandlerKeys(h, p)) \ PassesOver(h, p, mounted))
  <2>1. ~MayFailToRemove(t)
    BY DEF LateFaults, MayFailToRemove
  <2> QED
    BY <1>4, <1>5, <1>6, <2>1 DEF Unregister
<1>8. dir[p] # {} /\ OneDirectory
    BY <1>3, <1>4, <1>5 DEF PlacesInv, Handled, Whole
<1>9. /\ \A k \in Keys : k \notin D => reg'[k] = reg[k]
      /\ \A k \in Keys \ Leftover(p) : k \in D => ~InPlace(p, k)'
      /\ \A k \in Keys : \A q \in Packages :
            reg'[k] = [owner |-> q, whole |-> TRUE] => InPlace(q, k)
    BY <1>7, UnregisteredFacts DEF KeysInv
<1>10. \A k \in Keys \ Leftover(p) : InPlace(p, k)' => InPlace(p, k) /\ k \notin D
    BY <1>9 DEF InPlace
<1>11. D \subseteq AllKeys(p)
    BY KeySets
<1>12. \A f \in StopAtMissing : f = h \/ KeysOf(HandlerKeys(f, p)) \cap D = {}
    BY DEF KeysApart
<1>13. Settled(p)'
  <2>1. \A f \in StopAtMissing : (KeysOf(HandlerKeys(f, p)) \cap D = {}) \/
                                 (KeysOf(HandlerKeys(f, p)) \subseteq D)
    BY <1>12
  <2> HIDE DEF D
  <2> QED
    BY <1>2, <1>8, <1>9, <1>10, <2>1, DeletedSettled DEF KeysInv
<1>14. ASSUME NEW q \in Packages, q # p
       PROVE  Settled(q)' /\ (Whole(q) /\ Kept(q) => Kept(q)')
  <2>1. \A k \in Keys : k \notin AllKeys(p) => reg'[k] = reg[k]
    BY <1>9, <1>11
  <2>2. Settled(q) /\ (Whole(q) => dir[q] # {})
    BY DEF KeysInv, Whole
  <2> QED
    BY <1>2, <1>8, <1>9, <1>14, <2>1, <2>2, OthersKeep
<1>15. MountedForRemoval(t)'
  <2>1. NextHandler(RemoveHandlers, h) \in Mounted => h \in Mounted
    BY RemoveHandlersNext DEF Mounted, Registrars
  <2>2. req'[t].rem = p /\ req'[t].rpc = NextHandler(RemoveHandlers, h)
    BY <1>1, <1>2, <1>3, <1>4, GoesOnFields
  <2> QED
    BY <1>2, <1>4, <1>5, <2>1, <2>2 DEF KeysInv, MountedForRemoval
<1> HIDE DEF D
<1>16. \A q \in Packages : Settled(q)'
    BY <1>13, <1>14
<1>17. \A k \in Keys \ Leftover(p) : InPlace(p, k)' =>
          /\ InPlace(p, k)
          /\ h \in Registrars => k \notin KeysOf(HandlerKeys(h, p))
          /\ h = "WriteDevirtualizedRegistry" => k \notin KeysOf(HiveKeys[p])
    BY <1>3, <1>10 DEF D
<1> QED
    BY <1>1, <1>2, <1>3, <1>4, <1>14, <1>15, <1>16, <1>17, RemovalKeys

\* A removal returns: the package has nothing left.
LEMMA ReturnsKeys ==
    ASSUME ReqInv, NEW t \in Threads, PlacesInv(t), KeysInv(t), NEW h, Removing(t, h),
           NEW hr \in {"ok", "failed"}, RemovalReturns(t, hr), dir' = dir, reg' = reg,
           dir[req[t].rem] = {}
    PROVE  KeysInv(t)'
<1> DEFINE r == req[t]
           s == req'[t]
<1>1. r.hr = "pending" /\ r.rem # NoPkg /\ r.rem \in Packages
    BY RemovingRuns DEF Removing, Active
<1>2. ~Whole(r.rem)
    BY DEF Whole
<1>3. \A q \in Packages : Whole(q) => Kept(q)
    BY <1>1, <1>2 DEF KeysInv, KeptKeys, Fresh
<1>4. \A q \in Packages : Settled(q) /\ Settled(q)'
    BY SettledSame DEF KeysInv
<1>5. \A q \in Packages : Kept(q) => Kept(q)'
    BY DEF Kept, InPlace, Contested
<1>6. CASE s.hr # "pending"
    BY <1>3, <1>4, <1>5, <1>6, IdleKeys
<1>7. CASE s.hr = "pending" /\ s.rem = NoPkg /\ s.pc = "Extractor"
    BY <1>3, <1>4, <1>7, ExtractorKeys
<1> QED
    BY <1>6, <1>7, ReturnsFields

LEMMA ReadManifestKeys ==
    ASSUME DeployInv, ReportInv, NEW t \in Threads, PlacesInv(t), KeysInv(t), ReadManifest(t)
    PROVE  KeysInv(t)'
<1> DEFINE p == req[t].rem
           h == "PopulatePackageInfo"
<1>1. ReqInv /\ dir' = dir /\ reg' = reg /\ Removing(t, h)
    BY DEF DeployInv, ReadManifest
<1>2. h \in KeysOf(RemoveHandlers) \ {"Extractor"} /\ h \notin Registrars
    BY HandlersDistinct
<1>3. p \in Packages
    BY <1>1, RemovingRuns
<1>4. Whole(p) \/ dir[p] = {}
    BY <1>1, <1>3 DEF PlacesInv, WholeOrGone, Adding, Removing
<1>5. CASE GoesOn(t)
  <2>1. req'[t].rpc = "StartMenuLink"
    BY <1>1, <1>2, <1>5, GoesOnFields, RemoveHandlersNext
  <2>2. MountedForRemoval(t)'
    BY <2>1 DEF MountedForRemoval, Mounted
  <2> QED
    BY <1>1, <1>2, <1>5, <2>2, QuietRemovalKeys
<1>6. CASE "manifest" \notin dir[p] /\ RemovalReturns(t, "failed")
  <2>1. dir[p] = {}
    BY <1>3, <1>4, <1>6, EmptyOrRoot
  <2> QED
    BY <1>1, <1>6, <2>1, ReturnsKeys
<1> QED
    BY <1>5, <1>6 DEF ReadManifest

LEMMA PrepareForRemoveKeys ==
    ASSUME LateFaults, DeployInv, ReportInv, NEW t \in Threads, PlacesInv(t), KeysInv(t),
           PrepareForRemove(t)
    PROVE  KeysInv(t)'
<1> DEFINE h == "PrepareDevirtualizedRegistry"
<1>1. /\ ReqInv /\ dir' = dir /\ reg' = reg /\ GoesOn(t) /\ Removing(t, h)
      /\ hive \in [Packages -> {Free, Stray} \cup (Threads \X {"add", "remove"})]
    BY DEF DeployInv, MachineTypeOK, MountsOK, PrepareForRemove
<1>2. h \in KeysOf(RemoveHandlers) \ {"Extractor"} /\ h \notin Registrars
    BY HandlersDistinct
<1>3. PICK p \in Packages : p = req[t].rem
    BY <1>1, RemovingRuns
<1>4. hive[p] = Free
    BY <1>1, <1>3 DEF PlacesInv, Mounts, Removing, Mounted
<1>5. Whole(p)
    BY <1>1, <1>3 DEF PlacesInv, Handled, Removing
<1>6. HiveKeys[p] # <<>> => "registry.dat" \in dir[p]
    BY <1>5, ContentsFacts DEF Whole
<1>7. ~MayFailToRemove(t)
    BY DEF LateFaults, MayFailToRemove
<1>8. HiveKeys[p] # <<>> => hive'[p] = <<t, "remove">>
    BY <1>1, <1>3, <1>4, <1>6, <1>7 DEF PrepareForRemove
<1>9. req'[t].rem = p
    BY <1>1, <1>2, <1>3, GoesOnFields
<1>10. MountedForRemoval(t)'
    BY <1>8, <1>9 DEF MountedForRemoval
<1> QED
    BY <1>1, <1>2, <1>10, QuietRemovalKeys

LEMMA RemoveVfsFilesKeys ==
    ASSUME DeployInv, NEW t \in Threads, KeysInv(t), RemoveVfsFiles(t)
    PROVE  KeysInv(t)'
<1> DEFINE h == "VirtualFileHandler"
<1>1. ReqInv /\ dir' = dir /\ hive' = hive /\ reg' = reg /\ Removing(t, h)
    BY DEF DeployInv, RemoveVfsFiles
<1>2. h \in KeysOf(RemoveHandlers) \ {"Extractor"} /\ h \notin Registrars
    BY HandlersDistinct
<1>3. CASE req' = req
  <2>1. \A p \in Packages : Settled(p)'
    BY <1>1, SettledSame DEF KeysInv
  <2>2. \A p \in Packages : Kept(p) => Kept(p)'
    BY <1>1 DEF Kept, InPlace, Contested
  <2>3. KeptKeys(t)'
    BY <1>1, <1>3, <2>2 DEF KeysInv, KeptKeys, Whole, Active, Fresh
  <2>4. MountedForRemoval(t)' /\ LeftKeys(t)'
    BY <1>1, <1>3 DEF KeysInv, MountedForRemoval, LeftKeys, Active, InPlace, Leftover,
                      PassesOver, HasFTA
  <2> QED
    BY <2>1, <2>3, <2>4 DEF KeysInv
<1>4. CASE GoesOn(t)
  <2>1. /\ req'[t].hr = "pending" /\ req'[t].rem = req[t].rem
    BY <1>1, <1>2, <1>4, GoesOnFields
  <2>2. MountedForRemoval(t)'
    BY <1>1, <2>1 DEF KeysInv, MountedForRemoval, Removing, Mounted
  <2> QED
    BY <1>1, <1>2, <1>4, <2>2, QuietRemovalKeys
<1> QED
    BY <1>3, <1>4 DEF RemoveVfsFiles

LEMMA RemoveRegistryKeys ==
    ASSUME LateFaults, KeysApart, DeployInv, NEW t \in Threads, PlacesInv(t), KeysInv(t),
           RemoveDevirtualizedRegistry(t)
    PROVE  KeysInv(t)'
<1> DEFINE h == "WriteDevirtualizedRegistry"
<1>1. /\ ReqInv /\ dir' = dir /\ GoesOn(t) /\ Removing(t, h)
    BY DEF DeployInv, RemoveDevirtualizedRegistry
<1>2. h \in KeysOf(RemoveHandlers) \ {"Extractor"} /\ h \notin Registrars
    BY HandlersDistinct
<1>3. PICK p \in Packages : p = req[t].rem
    BY <1>1, RemovingRuns
<1> DEFINE D == KeysOf(HiveKeys[p])
<1>4. dir[p] # {} /\ OneDirectory
    BY <1>1, <1>3 DEF PlacesInv, Handled, Whole, Removing
<1>5. HiveKeys[p] # <<>> => hive[p] = <<t, "remove">>
    BY <1>1, <1>3 DEF KeysInv, MountedForRemoval, Mounted, Removing
<1>6. D \subseteq AllKeys(p) /\ AllKeys(p) \subseteq Keys
    BY KeySets
<1>7. HiveDeletable(p) \subseteq D /\ D \ Leftover(p) \subseteq SurelyDeleted(p)
    BY DEF HiveDeletable, SurelyDeleted, Leftover
<1>8. HiveKeys[p] = <<>> => D = {}
    BY DEF KeysOf
<1> HIDE DEF D
<1>9. ~MayFailToRemove(t)
    BY DEF MayFailToRemove, LateFaults
<1>10. \/ D = {} /\ reg' = reg
       \/ \E S \in SUBSET HiveDeletable(p) : SurelyDeleted(p) \subseteq S /\ reg' = Deleted(S)
    BY <1>3, <1>5, <1>8, <1>9 DEF RemoveDevirtualizedRegistry
<1>11. \A k \in Keys : /\ k \notin D => reg'[k] = reg[k]
                       /\ reg'[k] = reg[k] \/ reg'[k] = NoEntry
                       /\ k \in D \ Leftover(p) => reg'[k] = NoEntry
  <2>1. CASE D = {} /\ reg' = reg
    BY <2>1
  <2>2. CASE \E S \in SUBSET HiveDeletable(p) :
                SurelyDeleted(p) \subseteq S /\ reg' = Deleted(S)
    <3>1. PICK S \in SUBSET HiveDeletable(p) :
             SurelyDeleted(p) \subseteq S /\ reg' = Deleted(S)
      BY <2>2
    <3>2. S \subseteq D /\ D \ Leftover(p) \subseteq S
      BY <1>7, <3>1
    <3> QED
      BY <3>1, <3>2 DEF Deleted
  <2> QED
    BY <1>10, <2>1, <2>2
<1>12. ASSUME NEW k \in Keys, NEW q \in Packages, reg'[k] = [owner |-> q, whole |-> TRUE]
       PROVE  InPlace(q, k)
    BY <1>11, <1>12, EntryFacts DEF InPlace
<1>13. ASSUME NEW k \in Keys \ Leftover(p), InPlace(p, k)' PROVE InPlace(p, k) /\ k \notin D
  <2>1. InPlace(p, k)
    BY <1>12, <1>13 DEF InPlace
  <2>2. k \notin D
    BY <1>11, <1>13, EntryFacts DEF InPlace
  <2> QED
    BY <2>1, <2>2
<1>14. Settled(p)'
  <2>1. \A f \in StopAtMissing : KeysOf(HandlerKeys(f, p)) \cap D = {}
    BY DEF KeysApart, D
  <2> QED
    BY <1>1, <1>4, <1>11, <1>13, <2>1, DeletedSettled DEF KeysInv
<1>15. ASSUME NEW q \in Packages, q # p
       PROVE  Settled(q)' /\ (Whole(q) /\ Kept(q) => Kept(q)')
  <2>1. \A k \in Keys : k \notin AllKeys(p) => reg'[k] = reg[k]
    BY <1>6, <1>11
  <2>2. Settled(q) /\ (Whole(q) => dir[q] # {})
    BY DEF KeysInv, Whole
  <2> QED
    BY <1>1, <1>4, <1>12, <1>15, <2>1, <2>2, OthersKeep
<1>16. MountedForRemoval(t)'
  <2>1. req'[t].rpc = "Extractor"
    BY <1>1, <1>2, GoesOnFields, RemoveHandlersNext
  <2> QED
    BY <2>1 DEF MountedForRemoval, Mounted
<1>17. \A q \in Packages : Settled(q)'
    BY <1>14, <1>15
<1>18. \A k \in Keys \ Leftover(p) : InPlace(p, k)' =>
          /\ InPlace(p, k)
          /\ h \in Registrars => k \notin KeysOf(HandlerKeys(h, p))
          /\ h = "WriteDevirtualizedRegistry" => k \notin KeysOf(HiveKeys[p])
    BY <1>2, <1>13 DEF D
<1> QED
    BY <1>1, <1>2, <1>3, <1>15, <1>16, <1>17, <1>18, RemovalKeys

\* The directory goes last: none of its keys is left but those no removal finds.
LEMMA RemoveDirectoryKeys ==
    ASSUME LateFaults, DeployInv, NEW t \in Threads, PlacesInv(t), KeysInv(t), RemoveDirectory(t)
    PROVE  KeysInv(t)'
<1>1. PICK p \in Packages : p = req[t].rem
    BY RemoveDirectoryDoes
<1>2. /\ \A q \in Packages : dir'[q] = IF q = p THEN {} ELSE dir[q]
      /\ Active(t) /\ req[t].rem # NoPkg /\ req[t].rpc = "Extractor" /\ reg' = reg
      /\ req'[t].hr = "pending" /\ req'[t].rem = p /\ req'[t].rpc = "done"
    BY <1>1, RemoveDirectoryDoes DEF Removing
<1>3. \A k \in Keys \ Leftover(p) : ~InPlace(p, k)
  <2>1. Rank(req[t].rpc) = 15 /\ \A h \in Registrars : RemoveRank[h] \in {2, 3} \cup 5..12
    BY <1>2, RemoveRanks
  <2>2. \A k \in Keys : ~LeftFor(p, k, 15)
    BY <2>1 DEF LeftFor
  <2> QED
    BY <1>1, <1>2, <2>1, <2>2 DEF KeysInv, LeftKeys
<1>4. ASSUME NEW q \in Packages PROVE Settled(q)'
  <2>1. dir'[q] = {} => dir[q] = {} \/ \A k \in Keys \ Leftover(q) : ~InPlace(q, k)
    BY <1>2, <1>3
  <2> QED
    BY <1>2, <2>1, SettledSame DEF KeysInv
<1>5. KeptKeys(t)'
  <2> SUFFICES ASSUME NEW q \in Packages, q # p, Whole(q)' PROVE Kept(q)'
    BY <1>2 DEF KeptKeys, Active
  <2>1. Whole(q)
    BY <1>2 DEF Whole
  <2>2. Kept(q)
    BY <1>1, <1>2, <2>1 DEF KeysInv, KeptKeys, Fresh
  <2> QED
    BY <1>2, <2>2 DEF Kept, InPlace, Contested
<1>6. MountedForRemoval(t)'
    BY <1>1, <1>2 DEF MountedForRemoval, Mounted
<1>7. LeftKeys(t)'
    BY <1>2, <1>3 DEF LeftKeys, InPlace, Leftover, PassesOver, HasFTA
<1> QED
    BY <1>4, <1>5, <1>6, <1>7 DEF KeysInv

LEMMA ReturnFromRemoveKeys ==
    ASSUME DeployInv, NEW t \in Threads, PlacesInv(t), KeysInv(t), ReturnFromRemove(t)
    PROVE  KeysInv(t)'
<1>1. /\ ReqInv /\ dir' = dir /\ reg' = reg /\ Removing(t, "done") /\ RemovalReturns(t, "ok")
    BY DEF DeployInv, ReturnFromRemove
<1>2. dir[req[t].rem] = {}
    BY <1>1 DEF PlacesInv, Handled, Removing
<1> QED
    BY <1>1, <1>2, ReturnsKeys

-----------------------------------------------------------------------------
(***************************************************************************)
(* The inductive invariant of the registry.                                *)
(***************************************************************************)
SafeInv == LateInv /\ \A t \in Threads : KeysInv(t)

LEMMA SafeInit == Init => SafeInv
<1> SUFFICES ASSUME Init PROVE SafeInv
    OBVIOUS
<1>1. ASSUME NEW t \in Threads PROVE KeysInv(t)
  <2>1. /\ req[t].hr = "ok" /\ \A p \in Packages : dir[p] = {}
        /\ \A k \in Keys : reg[k] = NoEntry
    BY DEF Init, NoRequest, RegInit
  <2>2. \A p \in Packages : Settled(p) /\ ~Whole(p)
    BY <2>1, EntryFacts DEF Settled, InPlace, Whole
  <2>3. KeptKeys(t) /\ MountedForRemoval(t) /\ LeftKeys(t)
    BY <2>1, <2>2 DEF KeptKeys, MountedForRemoval, LeftKeys, Active
  <2> QED
    BY <2>2, <2>3 DEF KeysInv
<1> QED
    BY <1>1, LateInit DEF SafeInv

LEMMA StepKeys ==
    ASSUME LateFaults, KeysApart, DeployInv, ReportInv, NEW t \in Threads, PlacesInv(t),
           FilesInv(t), KeysInv(t), Step(t) \/ ScriptEnds(t)
    PROVE  KeysInv(t)'
BY ValidateKeys, ProcessPotentialUpdateKeys, ExtractorStepKeys, PrepareKeys,
   CopyVfsFilesKeys, WriteKeys, PSFScriptExecuterKeys, RegisterKeys, InstallCompleteKeys,
   ReadManifestKeys, UnregisterKeys, PrepareForRemoveKeys, RemoveVfsFilesKeys,
   RemoveRegistryKeys, RemoveDirectoryKeys, ReturnFromRemoveKeys DEF Step

LEMMA SafeNext == LateFaults /\ KeysApart /\ SafeInv /\ [Next]_vars => SafeInv'
<1> SUFFICES ASSUME LateFaults, KeysApart, SafeInv, [Next]_vars PROVE SafeInv'
    OBVIOUS
<1>1. LateInv'
    BY LateNext DEF SafeInv
<1>2. ASSUME NEW t \in Threads PROVE KeysInv(t)'
  <2>1. DeployInv /\ ReportInv /\ PlacesInv(t) /\ FilesInv(t) /\ KeysInv(t)
    BY DEF SafeInv, LateInv
  <2>2. CASE UNCHANGED vars
    <3>1. UNCHANGED <<dir, hive, req, reg>>
      BY <2>2 DEF vars
    <3>2. \A p \in Packages : Settled(p)'
      BY <2>1, <3>1, SettledSame DEF KeysInv
    <3>3. \A p \in Packages : Kept(p) => Kept(p)'
      BY <3>1 DEF Kept, InPlace, Contested
    <3>4. KeptKeys(t)'
      BY <2>1, <3>1, <3>3 DEF KeysInv, KeptKeys, Whole, Active, Fresh
    <3>5. MountedForRemoval(t)' /\ LeftKeys(t)'
      BY <2>1, <3>1 DEF KeysInv, MountedForRemoval, LeftKeys, Active, InPlace, Leftover,
                        PassesOver, HasFTA
    <3> QED
      BY <3>2, <3>4, <3>5 DEF KeysInv
  <2>3. CASE Next
    <3>1. \/ \E op \in {"add", "remove"}, p \in Packages : Start(t, op, p)
          \/ CancelRequest(t)
          \/ Step(t) \/ ScriptEnds(t)
      BY <2>3 DEF Next, LateFaults, OneThread, Crash
    <3> QED
      BY <2>1, <3>1, StartKeys, CancelKeys, StepKeys
  <2> QED
    BY <2>2, <2>3
<1> QED
    BY <1>1, <1>2 DEF SafeInv

(***************************************************************************)
(* Between requests a package is there with all its files and all the      *)
(* registrations that no other family writes, or it is gone with its files *)
(* and nothing in the registry is its own but the Leftover that no removal *)
(* deletes, whatever handler failed after the VFS files were in place and  *)
(* wherever the user cancelled after the extraction (ErrorHandler and the  *)
(* handlers' ExecuteForRemoveRequest).  One thread, no kill, no failing    *)
(* removal (remove_all included), no refused unload (LateFaults); tasks    *)
(* and firewall rules that are one package's own (KeysApart).  Keys of     *)
(* registry.dat that other families or handlers write too, that have a     *)
(* token in their name or cannot be created are not excluded.              *)
(***************************************************************************)
THEOREM DeployAllOrNothing == LateFaults /\ KeysApart /\ Spec => []AllOrNothing
<1>1. ASSUME LateFaults, SafeInv PROVE AllOrNothing
  <2> SUFFICES ASSUME AtRest, NEW p \in Packages
               PROVE  \/ /\ Whole(p)
                         /\ \A k \in SureKeys(p) :
                               \/ reg[k] = [owner |-> p, whole |-> TRUE]
                               \/ \E q \in Packages : /\ Family[q] # Family[p]
                                                      /\ k \in AllKeys(q)
                      \/ /\ dir[p] = {}
                         /\ \A k \in Keys \ Leftover(p) :
                               reg[k] # [owner |-> p, whole |-> TRUE]
    BY DEF AllOrNothing
  <2>1. PICK t \in Threads : ~Active(t) /\ PlacesInv(t) /\ KeysInv(t)
    BY <1>1 DEF SafeInv, LateInv, LateFaults, AtRest
  <2>2. CASE Whole(p)
    <3>1. Kept(p)
      BY <2>1, <2>2 DEF KeysInv, KeptKeys, Fresh
    <3> QED
      BY <2>2, <3>1 DEF Kept, InPlace, Contested
  <2>3. CASE dir[p] = {}
    BY <2>1, <2>3 DEF KeysInv, Settled, Findable, InPlace
  <2>4. Whole(p) \/ dir[p] = {}
    BY <2>1 DEF PlacesInv, WholeOrGone, Adding
  <2> QED
    BY <2>2, <2>3, <2>4
<1>2. ASSUME LateFaults, KeysApart PROVE Spec => []AllOrNothing
  <2>1. SafeInv => AllOrNothing
    BY <1>1, <1>2
  <2>2. SafeInv /\ [Next]_vars => SafeInv'
    BY <1>2, SafeNext
  <2> QED
    BY <2>1, <2>2, SafeInit, PTL DEF Spec
<1> QED
    BY <1>2

=============================================================================
