---------------------------- MODULE BundleWriter ----------------------------
(***************************************************************************)
(* The writer of flat bundles: AppxBundleWriter, the BundleWriterHelper and*)
(* BundleValidationHelper that decide which packages may be in one bundle, *)
(* and the BundleManifestWriter that lists them.                           *)
(*                                                                         *)
(* A package is a record of what its manifest says: file (its name in the  *)
(* bundle), kind, family (name and publisher), neutral (is its architecture*)
(* neutral?), tdfs (its target device families; `old' if Windows, and from *)
(* 10.0.17763.0 or before), resourceId, apps (does it pass                 *)
(* ValidateApplicationElement?), main (the families of its main package    *)
(* dependencies) and resources (has it any?).                              *)
(*                                                                         *)
(* `helper' is the BundleWriterHelper with its BundleValidationHelper.  The*)
(* validations change it as they go and throw: what was changed before the *)
(* throw stays changed.  An outcome is [ok, helper].                       *)
(***************************************************************************)
EXTENDS Integers, Sequences, FiniteSets

CONSTANTS
    Package,              \* the packages callers add
    MaxNumberOfPackages,  \* MaxNumberOfPackages (10000)
    MaxBatch,             \* bound on the files of one Process... call
    Null                  \* "no value"

IsSequence(s) == s \in Seq({s[i] : i \in DOMAIN s})

ASSUME BundleAssumption ==
    /\ MaxNumberOfPackages \in Nat \ {0}
    /\ \A p \in Package :
          /\ p.kind \in {"application", "resource", "framework"}
          /\ {p.neutral, p.apps, p.resources} \subseteq BOOLEAN
          /\ p.family # Null
          /\ IsSequence(p.tdfs) /\ \A i \in DOMAIN p.tdfs : p.tdfs[i].old \in BOOLEAN
          /\ IsSequence(p.main) /\ \A i \in DOMAIN p.main : p.main[i] # Null

VARIABLES
    writerState,   \* m_state
    helper,        \* m_bundleWriterHelper
    call,          \* the call of several steps that runs
    batch,         \* the files the call has still to add
    manifest,      \* the bundle manifest: its namespace, its identity and its Package
                   \* and OptionalBundle elements, each with the elements open around it
    open,          \* the XML elements that are open
    manifestState, \* BundleManifestWriter::currentState
    parts          \* the files written to the archive

bundleVars == <<writerState, helper, call, batch, manifest, open, manifestState, parts>>

Idle == call = "none"

BundleInit ==
    /\ writerState = "Open"
    /\ helper = [added |-> 0, neutral |-> 0, neutralTdfs |-> {}, targetsRs5OrLess |-> FALSE,
                 containsApp |-> FALSE, fileNames |-> {}, resourceIds |-> {}, main |-> Null,
                 payload |-> <<>>, optional |-> [f \in {} |-> <<>>],
                 external |-> FALSE, default |-> FALSE]
    /\ call = "none"
    /\ batch = {}
    /\ manifest = Null
    /\ open = <<>>
    /\ manifestState = "Uninitialized"
    /\ parts = <<>>

-----------------------------------------------------------------------------
(* Validation.                                                             *)

Ok(h) == [ok |-> TRUE, helper |-> h]
Refused(h) == [ok |-> FALSE, helper |-> h]

\* The next validation runs only if none has thrown.
Then(outcome, next) == IF outcome.ok THEN next ELSE outcome

Check(h, condition) == IF condition THEN Ok(h) ELSE Refused(h)

\* Framework packages have no place in a bundle.
GetPayloadPackageType(h, p) == Check(h, p.kind # "framework")

\* The file name goes into the map of names only if that map is not empty.
FileNameChecked(h, p) ==
    IF h.fileNames = {} THEN Ok(h)
    ELSE [ok |-> p.file \notin h.fileNames,
          helper |-> [h EXCEPT !.fileNames = @ \cup {p.file}]]

TypeChecked(h, p) ==
    IF p.kind = "application" THEN Ok([h EXCEPT !.containsApp = TRUE])
    ELSE [ok |-> p.resourceId \notin h.resourceIds,
          helper |-> [h EXCEPT !.resourceIds = @ \cup {p.resourceId}]]

Counted(h) == [h EXCEPT !.added = @ + 1]

\* Mutant: one package too many.
MutValidationAddPackage(h, p) ==
    LET limited == Check(h, h.added <= MaxNumberOfPackages)
        named == Then(limited, FileNameChecked(limited.helper, p))
        typed == Then(named, TypeChecked(named.helper, p))
    IN  Then(typed, Ok(Counted(typed.helper)))

\* BundleValidationHelper::AddPackage
ValidationAddPackage(h, p) ==
    LET limited == Check(h, h.added < MaxNumberOfPackages)
        named == Then(limited, FileNameChecked(limited.helper, p))
        typed == Then(named, TypeChecked(named.helper, p))
    IN  Then(typed, Ok(Counted(typed.helper)))

\* ValidateNameAndPublisher, and its counterpart for optional packages.
ValidateFamily(h, family) ==
    IF h.main = Null THEN Ok([h EXCEPT !.main = family]) ELSE Check(h, h.main = family)

\* Mutant: only the last device family is compared.
MutSeenTdfs(h, p) == Len(p.tdfs)

\* How many target device families the loop visits: it stops at the first one
\* that a neutral package has already.
SeenTdfs(h, p) ==
    LET Clash(i) == /\ p.neutral
                    /\ \/ p.tdfs[i].name \in h.neutralTdfs
                       \/ \E j \in 1..(i - 1) : p.tdfs[j].name = p.tdfs[i].name
    IN  IF \E i \in 1..Len(p.tdfs) : Clash(i)
        THEN CHOOSE i \in 1..Len(p.tdfs) : Clash(i) /\ \A j \in 1..(i - 1) : ~Clash(j)
        ELSE Len(p.tdfs)

TdfNames(p) == {p.tdfs[i].name : i \in 1..Len(p.tdfs)}

\* ValidateTargetDeviceFamiliesFromManifestPackageId
ValidateTargetDeviceFamilies(h, p) ==
    LET seen == SeenTdfs(h, p)
        clash == /\ p.neutral
                 /\ seen > 0
                 /\ \/ p.tdfs[seen].name \in h.neutralTdfs
                    \/ \E j \in 1..(seen - 1) : p.tdfs[j].name = p.tdfs[seen].name
    IN  [ok |-> ~clash,
         helper |-> [h EXCEPT
             !.neutral = IF p.neutral THEN @ + 1 ELSE @,
             !.targetsRs5OrLess = @ \/ \E i \in 1..seen : p.tdfs[i].old,
             !.neutralTdfs = IF p.neutral THEN @ \cup {p.tdfs[i].name : i \in 1..seen} ELSE @]]

\* The flags AddPackageInfoToVector sets: the offset of a reference is 0.
InfoAdded(h, p, isDefault) ==
    [h EXCEPT !.external = TRUE, !.default = @ \/ isDefault \/ ~p.resources]

PayloadAdded(h, p) == [h EXCEPT !.payload = Append(@, p)]

\* BundleWriterHelper::AddPackage.  ValidateOSVersion passes every package:
\* GetTargetDeviceFamilies does not fail.
HelperAddPackage(h, p, isDefault) ==
    LET type == GetPayloadPackageType(h, p)
        counted == Then(type, ValidationAddPackage(type.helper, p))
        family == Then(counted, ValidateFamily(counted.helper, p.family))
        apps == Then(family, Check(family.helper, p.kind = "application" => p.apps))
        tdfs == IF p.kind = "application"
                THEN Then(apps, ValidateTargetDeviceFamilies(apps.helper, p)) ELSE apps
    IN  Then(tdfs, Ok(PayloadAdded(InfoAdded(tdfs.helper, p, isDefault), p)))

\* The family of an optional package gets a bundle of its own.
OptionalBundleAdded(h, family) ==
    [h EXCEPT !.optional = [f \in DOMAIN @ \cup {family} |-> IF f \in DOMAIN @ THEN @[f] ELSE <<>>]]

OptionalAdded(h, p) == [h EXCEPT !.optional[p.family] = Append(@, p)]

\* AddExternalPackageReferenceFromManifest: an optional package, kept with the
\* others of its family.
HelperAddExternal(h, p, isDefault) ==
    LET hasMain == Check(h, p.main # <<>>)
        main == Then(hasMain, ValidateFamily(hasMain.helper, p.main[1]))
        oneMain == Then(main, Check(main.helper, Len(p.main) = 1))
        bundle == Then(oneMain, Ok(OptionalBundleAdded(oneMain.helper, p.family)))
        type == Then(bundle, GetPayloadPackageType(bundle.helper, p))
        counted == Then(type, ValidationAddPackage(type.helper, p))
        apps == Then(counted, Check(counted.helper, p.kind = "application" => p.apps))
    IN  Then(apps, Ok(OptionalAdded(InfoAdded(apps.helper, p, isDefault), p)))

-----------------------------------------------------------------------------
(* Adding packages.                                                        *)

\* Neither call looks at m_state, and a failure does not change it.
AddPackageReference(p, isDefault) ==
    /\ Idle
    /\ helper' = HelperAddPackage(helper, p, isDefault).helper
    /\ UNCHANGED <<writerState, call, batch, manifest, open, manifestState, parts>>

AddExternalPackageReference(p, isDefault) ==
    /\ Idle
    /\ helper' = HelperAddExternal(helper, p, isDefault).helper
    /\ UNCHANGED <<writerState, call, batch, manifest, open, manifestState, parts>>

\* ProcessBundlePayload and ProcessBundlePayloadFromMappingFile; without the
\* flat option, and for footprint files, they add nothing.
ProcessBundlePayload(files) ==
    /\ Idle
    /\ writerState = "Open"
    /\ call' = "payload"
    /\ batch' = files
    /\ UNCHANGED <<writerState, helper, manifest, open, manifestState, parts>>

\* ProcessExternalPackages: it looks at no state and leaves it as it is.
ProcessExternalPackages(files) ==
    /\ Idle
    /\ call' = "external"
    /\ batch' = files
    /\ UNCHANGED <<writerState, helper, manifest, open, manifestState, parts>>

\* Packages are added one by one, the first failure ends the call, and that of
\* the payload the writer too.
ProcessNext(p) ==
    LET outcome == IF call = "payload" THEN HelperAddPackage(helper, p, FALSE)
                                       ELSE HelperAddExternal(helper, p, FALSE)
    IN  /\ call \in {"payload", "external"}
        /\ p \in batch
        /\ helper' = outcome.helper
        /\ IF outcome.ok
           THEN batch' = batch \ {p} /\ UNCHANGED <<writerState, call>>
           ELSE /\ batch' = {}
                /\ call' = "none"
                /\ writerState' = IF call = "payload" THEN "Failed" ELSE writerState
        /\ UNCHANGED <<manifest, open, manifestState, parts>>

\* A file that cannot be opened as a package.
ProcessUnreadable ==
    /\ call \in {"payload", "external"}
    /\ batch # {}
    /\ batch' = {}
    /\ call' = "none"
    /\ writerState' = IF call = "payload" THEN "Failed" ELSE writerState
    /\ UNCHANGED <<helper, manifest, open, manifestState, parts>>

ProcessEnd ==
    /\ call \in {"payload", "external"}
    /\ batch = {}
    /\ call' = "none"
    /\ UNCHANGED <<writerState, helper, batch, manifest, open, manifestState, parts>>

-----------------------------------------------------------------------------
(* Close.                                                                  *)

Fail ==
    /\ writerState' = "Failed"
    /\ call' = "none"
    /\ UNCHANGED <<helper, batch, parts>>

\* ValidateContainsMultipleNeutralAppPackages; more than one neutral package
\* selects the 2018 schema.
NeutralAllowed(h) == h.neutral <= 1 \/ ~h.targetsRs5OrLess

TargetXmlNamespace(h) ==
    CASE h.neutral > 1 -> "2018"
      [] h.neutral <= 1 /\ h.default -> "2017"
      [] h.neutral <= 1 /\ ~h.default /\ (DOMAIN h.optional # {} \/ h.external) -> "2016"
      [] OTHER -> "2013"

\* Close up to StartBundleManifest.
Close ==
    /\ Idle
    /\ writerState = "Open"
    /\ IF helper.containsApp /\ NeutralAllowed(helper)
       THEN /\ call' = "close"
            /\ manifest' = [namespace |-> TargetXmlNamespace(helper), identity |-> helper.main,
                            packages |-> <<>>, bundles |-> <<>>]
            /\ open' = <<"Bundle", "Packages">>
            /\ manifestState' = "BundleManifestStarted"
            /\ UNCHANGED <<writerState, helper, batch, parts>>
       ELSE Fail /\ UNCHANGED <<manifest, open, manifestState>>

WritingManifest == call = "close" /\ manifestState # "BundleManifestEnded"

WritePackageElement(p) ==
    manifest' = [manifest EXCEPT !.packages = Append(@, [in |-> open, package |-> p])]

ManifestAddPackage ==
    /\ WritingManifest
    /\ Len(manifest.packages) < Len(helper.payload)
    /\ WritePackageElement(helper.payload[Len(manifest.packages) + 1])
    /\ manifestState' = "PackagesAdded"
    /\ UNCHANGED <<writerState, helper, call, batch, open, parts>>

\* EndPackagesElementIfNecessary
EndPackagesElement ==
    IF manifestState = "PackagesAdded" THEN SubSeq(open, 1, Len(open) - 1) ELSE open

OptionalWritten == {manifest.bundles[i].family : i \in 1..Len(manifest.bundles)}

WriteOptionalBundleElement(in, family) ==
    manifest' = [manifest EXCEPT !.bundles =
                    Append(@, [in |-> in, family |-> family, packages |-> helper.optional[family]])]

\* Mutant: the Packages element is closed after the optional bundles.
MutManifestAddOptionalBundle(family) ==
    /\ WritingManifest
    /\ Len(manifest.packages) = Len(helper.payload)
    /\ family \in DOMAIN helper.optional \ OptionalWritten
    /\ WriteOptionalBundleElement(open, family)
    /\ UNCHANGED <<writerState, helper, call, batch, open, manifestState, parts>>

ManifestAddOptionalBundle(family) ==
    /\ WritingManifest
    /\ Len(manifest.packages) = Len(helper.payload)
    /\ family \in DOMAIN helper.optional \ OptionalWritten
    /\ open' = EndPackagesElement
    /\ WriteOptionalBundleElement(EndPackagesElement, family)
    /\ manifestState' = "OptionalBundlesAdded"
    /\ UNCHANGED <<writerState, helper, call, batch, parts>>

\* EndBundleManifest, and GetBundleManifestStream, which throws unless every
\* element is closed.
ManifestEnd ==
    /\ WritingManifest
    /\ Len(manifest.packages) = Len(helper.payload)
    /\ OptionalWritten = DOMAIN helper.optional
    /\ open' = SubSeq(EndPackagesElement, 1, Len(EndPackagesElement) - 1)
    /\ manifestState' = "BundleManifestEnded"
    /\ IF open' = <<>> THEN UNCHANGED <<writerState, helper, call, batch, parts>> ELSE Fail
    /\ UNCHANGED manifest

Part == <<"AppxBundleManifest.xml", "AppxBlockMap.xml", "[Content_Types].xml">>

\* AddFileToPackage of the next footprint file.
AddPart ==
    /\ call = "close"
    /\ manifestState = "BundleManifestEnded"
    /\ Len(parts) < Len(Part)
    /\ parts' = Append(parts, Part[Len(parts) + 1])
    /\ UNCHANGED <<writerState, helper, call, batch, manifest, open, manifestState>>

\* Writing the manifest (an optional bundle without a name or a publisher is
\* refused), a footprint file or the directory of the archive fails.
CloseFails ==
    /\ call = "close"
    /\ Fail
    /\ UNCHANGED <<manifest, open, manifestState>>

CloseEnd ==
    /\ call = "close"
    /\ parts = Part
    /\ call' = "none"
    /\ writerState' = "Closed"
    /\ UNCHANGED <<helper, batch, manifest, open, manifestState, parts>>

-----------------------------------------------------------------------------
BundleNext ==
    \/ \E p \in Package, isDefault \in BOOLEAN : AddPackageReference(p, isDefault)
    \/ \E p \in Package, isDefault \in BOOLEAN : AddExternalPackageReference(p, isDefault)
    \/ \E files \in SUBSET Package :
          /\ Cardinality(files) <= MaxBatch
          /\ ProcessBundlePayload(files) \/ ProcessExternalPackages(files)
    \/ \E p \in batch : ProcessNext(p)
    \/ ProcessUnreadable
    \/ ProcessEnd
    \/ Close
    \/ ManifestAddPackage
    \/ \E family \in DOMAIN helper.optional : ManifestAddOptionalBundle(family)
    \/ ManifestEnd
    \/ AddPart
    \/ CloseFails
    \/ CloseEnd

BundleSpec == BundleInit /\ [][BundleNext]_bundleVars

-----------------------------------------------------------------------------
(* Properties.                                                             *)

\* The packages a manifest lists, in Packages and in its optional bundles.
ListedPackages == {manifest.packages[i].package : i \in 1..Len(manifest.packages)}

ListedOptional ==
    UNION {{manifest.bundles[i].packages[j] : j \in 1..Len(manifest.bundles[i].packages)} :
              i \in 1..Len(manifest.bundles)}

Neutral(p) == p.kind = "application" /\ p.neutral

\* The types of the writer's variables.
BundleTypeOK ==
    /\ writerState \in {"Open", "Failed", "Closed"}
    /\ call \in {"none", "payload", "external", "close"}
    /\ batch \subseteq Package
    /\ helper.added \in 0..MaxNumberOfPackages
    /\ helper.neutral \in 0..helper.added
    /\ Len(helper.payload) <= helper.added
    /\ \A i \in 1..Len(helper.payload) : helper.payload[i] \in Package

\* A bundle that was closed holds packages of one family, optional packages of
\* that family only, no two resource packages with one resource ID, and no two
\* neutral packages for one device family, nor with a package that targets an
\* old system -- whatever was added, refused or failed before.
BundleValid ==
    writerState = "Closed" =>
        LET main == ListedPackages
            all == main \cup ListedOptional
        IN  /\ \A p \in main : p.family = manifest.identity
            /\ \A p \in ListedOptional : p.main = <<manifest.identity>>
            /\ \A p, q \in all : p.kind = "resource" /\ q.kind = "resource" /\ p # q
                                    => p.resourceId # q.resourceId
            /\ \A p, q \in main : Neutral(p) /\ Neutral(q) /\ p # q
                                    => /\ TdfNames(p) \cap TdfNames(q) = {}
                                       /\ manifest.namespace = "2018"
                                       /\ \A r \in main : r.kind = "application" =>
                                             \A i \in 1..Len(r.tdfs) : ~r.tdfs[i].old

\* The manifest that Close puts into the bundle is complete and well formed: all
\* packages added are Package elements of Packages, in the order they were
\* added, and all optional packages are in an OptionalBundle beside Packages.
ManifestShape ==
    parts # <<>> /\ call = "close" =>
        /\ manifest.packages = [i \in 1..Len(helper.payload) |->
               [in |-> <<"Bundle", "Packages">>, package |-> helper.payload[i]]]
        /\ OptionalWritten = DOMAIN helper.optional
        /\ \A i \in 1..Len(manifest.bundles) :
              /\ manifest.bundles[i].in = <<"Bundle">>
              /\ manifest.bundles[i].packages = helper.optional[manifest.bundles[i].family]

\* A bundle that was closed contains an app package.
ContainsApplication ==
    writerState = "Closed" =>
        \E p \in ListedPackages \cup ListedOptional : p.kind = "application"
=============================================================================
