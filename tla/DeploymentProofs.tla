-------------------------- MODULE DeploymentProofs --------------------------
(***************************************************************************)
(* Proofs about MsixCore's deployment pipeline.                            *)
(***************************************************************************)
EXTENDS Deployment, SequenceTheorems, TLAPS

-----------------------------------------------------------------------------
(***************************************************************************)
(* The order of the handlers.  NextHandler looks a handler up in its       *)
(* sequence; that no sequence names one twice makes the place unique.      *)
(***************************************************************************)
AddRank ==
    [PopulatePackageInfo |-> 1, ValidateArchitecture |-> 2,
     ValidateTargetDeviceFamily |-> 3, ProcessPotentialUpdate |-> 4,
     Extractor |-> 5, PrepareDevirtualizedRegistry |-> 6,
     VirtualFileHandler |-> 7, WriteDevirtualizedRegistry |-> 8,
     PSFScriptExecuter |-> 9, StartMenuLink |-> 10, AddRemovePrograms |->
     11, Protocol |-> 12, ComInterface |-> 13, ComServer |-> 14,
     StartupTask |-> 15, FileTypeAssociation |-> 16, FirewallRules |-> 17,
     AutoPlay |-> 18, AppExecutionAlias |-> 19, InstallComplete |-> 20]

RemoveRank ==
    [PopulatePackageInfo |-> 1, StartMenuLink |-> 2, AddRemovePrograms |->
     3, PrepareDevirtualizedRegistry |-> 4, Protocol |-> 5, ComInterface
     |-> 6, ComServer |-> 7, StartupTask |-> 8, FileTypeAssociation |-> 9,
     FirewallRules |-> 10, AutoPlay |-> 11, AppExecutionAlias |-> 12,
     VirtualFileHandler |-> 13, WriteDevirtualizedRegistry |-> 14,
     Extractor |-> 15]

LEMMA Successor ==
    ASSUME NEW chain, NEW rank, NEW n \in Nat, DOMAIN chain = 1..n,
           \A i \in 1..n : rank[chain[i]] = i,
           NEW k \in 1..n
    PROVE  NextHandler(chain, chain[k]) = chain[k + 1]
<1>1. \A i \in DOMAIN chain : chain[i] = chain[k] => i = k
    OBVIOUS
<1>2. (CHOOSE i \in DOMAIN chain : chain[i] = chain[k]) = k
    BY <1>1
<1> QED
    BY <1>2 DEF NextHandler

LEMMA AddHandlersRank ==
    DOMAIN AddHandlers = 1..20 /\ \A i \in 1..20 : AddRank[AddHandlers[i]] = i
<1>1. DOMAIN AddHandlers = 1..20
    BY DEF AddHandlers
<1>2. /\ AddRank[AddHandlers[1]] = 1
      /\ AddRank[AddHandlers[2]] = 2
      /\ AddRank[AddHandlers[3]] = 3
      /\ AddRank[AddHandlers[4]] = 4
      /\ AddRank[AddHandlers[5]] = 5
      /\ AddRank[AddHandlers[6]] = 6
      /\ AddRank[AddHandlers[7]] = 7
      /\ AddRank[AddHandlers[8]] = 8
      /\ AddRank[AddHandlers[9]] = 9
      /\ AddRank[AddHandlers[10]] = 10
      /\ AddRank[AddHandlers[11]] = 11
      /\ AddRank[AddHandlers[12]] = 12
      /\ AddRank[AddHandlers[13]] = 13
      /\ AddRank[AddHandlers[14]] = 14
      /\ AddRank[AddHandlers[15]] = 15
      /\ AddRank[AddHandlers[16]] = 16
      /\ AddRank[AddHandlers[17]] = 17
      /\ AddRank[AddHandlers[18]] = 18
      /\ AddRank[AddHandlers[19]] = 19
      /\ AddRank[AddHandlers[20]] = 20
    BY DEF AddHandlers, AddRank
<1>3. \A i \in 1..20 : \/ i = 1 \/ i = 2 \/ i = 3 \/ i = 4 \/ i = 5 \/ i = 6
                       \/ i = 7 \/ i = 8 \/ i = 9 \/ i = 10 \/ i = 11 \/ i = 12
                       \/ i = 13 \/ i = 14 \/ i = 15 \/ i = 16 \/ i = 17
                       \/ i = 18 \/ i = 19 \/ i = 20
    OBVIOUS
<1> QED
    BY <1>1, <1>2, <1>3

\* The handlers of the sequence, and the one after each.
LEMMA AddHandlersKeys ==
    KeysOf(AddHandlers) =
        {"PopulatePackageInfo", "ValidateArchitecture",
         "ValidateTargetDeviceFamily", "ProcessPotentialUpdate",
         "Extractor", "PrepareDevirtualizedRegistry", "VirtualFileHandler",
         "WriteDevirtualizedRegistry", "PSFScriptExecuter",
         "StartMenuLink", "AddRemovePrograms", "Protocol", "ComInterface",
         "ComServer", "StartupTask", "FileTypeAssociation",
         "FirewallRules", "AutoPlay", "AppExecutionAlias",
         "InstallComplete"}
<1>1. DOMAIN AddHandlers = 1..20
    BY AddHandlersRank
<1>2. \A i \in 1..20 : \/ i = 1 \/ i = 2 \/ i = 3 \/ i = 4 \/ i = 5 \/ i = 6
                       \/ i = 7 \/ i = 8 \/ i = 9 \/ i = 10 \/ i = 11 \/ i = 12
                       \/ i = 13 \/ i = 14 \/ i = 15 \/ i = 16 \/ i = 17
                       \/ i = 18 \/ i = 19 \/ i = 20
    OBVIOUS
<1> QED
    BY <1>1, <1>2 DEF AddHandlers, KeysOf

LEMMA AddHandlersNext ==
    /\ NextHandler(AddHandlers, "PopulatePackageInfo") = "ValidateArchitecture"
    /\ NextHandler(AddHandlers, "ValidateArchitecture") = "ValidateTargetDeviceFamily"
    /\ NextHandler(AddHandlers, "ValidateTargetDeviceFamily") = "ProcessPotentialUpdate"
    /\ NextHandler(AddHandlers, "ProcessPotentialUpdate") = "Extractor"
    /\ NextHandler(AddHandlers, "Extractor") = "PrepareDevirtualizedRegistry"
    /\ NextHandler(AddHandlers, "PrepareDevirtualizedRegistry") = "VirtualFileHandler"
    /\ NextHandler(AddHandlers, "VirtualFileHandler") = "WriteDevirtualizedRegistry"
    /\ NextHandler(AddHandlers, "WriteDevirtualizedRegistry") = "PSFScriptExecuter"
    /\ NextHandler(AddHandlers, "PSFScriptExecuter") = "StartMenuLink"
    /\ NextHandler(AddHandlers, "StartMenuLink") = "AddRemovePrograms"
    /\ NextHandler(AddHandlers, "AddRemovePrograms") = "Protocol"
    /\ NextHandler(AddHandlers, "Protocol") = "ComInterface"
    /\ NextHandler(AddHandlers, "ComInterface") = "ComServer"
    /\ NextHandler(AddHandlers, "ComServer") = "StartupTask"
    /\ NextHandler(AddHandlers, "StartupTask") = "FileTypeAssociation"
    /\ NextHandler(AddHandlers, "FileTypeAssociation") = "FirewallRules"
    /\ NextHandler(AddHandlers, "FirewallRules") = "AutoPlay"
    /\ NextHandler(AddHandlers, "AutoPlay") = "AppExecutionAlias"
    /\ NextHandler(AddHandlers, "AppExecutionAlias") = "InstallComplete"
<1>1. \A k \in 1..20 : NextHandler(AddHandlers, AddHandlers[k]) = AddHandlers[k + 1]
    BY AddHandlersRank, Successor
<1>2. /\ NextHandler(AddHandlers, AddHandlers[1]) = AddHandlers[2]
      /\ NextHandler(AddHandlers, AddHandlers[2]) = AddHandlers[3]
      /\ NextHandler(AddHandlers, AddHandlers[3]) = AddHandlers[4]
      /\ NextHandler(AddHandlers, AddHandlers[4]) = AddHandlers[5]
      /\ NextHandler(AddHandlers, AddHandlers[5]) = AddHandlers[6]
      /\ NextHandler(AddHandlers, AddHandlers[6]) = AddHandlers[7]
      /\ NextHandler(AddHandlers, AddHandlers[7]) = AddHandlers[8]
      /\ NextHandler(AddHandlers, AddHandlers[8]) = AddHandlers[9]
      /\ NextHandler(AddHandlers, AddHandlers[9]) = AddHandlers[10]
      /\ NextHandler(AddHandlers, AddHandlers[10]) = AddHandlers[11]
      /\ NextHandler(AddHandlers, AddHandlers[11]) = AddHandlers[12]
      /\ NextHandler(AddHandlers, AddHandlers[12]) = AddHandlers[13]
      /\ NextHandler(AddHandlers, AddHandlers[13]) = AddHandlers[14]
      /\ NextHandler(AddHandlers, AddHandlers[14]) = AddHandlers[15]
      /\ NextHandler(AddHandlers, AddHandlers[15]) = AddHandlers[16]
      /\ NextHandler(AddHandlers, AddHandlers[16]) = AddHandlers[17]
      /\ NextHandler(AddHandlers, AddHandlers[17]) = AddHandlers[18]
      /\ NextHandler(AddHandlers, AddHandlers[18]) = AddHandlers[19]
      /\ NextHandler(AddHandlers, AddHandlers[19]) = AddHandlers[20]
    BY <1>1
<1> QED
    BY <1>2 DEF AddHandlers

LEMMA RemoveHandlersRank ==
    DOMAIN RemoveHandlers = 1..15 /\ \A i \in 1..15 : RemoveRank[RemoveHandlers[i]] = i
<1>1. DOMAIN RemoveHandlers = 1..15
    BY DEF RemoveHandlers
<1>2. /\ RemoveRank[RemoveHandlers[1]] = 1
      /\ RemoveRank[RemoveHandlers[2]] = 2
      /\ RemoveRank[RemoveHandlers[3]] = 3
      /\ RemoveRank[RemoveHandlers[4]] = 4
      /\ RemoveRank[RemoveHandlers[5]] = 5
      /\ RemoveRank[RemoveHandlers[6]] = 6
      /\ RemoveRank[RemoveHandlers[7]] = 7
      /\ RemoveRank[RemoveHandlers[8]] = 8
      /\ RemoveRank[RemoveHandlers[9]] = 9
      /\ RemoveRank[RemoveHandlers[10]] = 10
      /\ RemoveRank[RemoveHandlers[11]] = 11
      /\ RemoveRank[RemoveHandlers[12]] = 12
      /\ RemoveRank[RemoveHandlers[13]] = 13
      /\ RemoveRank[RemoveHandlers[14]] = 14
      /\ RemoveRank[RemoveHandlers[15]] = 15
    BY DEF RemoveHandlers, RemoveRank
<1>3. \A i \in 1..15 : \/ i = 1 \/ i = 2 \/ i = 3 \/ i = 4 \/ i = 5 \/ i = 6
                       \/ i = 7 \/ i = 8 \/ i = 9 \/ i = 10 \/ i = 11 \/ i = 12
                       \/ i = 13 \/ i = 14 \/ i = 15
    OBVIOUS
<1> QED
    BY <1>1, <1>2, <1>3

\* The handlers of the sequence, and the one after each.
LEMMA RemoveHandlersKeys ==
    KeysOf(RemoveHandlers) =
        {"PopulatePackageInfo", "StartMenuLink", "AddRemovePrograms",
         "PrepareDevirtualizedRegistry", "Protocol", "ComInterface",
         "ComServer", "StartupTask", "FileTypeAssociation",
         "FirewallRules", "AutoPlay", "AppExecutionAlias",
         "VirtualFileHandler", "WriteDevirtualizedRegistry", "Extractor"}
<1>1. DOMAIN RemoveHandlers = 1..15
    BY RemoveHandlersRank
<1>2. \A i \in 1..15 : \/ i = 1 \/ i = 2 \/ i = 3 \/ i = 4 \/ i = 5 \/ i = 6
                       \/ i = 7 \/ i = 8 \/ i = 9 \/ i = 10 \/ i = 11 \/ i = 12
                       \/ i = 13 \/ i = 14 \/ i = 15
    OBVIOUS
<1> QED
    BY <1>1, <1>2 DEF RemoveHandlers, KeysOf

LEMMA RemoveHandlersNext ==
    /\ NextHandler(RemoveHandlers, "PopulatePackageInfo") = "StartMenuLink"
    /\ NextHandler(RemoveHandlers, "StartMenuLink") = "AddRemovePrograms"
    /\ NextHandler(RemoveHandlers, "AddRemovePrograms") = "PrepareDevirtualizedRegistry"
    /\ NextHandler(RemoveHandlers, "PrepareDevirtualizedRegistry") = "Protocol"
    /\ NextHandler(RemoveHandlers, "Protocol") = "ComInterface"
    /\ NextHandler(RemoveHandlers, "ComInterface") = "ComServer"
    /\ NextHandler(RemoveHandlers, "ComServer") = "StartupTask"
    /\ NextHandler(RemoveHandlers, "StartupTask") = "FileTypeAssociation"
    /\ NextHandler(RemoveHandlers, "FileTypeAssociation") = "FirewallRules"
    /\ NextHandler(RemoveHandlers, "FirewallRules") = "AutoPlay"
    /\ NextHandler(RemoveHandlers, "AutoPlay") = "AppExecutionAlias"
    /\ NextHandler(RemoveHandlers, "AppExecutionAlias") = "VirtualFileHandler"
    /\ NextHandler(RemoveHandlers, "VirtualFileHandler") = "WriteDevirtualizedRegistry"
    /\ NextHandler(RemoveHandlers, "WriteDevirtualizedRegistry") = "Extractor"
<1>1. \A k \in 1..15 : NextHandler(RemoveHandlers, RemoveHandlers[k]) = RemoveHandlers[k + 1]
    BY RemoveHandlersRank, Successor
<1>2. /\ NextHandler(RemoveHandlers, RemoveHandlers[1]) = RemoveHandlers[2]
      /\ NextHandler(RemoveHandlers, RemoveHandlers[2]) = RemoveHandlers[3]
      /\ NextHandler(RemoveHandlers, RemoveHandlers[3]) = RemoveHandlers[4]
      /\ NextHandler(RemoveHandlers, RemoveHandlers[4]) = RemoveHandlers[5]
      /\ NextHandler(RemoveHandlers, RemoveHandlers[5]) = RemoveHandlers[6]
      /\ NextHandler(RemoveHandlers, RemoveHandlers[6]) = RemoveHandlers[7]
      /\ NextHandler(RemoveHandlers, RemoveHandlers[7]) = RemoveHandlers[8]
      /\ NextHandler(RemoveHandlers, RemoveHandlers[8]) = RemoveHandlers[9]
      /\ NextHandler(RemoveHandlers, RemoveHandlers[9]) = RemoveHandlers[10]
      /\ NextHandler(RemoveHandlers, RemoveHandlers[10]) = RemoveHandlers[11]
      /\ NextHandler(RemoveHandlers, RemoveHandlers[11]) = RemoveHandlers[12]
      /\ NextHandler(RemoveHandlers, RemoveHandlers[12]) = RemoveHandlers[13]
      /\ NextHandler(RemoveHandlers, RemoveHandlers[13]) = RemoveHandlers[14]
      /\ NextHandler(RemoveHandlers, RemoveHandlers[14]) = RemoveHandlers[15]
    BY <1>1
<1> QED
    BY <1>2 DEF RemoveHandlers

-----------------------------------------------------------------------------
(***************************************************************************)
(* What a request looks like.  A running one is a removal, an add among    *)
(* its handlers, an add that removes the older version, or one that takes  *)
(* back what it did.                                                       *)
(***************************************************************************)
PlainRemoval(r) ==
    /\ r.op = "remove" /\ r.pc = "done" /\ r.rem = r.pkg
    /\ r.code = "ok" /\ r.status = "started"

TodoOK(r) ==
    /\ r.pc \in ReturnError => r.todo = 0
    /\ r.pc = "Extractor" => r.todo \in 0..Len(Contents(r.pkg))

InChain(r) ==
    /\ r.op = "add" /\ r.pc \in KeysOf(AddHandlers) /\ r.rem = NoPkg
    /\ TodoOK(r)
    /\ r.code = "ok" /\ r.status \in {"started", "extraction"}

Updating(r) ==
    /\ r.op = "add" /\ r.pc = "ProcessPotentialUpdate" /\ r.todo = 0
    /\ r.rem \in Packages
    /\ Family[r.rem] = Family[r.pkg]
    /\ Version[r.rem] < Version[r.pkg]
    /\ r.code = "ok" /\ r.status \in {"started", "extraction"}

RollingBack(r) ==
    /\ r.op = "add" /\ r.pc = "ErrorHandler" /\ r.rem = r.pkg
    /\ r.code \in {"failed", "userexit"} /\ r.status = "error"

Runs(r) ==
    /\ r.hr = "pending"
    /\ r.pkg \in Packages
    /\ PlainRemoval(r) \/ InChain(r) \/ Updating(r) \/ RollingBack(r)

Over(r) ==
    /\ r.hr # "pending"
    /\ r.hr # "killed" => /\ r.status = "error" <=> r.hr \in Errors
                          /\ r.status = "completed" => r.hr = "ok"
    /\ r.op # "none" => r.pkg \in Packages

RequestOK(r) == r \in Request /\ (Runs(r) \/ Over(r))

ReqInv == req \in [Threads -> Request] /\ \A t \in Threads : RequestOK(req[t])

(***************************************************************************)
(* Who has a registry.dat mounted: an add after                            *)
(* PrepareDevirtualizedRegistry, to its end when the unload is refused, or *)
(* a removal.                                                              *)
(***************************************************************************)
HoldingHandlers ==
    Registrars \cup {"VirtualFileHandler", "WriteDevirtualizedRegistry",
                     "PSFScriptExecuter", "InstallComplete"}

HoldsAdd(t, p) ==
    /\ Active(t)
    /\ req[t].op = "add"
    /\ req[t].pkg = p
    /\ req[t].pc \in HoldingHandlers \cup {"ErrorHandler"}

HoldsRemove(t, p) == Active(t) /\ req[t].rem = p

HiveInv ==
    \A p \in Packages, t \in Threads :
        /\ hive[p] = <<t, "add">> => HoldsAdd(t, p)
        /\ hive[p] = <<t, "remove">> => HoldsRemove(t, p)

\* Only a kill or a refused unload leaves a mount behind.
MountsOK(hives) ==
    /\ hives \in [Packages -> {Free, Stray} \cup (Threads \X {"add", "remove"})]
    /\ \A p \in Packages : hives[p] = Stray => MayCrash \/ UnloadMayFail

MachineTypeOK ==
    /\ VfsTypeOK
    /\ RegTypeOK
    /\ dir \in [Packages -> SUBSET Items]
    /\ MountsOK(hive)
    /\ requests \in 0..MaxRequests
    /\ stuck \subseteq Packages

DeployInv == MachineTypeOK /\ ReqInv /\ HiveInv

(***************************************************************************)
(* One thread: what an add has done so far, and a removal.                 *)
(***************************************************************************)
OneThread == \A t, u \in Threads : t = u

InPlace(p, k) == reg[k] = [owner |-> p, whole |-> TRUE]

\* What there can be in a directory.
DirInv ==
    \A p \in Packages : /\ dir[p] \subseteq {"root"} \cup KeysOf(Contents(p))
                        /\ dir[p] # {} => "root" \in dir[p]

Extracted(r) ==
    IF r.pc = "Extractor"
      THEN /\ r.todo > 0 => "root" \in dir[r.pkg]
           /\ \A i \in 1..(r.todo - 1) : Contents(r.pkg)[i] \in dir[r.pkg]
      ELSE AddRank[r.pc] > 5 => Whole(r.pkg)

HiveWritten(t, r) ==
    /\ /\ r.pc \in {"VirtualFileHandler", "WriteDevirtualizedRegistry"}
       /\ HiveKeys[r.pkg] # <<>>
       => hive[r.pkg] = <<t, "add">>
    /\ r.pc = "WriteDevirtualizedRegistry" =>
          /\ r.todo \in 0..Len(HiveKeys[r.pkg])
          /\ \A i \in 1..r.todo : \/ HiveKeys[r.pkg][i] \in MayNotCreate
                                 \/ InPlace(r.pkg, HiveKeys[r.pkg][i])
    /\ AddRank[r.pc] > 8 =>
          /\ \A k \in KeysOf(HiveKeys[r.pkg]) \ MayNotCreate : InPlace(r.pkg, k)
          /\ hive[r.pkg] = <<t, "add">> => UnloadMayFail

\* The keys of h that are passed over while registry.dat is still mounted.
Skipped(h, p) == PassesOver(h, p, UnloadMayFail)

KeysWritten(r) ==
    \A h \in Registrars :
        LET ks == HandlerKeys(h, r.pkg)
        IN  /\ AddRank[h] < AddRank[r.pc] =>
                  \A k \in KeysOf(ks) \ Skipped(h, r.pkg) : InPlace(r.pkg, k)
            /\ h = r.pc => /\ r.todo \in 0..Len(ks)
                           /\ \A i \in 1..r.todo :
                                 ks[i] \in Skipped(h, r.pkg) \/ InPlace(r.pkg, ks[i])

Progress(t) ==
    LET r == req[t]
    IN  Active(t) =>
          /\ InChain(r) => Extracted(r) /\ HiveWritten(t, r) /\ KeysWritten(r)
          /\ r.rem # NoPkg /\ r.rpc = "done" => dir[r.rem] = {} \/ r.left

\* What a request that is over has told its caller.
Told(t) ==
    LET r == req[t]
    IN  (~Active(t) /\ r.hr # "killed") =>
        /\ r.op = "add" /\ r.hr = "ok" =>
              Whole(r.pkg) /\ \A k \in SureKeys(r.pkg) : InPlace(r.pkg, k)
        /\ r.op = "remove" /\ r.hr = "ok" => dir[r.pkg] = {} \/ r.left
        /\ r.hr = "downgrade" =>
              \E q \in Packages \ {r.pkg} : /\ Family[q] = Family[r.pkg]
                                            /\ Version[q] >= Version[r.pkg]
                                            /\ "root" \in dir[q]

ReportInv == DirInv /\ \A t \in Threads : Progress(t) /\ Told(t)

-----------------------------------------------------------------------------
(***************************************************************************)
(* The steps of a request keep its shape.                                  *)
(***************************************************************************)
LEMMA ReqStep ==
    ASSUME ReqInv, NEW t \in Threads, NEW r, RequestOK(r), req' = [req EXCEPT ![t] = r]
    PROVE  /\ ReqInv'
           /\ req'[t] = r
           /\ \A u \in Threads : u # t => req'[u] = req[u]
BY DEF ReqInv, RequestOK

LEMMA NextAdd ==
    \A h \in KeysOf(AddHandlers) \ {"InstallComplete"} :
        NextHandler(AddHandlers, h) \in KeysOf(AddHandlers)
BY AddHandlersNext, AddHandlersKeys

LEMMA NextRemove ==
    \A h \in KeysOf(RemoveHandlers) \ {"Extractor"} :
        NextHandler(RemoveHandlers, h) \in KeysOf(RemoveHandlers)
BY RemoveHandlersNext, RemoveHandlersKeys

LEMMA HandlersDistinct ==
    /\ "ErrorHandler" \notin KeysOf(AddHandlers)
    /\ "done" \notin KeysOf(AddHandlers)
    /\ ReturnError \subseteq KeysOf(AddHandlers)
    /\ Registrars \subseteq KeysOf(AddHandlers) \ ReturnError
    /\ Registrars \subseteq KeysOf(RemoveHandlers)
    /\ {"Extractor", "PrepareDevirtualizedRegistry", "VirtualFileHandler",
        "WriteDevirtualizedRegistry", "PSFScriptExecuter", "InstallComplete"}
          \subseteq KeysOf(AddHandlers) \ (ReturnError \cup Registrars)
    /\ {"PopulatePackageInfo", "PrepareDevirtualizedRegistry", "VirtualFileHandler",
        "WriteDevirtualizedRegistry", "Extractor"}
          \subseteq KeysOf(RemoveHandlers) \ Registrars
BY AddHandlersKeys, RemoveHandlersKeys DEF ReturnError, Registrars

\* What Extractor writes.
LEMMA ContentsFacts ==
    ASSUME NEW p \in Packages
    PROVE  /\ Len(Contents(p)) \in Nat \ {0}
           /\ DOMAIN Contents(p) = 1..Len(Contents(p))
           /\ KeysOf(Contents(p)) \subseteq Items \ {"root"}
           /\ Contents(p)[1] = "manifest" /\ "blockmap" \in KeysOf(Contents(p))
           /\ "registry.dat" \in KeysOf(Contents(p)) <=> HiveKeys[p] # <<>>
<1> DEFINE head == <<"manifest", "blockmap">>
           tail == IF HiveKeys[p] = <<>> THEN <<"files">> ELSE <<"registry.dat", "files">>
<1>1. /\ head \in Seq(Items) /\ Len(head) = 2
      /\ head[1] = "manifest" /\ head[2] = "blockmap"
    BY DEF Items
<1>2. Contents(p) = head \o tail
    BY DEF Contents
<1>3. CASE HiveKeys[p] = <<>>
  <2>1. tail \in Seq(Items) /\ Len(tail) = 1 /\ tail[1] = "files"
    BY <1>3 DEF Items
  <2> HIDE DEF head, tail
  <2>2. /\ DOMAIN Contents(p) = 1..3 /\ Len(Contents(p)) = 3
        /\ \A i \in 1..3 : Contents(p)[i] = IF i <= 2 THEN head[i] ELSE tail[i - 2]
    <3>1. /\ Contents(p) \in Seq(Items)
          /\ Len(Contents(p)) = Len(head) + Len(tail)
          /\ \A i \in 1 .. Len(head) + Len(tail) :
                Contents(p)[i] = IF i <= Len(head) THEN head[i] ELSE tail[i - Len(head)]
      <4>1. /\ head \o tail \in Seq(Items)
            /\ Len(head \o tail) = Len(head) + Len(tail)
            /\ \A i \in 1 .. Len(head) + Len(tail) :
                  (head \o tail)[i] =
                      IF i <= Len(head) THEN head[i] ELSE tail[i - Len(head)]
        BY <1>1, <2>1, ConcatProperties, Zenon
      <4> QED
        BY <4>1, <1>2, Zenon
    <3> QED
      BY <1>1, <2>1, <3>1
  <2>3. \A i \in 1..3 : i = 1 \/ i = 2 \/ i = 3
    OBVIOUS
  <2>4. /\ Contents(p)[1] = "manifest" /\ Contents(p)[2] = "blockmap"
        /\ Contents(p)[3] = "files"
    BY <1>1, <2>1, <2>2
  <2>5. KeysOf(Contents(p)) = {"manifest", "blockmap", "files"}
    BY <2>2, <2>3, <2>4 DEF KeysOf
  <2> QED
    BY <1>3, <2>2, <2>4, <2>5 DEF Items
<1>4. CASE HiveKeys[p] # <<>>
  <2>1. tail \in Seq(Items) /\ Len(tail) = 2 /\ tail[1] = "registry.dat" /\ tail[2] = "files"
    BY <1>4 DEF Items
  <2> HIDE DEF head, tail
  <2>2. /\ DOMAIN Contents(p) = 1..4 /\ Len(Contents(p)) = 4
        /\ \A i \in 1..4 : Contents(p)[i] = IF i <= 2 THEN head[i] ELSE tail[i - 2]
    <3>1. /\ Contents(p) \in Seq(Items)
          /\ Len(Contents(p)) = Len(head) + Len(tail)
          /\ \A i \in 1 .. Len(head) + Len(tail) :
                Contents(p)[i] = IF i <= Len(head) THEN head[i] ELSE tail[i - Len(head)]
      <4>1. /\ head \o tail \in Seq(Items)
            /\ Len(head \o tail) = Len(head) + Len(tail)
            /\ \A i \in 1 .. Len(head) + Len(tail) :
                  (head \o tail)[i] =
                      IF i <= Len(head) THEN head[i] ELSE tail[i - Len(head)]
        BY <1>1, <2>1, ConcatProperties, Zenon
      <4> QED
        BY <4>1, <1>2, Zenon
    <3> QED
      BY <1>1, <2>1, <3>1
  <2>3. \A i \in 1..4 : i = 1 \/ i = 2 \/ i = 3 \/ i = 4
    OBVIOUS
  <2>4. /\ Contents(p)[1] = "manifest" /\ Contents(p)[2] = "blockmap"
        /\ Contents(p)[3] = "registry.dat" /\ Contents(p)[4] = "files"
    BY <1>1, <2>1, <2>2
  <2>5. KeysOf(Contents(p)) = {"manifest", "blockmap", "registry.dat", "files"}
    BY <2>2, <2>3, <2>4 DEF KeysOf
  <2> QED
    BY <1>4, <2>2, <2>4, <2>5 DEF Items
<1> QED
    BY <1>3, <1>4

\* An add that is running.
LEMMA AddingRuns ==
    ASSUME ReqInv, NEW t \in Threads, NEW h, Adding(t, h)
    PROVE  /\ req[t] \in Request
           /\ Runs(req[t])
           /\ InChain(req[t])
           /\ req[t].pc = h
<1>1. RequestOK(req[t])
    BY DEF ReqInv
<1>2. Runs(req[t]) /\ req[t].rem = NoPkg /\ req[t].pc = h
    BY <1>1 DEF Adding, Active, RequestOK, Over
<1>3. ~PlainRemoval(req[t]) /\ ~Updating(req[t]) /\ ~RollingBack(req[t])
    BY <1>2, NamesAssumption DEF Runs, PlainRemoval, Updating, RollingBack
<1> QED
    BY <1>1, <1>2, <1>3 DEF Runs, RequestOK

\* A removal that is running, alone or inside an add.
LEMMA RemovingRuns ==
    ASSUME ReqInv, NEW t \in Threads, NEW h, Removing(t, h)
    PROVE  /\ req[t] \in Request
           /\ Runs(req[t])
           /\ PlainRemoval(req[t]) \/ Updating(req[t]) \/ RollingBack(req[t])
           /\ req[t].rpc = h
           /\ req[t].rem \in Packages
<1>1. RequestOK(req[t])
    BY DEF ReqInv
<1>2. Runs(req[t]) /\ req[t].rem # NoPkg /\ req[t].rpc = h
    BY <1>1 DEF Removing, Active, RequestOK, Over
<1>3. ~InChain(req[t])
    BY <1>2 DEF InChain
<1>4. req[t].rem \in Packages
    BY <1>1, <1>2 DEF RequestOK, Request
<1> QED
    BY <1>1, <1>2, <1>3, <1>4 DEF Runs, RequestOK

LEMMA GoesOK ==
    ASSUME NEW r \in Request, Runs(r), InChain(r), r.pc # "InstallComplete",
           NEW s, s = [r EXCEPT !.pc = NextHandler(AddHandlers, @), !.todo = 0]
    PROVE  /\ RequestOK(s) /\ Runs(s) /\ InChain(s)
           /\ s.pc = NextHandler(AddHandlers, r.pc) /\ s.todo = 0
           /\ s.pkg = r.pkg /\ s.rpc = r.rpc /\ s.left = r.left
<1>1. NextHandler(AddHandlers, r.pc) \in KeysOf(AddHandlers)
    BY NextAdd DEF InChain
<1>2. s \in Request
    BY <1>1 DEF Request
<1>3. /\ s.pc = NextHandler(AddHandlers, r.pc) /\ s.todo = 0
      /\ s.op = r.op /\ s.pkg = r.pkg /\ s.rem = r.rem /\ s.rpc = r.rpc
      /\ s.status = r.status /\ s.code = r.code /\ s.hr = r.hr /\ s.left = r.left
    BY DEF Request
<1>4. InChain(s)
  <2>1. r.pkg \in Packages
    BY DEF Runs
  <2>2. TodoOK(s)
    BY <1>3, <2>1, ContentsFacts DEF TodoOK
  <2> QED
    BY <1>1, <1>3, <2>2 DEF InChain
<1>5. Runs(s)
    BY <1>3, <1>4 DEF Runs
<1> QED
    BY <1>2, <1>3, <1>4, <1>5 DEF RequestOK

LEMMA ReturnedFields ==
    ASSUME NEW r \in Request, NEW hr \in Errors \cup {"ok", "killed"},
           NEW s, s = Returned(r, hr)
    PROVE  /\ s \in Request
           /\ s.hr = hr /\ s.rem = NoPkg /\ s.status = r.status
           /\ s.op = r.op /\ s.pkg = r.pkg /\ s.left = r.left
BY DEF Returned, Request, Errors

LEMMA ErrorFields ==
    ASSUME NEW r \in Request, NEW code \in Errors, r.code = "ok",
           NEW s, s = SetErrorStatus(r, code)
    PROVE  /\ s \in Request
           /\ s.code = code /\ s.status = "error"
           /\ s.op = r.op /\ s.pkg = r.pkg /\ s.pc = r.pc /\ s.rem = r.rem
           /\ s.rpc = r.rpc /\ s.hr = r.hr /\ s.left = r.left
<1>1. s = [r EXCEPT !.code = code, !.status = "error"]
    BY DEF SetErrorStatus
<1>2. s \in Request
    BY <1>1 DEF Request
<1>3. s.code = code /\ s.status = "error"
    BY <1>1 DEF Request
<1> QED
    BY <1>1, <1>2, <1>3 DEF Request

LEMMA RemoveOfFields ==
    ASSUME NEW r \in Request, NEW p \in Packages, NEW s, s = RemoveOf(r, p)
    PROVE  /\ s \in Request
           /\ s.rem = p /\ s.rpc = "PopulatePackageInfo"
           /\ s.op = r.op /\ s.pkg = r.pkg /\ s.pc = r.pc /\ s.todo = r.todo
           /\ s.status = r.status /\ s.code = r.code /\ s.hr = r.hr /\ s.left = r.left
<1>1. "PopulatePackageInfo" \in KeysOf(RemoveHandlers)
    BY HandlersDistinct
<1>2. s = [r EXCEPT !.rem = p, !.rpc = "PopulatePackageInfo"]
    BY DEF RemoveOf
<1>3. s \in Request
    BY <1>1, <1>2 DEF Request
<1> QED
    BY <1>2, <1>3 DEF Request

\* What a request looks like after a handler of its add failed.
Failed(r, code) ==
    LET s == SetErrorStatus(r, code)
    IN  IF s.pc \in ReturnError
          THEN Returned(s, code)
          ELSE RemoveOf([s EXCEPT !.pc = "ErrorHandler", !.todo = 0], s.pkg)

LEMMA HandledFields ==
    ASSUME NEW r \in Request, NEW s, s = [r EXCEPT !.pc = "ErrorHandler", !.todo = 0]
    PROVE  /\ s \in Request /\ s.pc = "ErrorHandler"
           /\ s.op = r.op /\ s.pkg = r.pkg
           /\ s.code = r.code /\ s.hr = r.hr /\ s.status = r.status
BY DEF Request

LEMMA FailedOK ==
    ASSUME NEW r \in Request, Runs(r), InChain(r), NEW code \in Errors,
           r.pc \notin ReturnError => code # "downgrade",
           NEW s, s = Failed(r, code)
    PROVE  /\ RequestOK(s)
           /\ s.op = "add" /\ s.pkg = r.pkg
           /\ r.pc \in ReturnError => Over(s) /\ s.hr = code /\ s.left = r.left
           /\ r.pc \notin ReturnError => Runs(s) /\ RollingBack(s)
                                         /\ s.rpc = "PopulatePackageInfo"
<1> DEFINE e == SetErrorStatus(r, code)
<1>1. r.code = "ok" /\ r.hr = "pending" /\ r.op = "add" /\ r.pkg \in Packages
    BY DEF Runs, InChain
<1>2. /\ e \in Request
      /\ e.code = code /\ e.status = "error"
      /\ e.op = "add" /\ e.pkg = r.pkg /\ e.pc = r.pc /\ e.rem = r.rem
      /\ e.hr = "pending" /\ e.left = r.left
    BY <1>1, ErrorFields
<1>3. s = IF e.pc \in ReturnError
            THEN Returned(e, code)
            ELSE RemoveOf([e EXCEPT !.pc = "ErrorHandler", !.todo = 0], e.pkg)
    BY DEF Failed
<1> HIDE DEF e
<1>4. CASE r.pc \in ReturnError
  <2>1. s = Returned(e, code)
    BY <1>2, <1>3, <1>4
  <2>2. /\ s \in Request
        /\ s.hr = code /\ s.status = "error" /\ s.op = "add" /\ s.pkg = r.pkg
        /\ s.left = r.left
    BY <1>2, <2>1, ReturnedFields
  <2>3. Over(s)
    BY <1>1, <2>2 DEF Over, Errors
  <2> QED
    BY <1>4, <2>2, <2>3 DEF RequestOK
<1>5. CASE r.pc \notin ReturnError
  <2> DEFINE m == [e EXCEPT !.pc = "ErrorHandler", !.todo = 0]
  <2>1. /\ m \in Request
        /\ m.pc = "ErrorHandler" /\ m.code = code /\ m.status = "error"
        /\ m.op = "add" /\ m.pkg = r.pkg /\ m.hr = "pending"
    BY <1>2, HandledFields
  <2>2. s = RemoveOf(m, e.pkg)
    BY <1>2, <1>3, <1>5
  <2> HIDE DEF m
  <2>4. /\ s \in Request
        /\ s.pc = "ErrorHandler" /\ s.code = code /\ s.status = "error"
        /\ s.op = "add" /\ s.pkg = r.pkg /\ s.hr = "pending"
        /\ s.rem = r.pkg /\ s.rpc = "PopulatePackageInfo"
    BY <1>1, <1>2, <2>1, <2>2, RemoveOfFields
  <2>5. code \in {"failed", "userexit"}
    BY <1>5 DEF Errors
  <2>6. RollingBack(s)
    BY <2>4, <2>5 DEF RollingBack
  <2>7. Runs(s)
    BY <1>1, <2>4, <2>6 DEF Runs
  <2> QED
    BY <1>5, <2>4, <2>6, <2>7 DEF RequestOK
<1> QED
    BY <1>4, <1>5

LEMMA FailsIs ==
    ASSUME NEW t \in Threads, NEW code, Fails(t, code)
    PROVE  req' = [req EXCEPT ![t] = Failed(req[t], code)]
BY DEF Fails, Failed

LEMMA RemovedOK ==
    ASSUME NEW r \in Request, Runs(r),
           PlainRemoval(r) \/ Updating(r) \/ RollingBack(r),
           NEW hr \in {"ok", "failed"},
           NEW s, s = Removed(r, hr)
    PROVE  /\ RequestOK(s)
           /\ s.op = r.op /\ s.pkg = r.pkg /\ s.left = r.left
           /\ PlainRemoval(r) => Over(s) /\ s.hr = hr
           /\ Updating(r) => /\ Runs(s) /\ InChain(s)
                             /\ s.pc = "Extractor" /\ s.todo = 0
           /\ RollingBack(r) => Over(s) /\ s.hr = r.code
<1>0. r.pkg \in Packages /\ r.hr = "pending"
    BY DEF Runs
<1>1. CASE PlainRemoval(r)
  <2> DEFINE e == IF hr = "ok" THEN r ELSE SetErrorStatus(r, hr)
  <2>1. /\ e \in Request
        /\ hr # "ok" => e.status = "error"
        /\ hr = "ok" => e.status = "started"
        /\ e.op = "remove" /\ e.pkg = r.pkg /\ e.left = r.left
    BY <1>1, ErrorFields DEF PlainRemoval, Errors
  <2>2. s = Returned(e, hr)
    BY <1>1 DEF Removed, PlainRemoval
  <2> HIDE DEF e
  <2>3. /\ s \in Request
        /\ s.hr = hr /\ s.status = e.status /\ s.op = "remove" /\ s.pkg = r.pkg
        /\ s.left = r.left
    BY <2>1, <2>2, ReturnedFields DEF Errors
  <2>4. Over(s)
    BY <1>0, <2>1, <2>3 DEF Over, Errors
  <2>5. ~Updating(r) /\ ~RollingBack(r)
    BY <1>1 DEF PlainRemoval, Updating, RollingBack
  <2> QED
    BY <1>1, <2>3, <2>4, <2>5 DEF RequestOK, PlainRemoval
<1>2. CASE Updating(r)
  <2>1. s = [r EXCEPT !.pc = "Extractor", !.rem = NoPkg, !.rpc = "done"]
    BY <1>2 DEF Removed, Updating
  <2>2. "Extractor" \in KeysOf(AddHandlers) /\ s \in Request
    <3>1. "Extractor" \in KeysOf(AddHandlers)
      BY HandlersDistinct
    <3> QED
      BY <2>1, <3>1 DEF Request
  <2>3. /\ s \in Request
        /\ s.pc = "Extractor" /\ s.rem = NoPkg /\ s.todo = r.todo
        /\ s.op = r.op /\ s.pkg = r.pkg /\ s.status = r.status /\ s.code = r.code
        /\ s.hr = r.hr /\ s.left = r.left
    BY <2>1, <2>2 DEF Request
  <2>4. InChain(s)
    <3>1. s.todo = 0 /\ s.pkg \in Packages
      BY <1>0, <1>2, <2>3 DEF Updating
    <3>2. TodoOK(s)
      BY <3>1, ContentsFacts DEF TodoOK
    <3> QED
      BY <1>2, <2>2, <2>3, <3>2 DEF InChain, Updating
  <2>5. Runs(s)
    BY <1>0, <2>3, <2>4 DEF Runs
  <2>6. ~PlainRemoval(r) /\ ~RollingBack(r)
    BY <1>2 DEF PlainRemoval, Updating, RollingBack
  <2> QED
    BY <1>2, <2>3, <2>4, <2>5, <2>6 DEF RequestOK, Updating
<1>3. CASE RollingBack(r)
  <2>1. s = Returned(r, r.code)
    BY <1>3 DEF Removed, RollingBack
  <2>2. /\ s \in Request
        /\ s.hr = r.code /\ s.status = "error" /\ s.op = r.op /\ s.pkg = r.pkg
        /\ s.left = r.left
    BY <1>3, <2>1, ReturnedFields DEF RollingBack, Errors
  <2>3. Over(s)
    BY <1>0, <1>3, <2>2 DEF Over, Errors, RollingBack
  <2>4. ~PlainRemoval(r) /\ ~Updating(r)
    BY <1>3 DEF PlainRemoval, Updating, RollingBack
  <2> QED
    BY <2>2, <2>3, <2>4 DEF RequestOK
<1> QED
    BY <1>1, <1>2, <1>3

LEMMA SameShape ==
    ASSUME NEW r \in Request, Runs(r), NEW s \in Request,
           s.op = r.op, s.pkg = r.pkg, s.pc = r.pc, s.rem = r.rem,
           s.code = r.code, s.hr = r.hr, s.status = r.status,
           s.todo = r.todo \/ (InChain(r) /\ TodoOK(s))
    PROVE  /\ RequestOK(s) /\ Runs(s)
           /\ InChain(r) => InChain(s)
           /\ PlainRemoval(r) => PlainRemoval(s)
           /\ Updating(r) => Updating(s)
           /\ RollingBack(r) => RollingBack(s)
<1>0. /\ InChain(r) => TodoOK(s)
      /\ Updating(r) => s.todo = 0
  <2>1. Updating(r) => ~InChain(r)
    BY NamesAssumption DEF Updating, InChain
  <2>2. CASE s.todo = r.todo
    BY <2>2 DEF InChain, TodoOK, Updating
  <2>3. CASE InChain(r) /\ TodoOK(s)
    BY <2>1, <2>3
  <2> QED
    BY <2>2, <2>3
<1>1. /\ InChain(r) => InChain(s)
      /\ PlainRemoval(r) => PlainRemoval(s)
      /\ Updating(r) => Updating(s)
      /\ RollingBack(r) => RollingBack(s)
    BY <1>0 DEF PlainRemoval, InChain, Updating, RollingBack
<1>2. Runs(s)
    BY <1>1 DEF Runs
<1> QED
    BY <1>1, <1>2 DEF RequestOK

-----------------------------------------------------------------------------
(***************************************************************************)
(* Who has registry.dat mounted.                                           *)
(***************************************************************************)
LEMMA HiveHolders ==
    ASSUME NEW t, NEW k
    PROVE  /\ Free # <<t, k>> /\ Stray # <<t, k>>
           /\ <<t, "add">> # <<t, "remove">>
           /\ \A u, v : <<u, v>> = <<t, k>> => u = t /\ v = k
BY DEF Free, Stray

LEMMA HiveStep ==
    ASSUME HiveInv, NEW t \in Threads,
           \A u \in Threads : u # t => req'[u] = req[u],
           \A p \in Packages, u \in Threads, k \in {"add", "remove"} :
              u # t /\ hive'[p] = <<u, k>> => hive[p] = <<u, k>>,
           \A p \in Packages : hive'[p] = <<t, "add">> => HoldsAdd(t, p)',
           \A p \in Packages : hive'[p] = <<t, "remove">> => HoldsRemove(t, p)'
    PROVE  HiveInv'
<1> SUFFICES ASSUME NEW p \in Packages, NEW u \in Threads
             PROVE  /\ hive'[p] = <<u, "add">> => HoldsAdd(u, p)'
                    /\ hive'[p] = <<u, "remove">> => HoldsRemove(u, p)'
    BY DEF HiveInv
<1>1. CASE u = t
    BY <1>1
<1>2. CASE u # t
  <2>1. /\ hive[p] = <<u, "add">> => HoldsAdd(u, p)
        /\ hive[p] = <<u, "remove">> => HoldsRemove(u, p)
    BY DEF HiveInv
  <2>2. req'[u] = req[u]
    BY <1>2
  <2>3. /\ HoldsAdd(u, p) => HoldsAdd(u, p)'
        /\ HoldsRemove(u, p) => HoldsRemove(u, p)'
    BY <2>2 DEF HoldsAdd, HoldsRemove, Active
  <2> QED
    BY <1>2, <2>1, <2>3
<1> QED
    BY <1>1, <1>2

\* A thread among the handlers of an add holds at most its own package's.
LEMMA ChainHive ==
    ASSUME ReqInv, HiveInv, NEW t \in Threads, NEW h, Adding(t, h), NEW p \in Packages
    PROVE  /\ hive[p] # <<t, "remove">>
           /\ hive[p] = <<t, "add">> =>
                 /\ p = req[t].pkg
                 /\ h \in HoldingHandlers
<1>1. InChain(req[t]) /\ req[t].pc = h
    BY AddingRuns
<1>2. req[t].rem = NoPkg /\ h # "ErrorHandler"
    BY <1>1, HandlersDistinct DEF InChain
<1> QED
    BY <1>1, <1>2, NamesAssumption DEF HiveInv, HoldsAdd, HoldsRemove

LEMMA NextHolds ==
    \A h \in HoldingHandlers \ {"InstallComplete"} :
        NextHandler(AddHandlers, h) \in HoldingHandlers
BY AddHandlersNext DEF HoldingHandlers, Registrars

LEMMA GoesInv ==
    ASSUME ReqInv, HiveInv, NEW t \in Threads, NEW h, Adding(t, h),
           h # "InstallComplete",
           req' = [req EXCEPT ![t] = [req[t] EXCEPT
                                        !.pc = NextHandler(AddHandlers, @), !.todo = 0]],
           \A p \in Packages : hive'[p] \in {hive[p], Free}
    PROVE  ReqInv' /\ HiveInv'
<1> DEFINE r == req[t]
           s == [r EXCEPT !.pc = NextHandler(AddHandlers, @), !.todo = 0]
<1>1. r \in Request /\ Runs(r) /\ InChain(r) /\ r.pc = h
    BY AddingRuns
<1>2. /\ RequestOK(s) /\ Runs(s) /\ InChain(s)
      /\ s.pc = NextHandler(AddHandlers, h) /\ s.pkg = r.pkg
    BY <1>1, GoesOK
<1>3. /\ ReqInv'
      /\ req'[t] = s
      /\ \A u \in Threads : u # t => req'[u] = req[u]
    BY <1>2, ReqStep
<1> HIDE DEF r, s
<1>4. \A p \in Packages, u \in Threads, k \in {"add", "remove"} :
          hive'[p] = <<u, k>> => hive[p] = <<u, k>>
    BY HiveHolders
<1>5. \A p \in Packages : hive'[p] # <<t, "remove">>
    BY <1>4, ChainHive
<1>6. ASSUME NEW p \in Packages, hive'[p] = <<t, "add">>
      PROVE  HoldsAdd(t, p)'
  <2>1. hive[p] = <<t, "add">>
    BY <1>4, <1>6
  <2>2. p = r.pkg /\ h \in HoldingHandlers
    BY <2>1, ChainHive DEF r
  <2>4. s.pc \in HoldingHandlers
    BY <1>2, <2>2, NextHolds
  <2> QED
    BY <1>2, <1>3, <2>2, <2>4 DEF HoldsAdd, Active, Runs, InChain
<1> QED
    BY <1>3, <1>4, <1>5, <1>6, HiveStep

LEMMA FailsInv ==
    ASSUME ReqInv, HiveInv, NEW t \in Threads, NEW h, Adding(t, h), NEW code \in Errors,
           h \notin ReturnError => code # "downgrade",
           Fails(t, code),
           \A p \in Packages : hive'[p] \in {hive[p], Free}
    PROVE  ReqInv' /\ HiveInv'
<1> DEFINE r == req[t]
           s == Failed(r, code)
<1>1. r \in Request /\ Runs(r) /\ InChain(r) /\ r.pc = h
    BY AddingRuns
<1>2. /\ RequestOK(s)
      /\ s.op = "add" /\ s.pkg = r.pkg
      /\ h \notin ReturnError => Runs(s) /\ RollingBack(s)
    BY <1>1, FailedOK
<1>3. req' = [req EXCEPT ![t] = s]
    BY FailsIs
<1>4. /\ ReqInv'
      /\ req'[t] = s
      /\ \A u \in Threads : u # t => req'[u] = req[u]
    BY <1>2, <1>3, ReqStep
<1> HIDE DEF r, s
<1>5. \A p \in Packages, u \in Threads, k \in {"add", "remove"} :
          hive'[p] = <<u, k>> => hive[p] = <<u, k>>
    BY HiveHolders
<1>6. \A p \in Packages : hive'[p] # <<t, "remove">>
    BY <1>5, ChainHive
<1>7. ASSUME NEW p \in Packages, hive'[p] = <<t, "add">>
      PROVE  HoldsAdd(t, p)'
  <2>1. hive[p] = <<t, "add">>
    BY <1>5, <1>7
  <2>2. p = r.pkg /\ h \in HoldingHandlers
    BY <2>1, ChainHive DEF r
  <2>3. h \notin ReturnError
    BY <2>2, HandlersDistinct DEF HoldingHandlers
  <2> QED
    BY <1>2, <1>4, <2>2, <2>3 DEF HoldsAdd, Active, Runs, RollingBack
<1> QED
    BY <1>4, <1>5, <1>6, <1>7, HiveStep

\* A step of a request that only counts or notes something.
LEMMA QuietInv ==
    ASSUME ReqInv, HiveInv, NEW t \in Threads, Active(t), NEW s \in Request,
           s.op = req[t].op, s.pkg = req[t].pkg, s.pc = req[t].pc, s.rem = req[t].rem,
           s.code = req[t].code, s.hr = req[t].hr, s.status = req[t].status,
           s.todo = req[t].todo \/ (InChain(req[t]) /\ TodoOK(s)),
           req' = [req EXCEPT ![t] = s],
           \A p \in Packages : hive'[p] \in {hive[p], Free}
    PROVE  ReqInv' /\ HiveInv' /\ req'[t] = s
<1>1. req[t] \in Request /\ Runs(req[t])
    BY DEF ReqInv, RequestOK, Over, Active
<1>2. RequestOK(s)
    BY <1>1, SameShape
<1>3. /\ ReqInv'
      /\ req'[t] = s
      /\ \A u \in Threads : u # t => req'[u] = req[u]
    BY <1>2, ReqStep
<1>4. \A p \in Packages, u \in Threads, k \in {"add", "remove"} :
          hive'[p] = <<u, k>> => hive[p] = <<u, k>>
    BY HiveHolders
<1>5. \A p \in Packages : /\ HoldsAdd(t, p) => HoldsAdd(t, p)'
                          /\ HoldsRemove(t, p) => HoldsRemove(t, p)'
    BY <1>3 DEF HoldsAdd, HoldsRemove, Active
<1>6. \A p \in Packages : /\ hive'[p] = <<t, "add">> => HoldsAdd(t, p)'
                          /\ hive'[p] = <<t, "remove">> => HoldsRemove(t, p)'
    BY <1>4, <1>5 DEF HiveInv
<1> QED
    BY <1>3, <1>4, <1>6, HiveStep

\* A removal goes on to the next handler; it may mount registry.dat.
LEMMA GoesOnInv ==
    ASSUME ReqInv, HiveInv, NEW t \in Threads, NEW h, Removing(t, h),
           NEW g \in KeysOf(RemoveHandlers) \cup {"done"}, NEW left \in BOOLEAN,
           req' = [req EXCEPT ![t] = [req[t] EXCEPT !.rpc = g, !.left = left]],
           \A p \in Packages : \/ hive'[p] \in {hive[p], Free}
                               \/ p = req[t].rem /\ hive'[p] = <<t, "remove">>
    PROVE  ReqInv' /\ HiveInv'
<1> DEFINE r == req[t]
           s == [r EXCEPT !.rpc = g, !.left = left]
<1>1. /\ r \in Request /\ Runs(r) /\ r.rpc = h /\ r.rem \in Packages /\ r.rem # NoPkg
    BY RemovingRuns DEF Removing
<1>0. s = [r EXCEPT !.rpc = g, !.left = left]
    OBVIOUS
<1> HIDE DEF r, s
<1>2. /\ RequestOK(s) /\ Runs(s)
      /\ s.op = r.op /\ s.pkg = r.pkg /\ s.pc = r.pc /\ s.rem = r.rem
      /\ s.hr = "pending"
  <2>1. /\ s \in Request
        /\ s.op = r.op /\ s.pkg = r.pkg /\ s.pc = r.pc /\ s.rem = r.rem
        /\ s.status = r.status /\ s.code = r.code /\ s.hr = r.hr /\ s.todo = r.todo
    BY <1>0, <1>1 DEF Request
  <2> QED
    BY <1>1, <2>1, SameShape DEF Runs
<1>3. /\ ReqInv'
      /\ req'[t] = s
      /\ \A u \in Threads : u # t => req'[u] = req[u]
    BY <1>2, ReqStep DEF r, s
<1>4. \A p \in Packages : /\ HoldsAdd(t, p) => HoldsAdd(t, p)'
                          /\ HoldsRemove(t, p) => HoldsRemove(t, p)'
                          /\ p = r.rem => HoldsRemove(t, p)'
    BY <1>2, <1>3 DEF HoldsAdd, HoldsRemove, Active, r
<1>5. \A p \in Packages, u \in Threads, k \in {"add", "remove"} :
          u # t /\ hive'[p] = <<u, k>> => hive[p] = <<u, k>>
    BY HiveHolders
<1>6. \A p \in Packages : hive'[p] = <<t, "add">> => hive[p] = <<t, "add">>
    BY HiveHolders
<1>7. \A p \in Packages :
          hive'[p] = <<t, "remove">> => hive[p] = <<t, "remove">> \/ p = r.rem
    BY HiveHolders DEF r
<1>8. \A p \in Packages : /\ hive'[p] = <<t, "add">> => HoldsAdd(t, p)'
                          /\ hive'[p] = <<t, "remove">> => HoldsRemove(t, p)'
    BY <1>4, <1>6, <1>7 DEF HiveInv
<1> QED
    BY <1>3, <1>5, <1>8, HiveStep

LEMMA ReleaseFacts ==
    ASSUME NEW t \in Threads, NEW kinds \in SUBSET {"add", "remove"},
           Release(t, kinds), NEW p \in Packages
    PROVE  /\ hive'[p] \in {hive[p], Free, Stray}
           /\ hive'[p] = Stray => hive[p] = Stray \/ UnloadMayFail
           /\ \A k \in kinds : hive'[p] # <<t, k>>
           /\ hive[p] = Free => hive'[p] = Free
<1> DEFINE mine == {q \in Packages : hive[q] \in {t} \X kinds}
<1>1. PICK refused \in SUBSET mine :
          /\ refused = {} \/ UnloadMayFail
          /\ hive' = [q \in Packages |-> IF q \in refused THEN Stray
                                         ELSE IF q \in mine THEN Free ELSE hive[q]]
    BY DEF Release
<1>2. hive'[p] = IF p \in refused THEN Stray ELSE IF p \in mine THEN Free ELSE hive[p]
    BY <1>1
<1>3. p \in refused => p \in mine /\ UnloadMayFail
    BY <1>1
<1>4. (p \in mine) <=> (hive[p] \in {t} \X kinds)
    OBVIOUS
<1>5. \A k \in kinds : hive[p] = <<t, k>> => hive[p] \in {t} \X kinds
    OBVIOUS
<1>6. hive[p] = Free => hive[p] \notin {t} \X kinds
    BY HiveHolders
<1> HIDE DEF mine
<1>7. Stray # Free
    BY DEF Stray, Free
<1> QED
    BY <1>2, <1>3, <1>4, <1>5, <1>6, <1>7, HiveHolders

LEMMA ReleaseMounts ==
    ASSUME MountsOK(hive), NEW t \in Threads, NEW kinds \in SUBSET {"add", "remove"},
           Release(t, kinds)
    PROVE  MountsOK(hive')
<1>1. \A p \in Packages : /\ hive'[p] \in {hive[p], Free, Stray}
                          /\ hive'[p] = Stray => hive[p] = Stray \/ UnloadMayFail
    BY ReleaseFacts
<1>2. DOMAIN hive' = Packages /\ hive' = [p \in Packages |-> hive'[p]]
    BY DEF Release
<1>3. \A p \in Packages :
          hive'[p] \in {Free, Stray} \cup (Threads \X {"add", "remove"})
    BY <1>1 DEF MountsOK
<1>4. hive' \in [Packages -> {Free, Stray} \cup (Threads \X {"add", "remove"})]
    BY <1>2, <1>3
<1> QED
    BY <1>1, <1>4 DEF MountsOK

\* A removal returns, to its caller or to the add around it.
LEMMA RemovalReturnsInv ==
    ASSUME ReqInv, HiveInv, NEW t \in Threads, NEW h, Removing(t, h),
           NEW hr \in {"ok", "failed"}, RemovalReturns(t, hr)
    PROVE  ReqInv' /\ HiveInv' /\ (MountsOK(hive) => MountsOK(hive'))
<1> DEFINE r == req[t]
           s == Removed(r, hr)
           kinds == IF s.hr = "pending" THEN {"remove"} ELSE {"add", "remove"}
<1>1. /\ r \in Request /\ Runs(r)
      /\ PlainRemoval(r) \/ Updating(r) \/ RollingBack(r)
    BY RemovingRuns
<1>2. /\ RequestOK(s)
      /\ s.op = r.op /\ s.pkg = r.pkg
      /\ PlainRemoval(r) => Over(s)
      /\ Updating(r) => Runs(s) /\ InChain(s)
      /\ RollingBack(r) => Over(s)
    BY <1>1, RemovedOK
<1>3. req' = [req EXCEPT ![t] = s]
    BY DEF RemovalReturns
<1>4. /\ ReqInv'
      /\ req'[t] = s
      /\ \A u \in Threads : u # t => req'[u] = req[u]
    BY <1>2, <1>3, ReqStep
<1>5. Release(t, kinds)
    BY <1>4 DEF RemovalReturns
<1> HIDE DEF s
<1>6. kinds \in SUBSET {"add", "remove"} /\ "remove" \in kinds
    OBVIOUS
<1>7. \A p \in Packages : /\ hive'[p] \in {hive[p], Free, Stray}
                          /\ \A k \in kinds : hive'[p] # <<t, k>>
    BY <1>5, <1>6, ReleaseFacts
<1>8. \A p \in Packages, u \in Threads, k \in {"add", "remove"} :
          hive'[p] = <<u, k>> => hive[p] = <<u, k>>
    BY <1>7, HiveHolders
<1>9. ASSUME NEW p \in Packages
      PROVE  hive'[p] # <<t, "add">>
  <2>1. CASE Over(s)
    BY <1>7, <2>1 DEF Over
  <2>2. CASE Updating(r)
    <3>1. ~HoldsAdd(t, p)
      BY <2>2 DEF HoldsAdd, Updating, HoldingHandlers, Registrars
    <3> QED
      BY <1>8, <3>1 DEF HiveInv
  <2> QED
    BY <1>1, <1>2, <2>1, <2>2
<1>10. MountsOK(hive) => MountsOK(hive')
    BY <1>5, <1>6, ReleaseMounts
<1> HIDE DEF kinds
<1> QED
    BY <1>4, <1>6, <1>7, <1>8, <1>9, <1>10, HiveStep

-----------------------------------------------------------------------------
(***************************************************************************)
(* The files and counts of the VFS handler.                                *)
(***************************************************************************)
VfsRecord == [open : BOOLEAN, left : SUBSET Files, file : Files \cup {NoFile},
              exists : BOOLEAN, count : Nat]

LEMMA VfsOpenedType ==
    ASSUME NEW left \in SUBSET Files
    PROVE  VfsOpened(left) \in VfsRecord /\ VfsClosed \in VfsRecord
BY DEF VfsOpened, VfsClosed, VfsRecord

LEMMA CloseVfsType ==
    ASSUME VfsTypeOK, NEW t \in Threads, CloseVfs(t)
    PROVE  vfs' \in [Threads -> VfsRecord]
BY VfsOpenedType DEF CloseVfs, VfsTypeOK, VfsRecord

LEMMA OpenVfsType ==
    ASSUME VfsTypeOK, NEW t \in Threads, NEW files \in SUBSET Files, OpenVfs(t, files)
    PROVE  VfsTypeOK'
<1>1. VfsOpened(files) \in VfsRecord
    BY VfsOpenedType
<1> QED
    BY <1>1 DEF OpenVfs, VfsTypeOK, VfsRecord

LEMMA ReadSharedType ==
    ASSUME VfsTypeOK, NEW t \in Threads, ReadShared(t)
    PROVE  VfsTypeOK'
<1>1. PICK f \in vfs[t].left :
          vfs' = [vfs EXCEPT ![t].left = @ \ {f}, ![t].file = f,
                             ![t].exists = target[f] # Missing, ![t].count = shared[f]]
    BY DEF ReadShared
<1>2. vfs[t] \in VfsRecord /\ f \in Files
    BY DEF VfsTypeOK, VfsRecord
<1>3. shared[f] \in Nat
    BY <1>2 DEF VfsTypeOK
<1> DEFINE v == [vfs[t] EXCEPT !.left = @ \ {f}, !.file = f,
                              !.exists = target[f] # Missing, !.count = shared[f]]
<1>4. v \in VfsRecord
    BY <1>2, <1>3 DEF VfsRecord
<1>5. vfs' = [vfs EXCEPT ![t] = v]
    BY <1>1 DEF VfsTypeOK
<1> HIDE DEF v
<1>6. vfs' \in [Threads -> VfsRecord]
    BY <1>4, <1>5 DEF VfsTypeOK, VfsRecord
<1> QED
    BY <1>6 DEF VfsTypeOK, VfsRecord, ReadShared

LEMMA CountedType ==
    ASSUME VfsTypeOK, NEW t \in Threads, NEW reinstall
    PROVE  Counted(t, reinstall) \in [Files -> Nat]
<1>1. vfs[t].count \in Nat
    BY DEF VfsTypeOK
<1>2. AddReference(vfs[t].count) \in Nat
    BY <1>1 DEF AddReference
<1> QED
    BY <1>2 DEF Counted, VfsTypeOK

LEMMA CopyVfsFileType ==
    ASSUME VfsTypeOK, NEW t \in Threads, NEW p \in Packages, NEW reinstall, NEW copies,
           CopyVfsFile(t, p, reinstall, copies)
    PROVE  VfsTypeOK'
<1>1. vfs[t] \in VfsRecord /\ vfs[t].file \in Files
    BY DEF VfsTypeOK, VfsRecord, CopyVfsFile
<1>2. FileVersion[p][vfs[t].file] \in Nat
    BY <1>1, VfsAssumption
<1>3. shared' \in [Files -> Nat]
    BY CountedType DEF CopyVfsFile
<1>4. target' = [target EXCEPT ![vfs[t].file] = FileVersion[p][vfs[t].file]] \/ target' = target
    BY DEF CopyVfsFile
<1>5. target' \in [Files -> Nat]
    BY <1>2, <1>4 DEF VfsTypeOK
<1>6. VfsOpened(vfs[t].left) \in VfsRecord
    BY <1>1, VfsOpenedType DEF VfsRecord
<1>7. vfs' \in [Threads -> VfsRecord]
    BY <1>6 DEF CopyVfsFile, VfsTypeOK, VfsRecord
<1> QED
    BY <1>3, <1>5, <1>7 DEF VfsTypeOK, VfsRecord

LEMMA FailVfsFileType ==
    ASSUME VfsTypeOK, NEW t \in Threads, NEW reinstall, FailVfsFile(t, reinstall)
    PROVE  VfsTypeOK'
<1>1. shared' \in [Files -> Nat]
    BY CountedType DEF FailVfsFile, VfsTypeOK
<1>2. vfs' \in [Threads -> VfsRecord]
    BY CloseVfsType DEF FailVfsFile
<1> QED
    BY <1>1, <1>2 DEF VfsTypeOK, VfsRecord, FailVfsFile

LEMMA RemoveVfsFileType ==
    ASSUME VfsTypeOK, NEW t \in Threads, NEW deletes, RemoveVfsFile(t, deletes)
    PROVE  VfsTypeOK'
<1>1. vfs[t] \in VfsRecord /\ vfs[t].count \in Nat
    BY DEF VfsTypeOK, VfsRecord
<1>2. (IF vfs[t].count <= 1 THEN 0 ELSE vfs[t].count - 1) \in Nat
    BY <1>1
<1>3. shared' \in [Files -> Nat]
    BY <1>2 DEF RemoveVfsFile, VfsTypeOK
<1>4. target' = [target EXCEPT ![vfs[t].file] = Missing] \/ target' = target
    BY DEF RemoveVfsFile
<1>5. target' \in [Files -> Nat]
    BY <1>4 DEF VfsTypeOK, Missing
<1>6. VfsOpened(vfs[t].left) \in VfsRecord
    BY <1>1, VfsOpenedType DEF VfsRecord
<1>7. vfs' \in [Threads -> VfsRecord]
    BY <1>6 DEF RemoveVfsFile, VfsTypeOK, VfsRecord
<1> QED
    BY <1>3, <1>5, <1>7 DEF VfsTypeOK, VfsRecord

-----------------------------------------------------------------------------
(***************************************************************************)
(* The registry.                                                           *)
(***************************************************************************)
LEMMA RegWriteType ==
    ASSUME RegTypeOK, NEW p \in Packages, NEW k, NEW h
    PROVE  Written(p, k) \in [Keys -> Entry] /\ Torn(h, p, k) \in [Keys -> Entry]
BY DEF RegTypeOK, Written, Torn, Entry

LEMMA RegDeleteType ==
    ASSUME RegTypeOK, NEW p \in Packages, NEW ks, NEW S, NEW h
    PROVE  Deleted(S) \in [Keys -> Entry] /\ Unregistered(h, p, ks, S) \in [Keys -> Entry]
<1>1. NoEntry \in Entry /\ [owner |-> p, whole |-> FALSE] \in Entry
    BY DEF NoEntry, Entry
<1>2. Deleted(S) \in [Keys -> Entry]
    BY <1>1 DEF Deleted, RegTypeOK
<1> QED
    BY <1>1, <1>2 DEF Unregistered

-----------------------------------------------------------------------------
(***************************************************************************)
(* DeployInv is inductive.                                                 *)
(***************************************************************************)
LEMMA InitInv == Init => DeployInv
<1> SUFFICES ASSUME Init PROVE DeployInv
    OBVIOUS
<1>1. VfsTypeOK
  <2>1. VfsClosed \in VfsRecord
    BY VfsOpenedType
  <2>2. vfs \in [Threads -> VfsRecord]
    BY <2>1 DEF Init, VfsInit
  <2> QED
    BY <2>2 DEF Init, VfsInit, VfsTypeOK, VfsRecord, Missing, Unversioned
<1>2. RegTypeOK
    BY DEF Init, RegInit, RegTypeOK, NoEntry, Entry
<1>3. MachineTypeOK
  <2>1. MountsOK(hive)
    BY DEF Init, MountsOK, Free, Stray
  <2> QED
    BY <1>1, <1>2, <2>1, DeployAssumption DEF Init, MachineTypeOK
<1>4. NoRequest \in Request
    BY DEF NoRequest, Request
<1>5. Over(NoRequest)
    BY DEF NoRequest, Over, Errors
<1>6. ReqInv
    BY <1>4, <1>5 DEF Init, ReqInv, RequestOK
<1>7. HiveInv
    BY HiveHolders DEF Init, HiveInv
<1> QED
    BY <1>3, <1>6, <1>7 DEF DeployInv

LEMMA StartInv ==
    ASSUME DeployInv, NEW t \in Threads, NEW op \in {"add", "remove"}, NEW p \in Packages,
           Start(t, op, p)
    PROVE  DeployInv'
<1> DEFINE r == [NoRequest EXCEPT !.op = op, !.pkg = p, !.status = "started",
                                  !.hr = "pending"]
           s == IF op = "add" THEN [r EXCEPT !.pc = "PopulatePackageInfo"] ELSE RemoveOf(r, p)
<1>1. /\ r \in Request
      /\ r.op = op /\ r.pkg = p /\ r.status = "started" /\ r.hr = "pending"
      /\ r.pc = "done" /\ r.rem = NoPkg /\ r.code = "ok" /\ r.todo = 0
    BY DEF NoRequest, Request
<1>2. req' = [req EXCEPT ![t] = s]
    BY DEF Start
<1>3. "PopulatePackageInfo" \in KeysOf(AddHandlers)
    BY HandlersDistinct DEF ReturnError
<1>4. RequestOK(s) /\ s.hr = "pending"
  <2>1. CASE op = "add"
    <3> DEFINE q == [r EXCEPT !.pc = "PopulatePackageInfo"]
    <3> HIDE DEF r
    <3>1. /\ q \in Request
          /\ q.op = op /\ q.pkg = p /\ q.status = "started" /\ q.hr = "pending"
          /\ q.pc = "PopulatePackageInfo" /\ q.rem = NoPkg /\ q.code = "ok"
          /\ q.todo = 0
      BY <1>1, <1>3 DEF Request
    <3>2. s = q
      BY <2>1
    <3> HIDE DEF q, s
    <3>3. InChain(q)
      BY <1>3, <2>1, <3>1 DEF InChain, TodoOK
    <3> QED
      BY <3>1, <3>2, <3>3 DEF RequestOK, Runs
  <2>2. CASE op = "remove"
    <3>1. s = RemoveOf(r, p)
      BY <2>2
    <3> HIDE DEF r, s
    <3>2. /\ s \in Request
          /\ s.op = op /\ s.pkg = p /\ s.status = "started" /\ s.hr = "pending"
          /\ s.pc = "done" /\ s.rem = p /\ s.code = "ok"
      BY <1>1, <3>1, RemoveOfFields
    <3>3. PlainRemoval(s)
      BY <2>2, <3>2 DEF PlainRemoval
    <3> QED
      BY <3>2, <3>3 DEF RequestOK, Runs
  <2> QED
    BY <2>1, <2>2
<1> HIDE DEF r, s
<1>5. /\ ReqInv'
      /\ req'[t] = s
      /\ \A u \in Threads : u # t => req'[u] = req[u]
    BY <1>2, <1>4, ReqStep DEF DeployInv
<1>6. hive' = hive
    BY DEF Start, machineVars
<1>7. \A q \in Packages : hive[q] # <<t, "add">> /\ hive[q] # <<t, "remove">>
    BY DEF DeployInv, HiveInv, HoldsAdd, HoldsRemove, Start
<1>8. HiveInv'
    BY <1>5, <1>6, <1>7, HiveStep DEF DeployInv
<1>9. MachineTypeOK'
  <2>1. requests' \in 0..MaxRequests
    BY DeployAssumption DEF DeployInv, MachineTypeOK, Start
  <2> QED
    BY <2>1 DEF DeployInv, MachineTypeOK, VfsTypeOK, RegTypeOK, Start, machineVars
<1> QED
    BY <1>5, <1>8, <1>9 DEF DeployInv

LEMMA CancelInv ==
    ASSUME DeployInv, NEW t \in Threads, CancelRequest(t)
    PROVE  DeployInv'
<1> DEFINE s == [req[t] EXCEPT !.cancelled = TRUE]
<1>1. req[t] \in Request
    BY DEF DeployInv, ReqInv
<1>2. /\ s \in Request
      /\ s.op = req[t].op /\ s.pkg = req[t].pkg /\ s.pc = req[t].pc /\ s.rem = req[t].rem
      /\ s.code = req[t].code /\ s.hr = req[t].hr /\ s.status = req[t].status
      /\ s.todo = req[t].todo
    BY <1>1 DEF Request
<1>3. req' = [req EXCEPT ![t] = s]
    BY DEF CancelRequest, DeployInv, ReqInv
<1> HIDE DEF s
<1>4. ReqInv' /\ HiveInv'
    BY <1>2, <1>3, QuietInv DEF CancelRequest, machineVars, DeployInv
<1>5. MachineTypeOK'
    BY DEF DeployInv, MachineTypeOK, VfsTypeOK, RegTypeOK, CancelRequest, machineVars
<1> QED
    BY <1>4, <1>5 DEF DeployInv

LEMMA CrashInv ==
    ASSUME DeployInv, NEW t \in Threads, Crash(t)
    PROVE  DeployInv'
<1> DEFINE s == Returned(req[t], "killed")
<1>1. RequestOK(req[t]) /\ req[t] \in Request /\ Runs(req[t])
    BY DEF DeployInv, ReqInv, RequestOK, Over, Crash, Active
<1>2. s \in Request /\ s.hr = "killed" /\ s.pkg = req[t].pkg
    BY <1>1, ReturnedFields
<1>3. req' = [req EXCEPT ![t] = s]
    BY DEF Crash
<1> HIDE DEF s
<1>4. RequestOK(s)
    BY <1>1, <1>2 DEF RequestOK, Over, Runs
<1>5. /\ ReqInv'
      /\ req'[t] = s
      /\ \A u \in Threads : u # t => req'[u] = req[u]
    BY <1>3, <1>4, ReqStep DEF DeployInv
<1>6. \A p \in Packages :
          hive'[p] = IF hive[p] \in {t} \X {"add", "remove"} THEN Stray ELSE hive[p]
    BY DEF Crash
<1>7. \A p \in Packages, u \in Threads, k \in {"add", "remove"} :
          hive'[p] = <<u, k>> => hive[p] = <<u, k>> /\ u # t
    BY <1>6, HiveHolders
<1>8. HiveInv'
    BY <1>5, <1>7, HiveStep DEF DeployInv
<1>9. MachineTypeOK'
  <2>1. vfs' \in [Threads -> VfsRecord]
    BY CloseVfsType DEF Crash, DeployInv, MachineTypeOK
  <2>2. MountsOK(hive')
    BY DEF Crash, DeployInv, MachineTypeOK, MountsOK
  <2> QED
    BY <2>1, <2>2 DEF DeployInv, MachineTypeOK, VfsTypeOK, VfsRecord, RegTypeOK, Crash
<1> QED
    BY <1>5, <1>8, <1>9 DEF DeployInv

\* Goes, written as one update.
LEMMA GoesIs ==
    ASSUME req \in [Threads -> Request], NEW t \in Threads, Goes(t)
    PROVE  req' = [req EXCEPT ![t] = [req[t] EXCEPT
                                        !.pc = NextHandler(AddHandlers, @), !.todo = 0]]
BY DEF Goes

LEMMA TodoFields ==
    ASSUME NEW r \in Request, NEW n \in Nat, NEW s, s = [r EXCEPT !.todo = n]
    PROVE  /\ s \in Request /\ s.todo = n
           /\ s.op = r.op /\ s.pkg = r.pkg /\ s.pc = r.pc /\ s.rem = r.rem /\ s.rpc = r.rpc
           /\ s.code = r.code /\ s.hr = r.hr /\ s.status = r.status
BY DEF Request

LEMMA ValidateInv ==
    ASSUME DeployInv, NEW t \in Threads, Validate(t)
    PROVE  DeployInv'
<1>1. PICK h \in ReturnError \ {"ProcessPotentialUpdate"} : Adding(t, h)
    BY DEF Validate
<1>2. h # "InstallComplete" /\ h # "WriteDevirtualizedRegistry"
    BY HandlersDistinct
<1>3. ReqInv /\ HiveInv /\ req \in [Threads -> Request]
    BY DEF DeployInv, ReqInv
<1>4. hive' = hive
    BY DEF Validate, machineVars
<1>5. Goes(t) => ReqInv' /\ HiveInv'
    BY <1>1, <1>2, <1>3, <1>4, GoesIs, GoesInv
<1>6. Fails(t, "failed") => ReqInv' /\ HiveInv'
    BY <1>1, <1>3, <1>4, FailsInv DEF Errors
<1>7. MachineTypeOK'
    BY DEF DeployInv, MachineTypeOK, VfsTypeOK, RegTypeOK, Validate, machineVars
<1> QED
    BY <1>5, <1>6, <1>7 DEF Validate, DeployInv

LEMMA ProcessPotentialUpdateInv ==
    ASSUME DeployInv, NEW t \in Threads, ProcessPotentialUpdate(t)
    PROVE  DeployInv'
<1> DEFINE h == "ProcessPotentialUpdate"
           r == req[t]
<1>1. Adding(t, h)
    BY DEF ProcessPotentialUpdate
<1>2. ReqInv /\ HiveInv /\ req \in [Threads -> Request]
    BY DEF DeployInv, ReqInv
<1>3. hive' = hive
    BY DEF ProcessPotentialUpdate, machineVars
<1>4. r \in Request /\ Runs(r) /\ InChain(r) /\ r.pc = h /\ r.pkg \in Packages
    BY <1>1, <1>2, AddingRuns DEF Runs
<1>5. ASSUME Goes(t) PROVE ReqInv' /\ HiveInv'
    BY <1>1, <1>2, <1>3, <1>5, GoesIs, GoesInv
<1>6. ASSUME Fails(t, "downgrade") PROVE ReqInv' /\ HiveInv'
  <2>1. h \in ReturnError
    BY DEF ReturnError
  <2> QED
    BY <1>1, <1>2, <1>3, <1>6, <2>1, FailsInv DEF Errors
<1>7. ASSUME NEW s, RequestOK(s), Runs(s), req' = [req EXCEPT ![t] = s]
      PROVE  ReqInv' /\ HiveInv'
  <2>1. /\ ReqInv'
        /\ \A u \in Threads : u # t => req'[u] = req[u]
    BY <1>2, <1>7, ReqStep
  <2>2. \A p \in Packages : hive'[p] # <<t, "add">> /\ hive'[p] # <<t, "remove">>
    BY <1>1, <1>2, <1>3, ChainHive DEF HoldingHandlers, Registrars
  <2> QED
    BY <1>2, <1>3, <2>1, <2>2, HiveStep
<1>8. ASSUME req' = [req EXCEPT ![t].reinstall = TRUE, ![t].pc = "Extractor"]
      PROVE  ReqInv' /\ HiveInv'
  <2> DEFINE s == [r EXCEPT !.reinstall = TRUE, !.pc = "Extractor"]
  <2>1. req' = [req EXCEPT ![t] = s]
    BY <1>2, <1>8
  <2>2. "Extractor" \in KeysOf(AddHandlers)
    BY HandlersDistinct
  <2> HIDE DEF r
  <2>3. /\ s \in Request
        /\ s.pc = "Extractor" /\ s.todo = r.todo
        /\ s.op = r.op /\ s.pkg = r.pkg /\ s.rem = r.rem /\ s.status = r.status
        /\ s.code = r.code /\ s.hr = r.hr
    BY <1>4, <2>2 DEF Request
  <2> HIDE DEF s
  <2>4. s.todo = 0
    BY <1>4, <2>3 DEF InChain, TodoOK, ReturnError
  <2>5. TodoOK(s)
    BY <1>4, <2>3, <2>4, ContentsFacts DEF TodoOK
  <2>6. InChain(s)
    BY <1>4, <2>2, <2>3, <2>5 DEF InChain
  <2>7. Runs(s) /\ RequestOK(s)
    BY <1>4, <2>3, <2>6 DEF Runs, RequestOK
  <2> QED
    BY <1>7, <2>1, <2>7
<1>9. ASSUME NEW q \in Packages, Family[q] = Family[r.pkg], Version[r.pkg] > Version[q],
             req' = [req EXCEPT ![t] = RemoveOf(@, q)]
      PROVE  ReqInv' /\ HiveInv'
  <2> DEFINE s == RemoveOf(r, q)
  <2>1. req' = [req EXCEPT ![t] = s]
    BY <1>9
  <2> HIDE DEF r
  <2>2. /\ s \in Request
        /\ s.rem = q /\ s.todo = r.todo
        /\ s.op = r.op /\ s.pkg = r.pkg /\ s.pc = r.pc /\ s.status = r.status
        /\ s.code = r.code /\ s.hr = r.hr
    BY <1>4, RemoveOfFields
  <2> HIDE DEF s
  <2>3. r.todo = 0
    BY <1>4 DEF InChain, TodoOK, ReturnError
  <2>4. Version[q] < Version[r.pkg]
    BY <1>4, <1>9, NamesAssumption
  <2>5. Updating(s)
    BY <1>4, <1>9, <2>2, <2>3, <2>4 DEF Updating, InChain
  <2>6. Runs(s) /\ RequestOK(s)
    BY <1>4, <2>2, <2>5 DEF Runs, RequestOK
  <2> QED
    BY <1>7, <2>1, <2>6
<1>10. ReqInv' /\ HiveInv'
    BY <1>5, <1>6, <1>8, <1>9 DEF ProcessPotentialUpdate
<1>11. MachineTypeOK'
    BY DEF DeployInv, MachineTypeOK, VfsTypeOK, RegTypeOK, ProcessPotentialUpdate, machineVars
<1> QED
    BY <1>10, <1>11 DEF DeployInv

LEMMA CreatePackageRootInv ==
    ASSUME DeployInv, NEW t \in Threads, CreatePackageRoot(t)
    PROVE  DeployInv'
<1> DEFINE r == req[t]
<1>1. Adding(t, "Extractor") /\ "Extractor" \notin ReturnError
    BY DEF CreatePackageRoot, ReturnError
<1>2. ReqInv /\ HiveInv /\ req \in [Threads -> Request]
    BY DEF DeployInv, ReqInv
<1>3. hive' = hive
    BY DEF CreatePackageRoot
<1>4. r \in Request /\ Runs(r) /\ InChain(r) /\ r.pc = "Extractor" /\ r.pkg \in Packages
    BY <1>1, <1>2, AddingRuns DEF Runs
<1>5. ASSUME Fails(t, "failed") PROVE ReqInv' /\ HiveInv'
    BY <1>1, <1>2, <1>3, <1>5, FailsInv DEF Errors
<1>6. ASSUME req' = [req EXCEPT ![t].todo = 1] PROVE ReqInv' /\ HiveInv'
  <2> DEFINE s == [r EXCEPT !.todo = 1]
  <2>1. req' = [req EXCEPT ![t] = s]
    BY <1>2, <1>6
  <2>2. /\ s \in Request /\ s.todo = 1
        /\ s.op = r.op /\ s.pkg = r.pkg /\ s.pc = r.pc /\ s.rem = r.rem
        /\ s.code = r.code /\ s.hr = r.hr /\ s.status = r.status
    BY <1>4, TodoFields
  <2> HIDE DEF s
  <2>3. TodoOK(s)
    BY <1>1, <1>4, <2>2, ContentsFacts DEF TodoOK
  <2> QED
    BY <1>1, <1>2, <1>3, <1>4, <2>1, <2>2, <2>3, QuietInv DEF Adding
<1>7. ReqInv' /\ HiveInv'
    BY <1>5, <1>6 DEF CreatePackageRoot
<1>8. dir' \in [Packages -> SUBSET Items]
    BY DEF CreatePackageRoot, DeployInv, MachineTypeOK, Items
<1>9. MachineTypeOK'
    BY <1>8 DEF DeployInv, MachineTypeOK, VfsTypeOK, RegTypeOK, CreatePackageRoot
<1> QED
    BY <1>7, <1>9 DEF DeployInv

LEMMA ExtractFileInv ==
    ASSUME DeployInv, NEW t \in Threads, ExtractFile(t)
    PROVE  DeployInv'
<1> DEFINE r == req[t]
           item == Contents(r.pkg)[r.todo]
<1>1. Adding(t, "Extractor") /\ "Extractor" \notin ReturnError
    BY DEF ExtractFile, ReturnError
<1>2. ReqInv /\ HiveInv /\ req \in [Threads -> Request]
    BY DEF DeployInv, ReqInv
<1>3. hive' = hive
    BY DEF ExtractFile
<1>4. r \in Request /\ Runs(r) /\ InChain(r) /\ r.pc = "Extractor" /\ r.pkg \in Packages
    BY <1>1, <1>2, AddingRuns DEF Runs
<1>5. r.todo \in 1..Len(Contents(r.pkg))
    BY <1>4, ContentsFacts DEF InChain, TodoOK, ExtractFile
<1>6. item \in Items
    BY <1>4, <1>5, ContentsFacts DEF KeysOf
<1>7. ASSUME NEW code \in {"failed", "userexit"}, Fails(t, code)
      PROVE  ReqInv' /\ HiveInv'
    BY <1>1, <1>2, <1>3, <1>7, FailsInv DEF Errors
<1>8. ASSUME r.todo # Len(Contents(r.pkg)), req' = [req EXCEPT ![t].todo = @ + 1]
      PROVE  ReqInv' /\ HiveInv'
  <2> DEFINE s == [r EXCEPT !.todo = r.todo + 1]
  <2>1. req' = [req EXCEPT ![t] = s]
    BY <1>2, <1>8
  <2>2. r.todo + 1 \in Nat /\ r.todo + 1 \in 0..Len(Contents(r.pkg))
    BY <1>4, <1>5, <1>8, ContentsFacts
  <2> HIDE DEF r
  <2>3. /\ s \in Request /\ s.todo = r.todo + 1
        /\ s.op = r.op /\ s.pkg = r.pkg /\ s.pc = r.pc /\ s.rem = r.rem
        /\ s.code = r.code /\ s.hr = r.hr /\ s.status = r.status
    BY <1>4, <2>2, TodoFields
  <2> HIDE DEF s
  <2>4. TodoOK(s)
    BY <1>1, <1>4, <2>2, <2>3 DEF TodoOK
  <2> QED
    BY <1>1, <1>2, <1>3, <1>4, <2>1, <2>3, <2>4, QuietInv DEF Adding, r
<1>9. ASSUME req' = [req EXCEPT ![t].pc = NextHandler(AddHandlers, @), ![t].todo = 0,
                                ![t].status = "extraction"]
      PROVE  ReqInv' /\ HiveInv'
  <2> DEFINE s == [r EXCEPT !.pc = "PrepareDevirtualizedRegistry", !.todo = 0,
                            !.status = "extraction"]
  <2>1. NextHandler(AddHandlers, r.pc) = "PrepareDevirtualizedRegistry"
    BY <1>4, AddHandlersNext
  <2>2. req' = [req EXCEPT ![t] = s]
    BY <1>2, <1>9, <2>1
  <2>3. "PrepareDevirtualizedRegistry" \in KeysOf(AddHandlers) \ ReturnError
    BY HandlersDistinct
  <2> HIDE DEF r
  <2>4. /\ s \in Request
        /\ s.pc = "PrepareDevirtualizedRegistry" /\ s.todo = 0 /\ s.status = "extraction"
        /\ s.op = r.op /\ s.pkg = r.pkg /\ s.rem = r.rem
        /\ s.code = r.code /\ s.hr = r.hr
    BY <1>4, <2>3 DEF Request
  <2> HIDE DEF s
  <2>5. InChain(s)
    BY <1>4, <2>3, <2>4 DEF InChain, TodoOK
  <2>6. RequestOK(s)
    BY <1>4, <2>4, <2>5 DEF Runs, RequestOK
  <2>7. /\ ReqInv'
        /\ \A u \in Threads : u # t => req'[u] = req[u]
    BY <1>2, <2>2, <2>6, ReqStep
  <2>8. \A p \in Packages : hive'[p] # <<t, "add">> /\ hive'[p] # <<t, "remove">>
    BY <1>1, <1>2, <1>3, ChainHive DEF HoldingHandlers, Registrars
  <2> QED
    BY <1>2, <1>3, <2>7, <2>8, HiveStep
<1>10. ReqInv' /\ HiveInv'
    BY <1>7, <1>8, <1>9 DEF ExtractFile
<1>11. \/ dir' = dir
       \/ dir' = [dir EXCEPT ![r.pkg] = @ \cup {item}]
       \/ dir' = [dir EXCEPT ![r.pkg] = @ \ {item}]
    BY DEF ExtractFile
<1> HIDE DEF r, item
<1>12. dir' \in [Packages -> SUBSET Items]
    BY <1>6, <1>11 DEF DeployInv, MachineTypeOK
<1>13. MachineTypeOK'
    BY <1>12 DEF DeployInv, MachineTypeOK, VfsTypeOK, RegTypeOK, ExtractFile
<1> QED
    BY <1>10, <1>13 DEF DeployInv

LEMMA MountStep ==
    ASSUME MountsOK(hive), NEW t \in Threads, NEW p \in Packages, NEW k \in {"add", "remove"}
    PROVE  MountsOK([hive EXCEPT ![p] = <<t, k>>]) /\ MountsOK([hive EXCEPT ![p] = Free])
<1>1. Stray # <<t, k>> /\ Stray # Free
    BY DEF Stray, Free
<1> QED
    BY <1>1 DEF MountsOK

LEMMA PrepareInv ==
    ASSUME DeployInv, NEW t \in Threads, PrepareDevirtualizedRegistry(t)
    PROVE  DeployInv'
<1> DEFINE h == "PrepareDevirtualizedRegistry"
           r == req[t]
<1>1. Adding(t, h)
    BY DEF PrepareDevirtualizedRegistry
<1>2. ReqInv /\ HiveInv /\ req \in [Threads -> Request]
    BY DEF DeployInv, ReqInv
<1>3. r \in Request /\ Runs(r) /\ InChain(r) /\ r.pc = h /\ r.pkg \in Packages
    BY <1>1, <1>2, AddingRuns DEF Runs
<1>4. h \notin ReturnError
    BY DEF ReturnError
<1>5. /\ hive \in [Packages -> {Free, Stray} \cup (Threads \X {"add", "remove"})]
      /\ MountsOK(hive)
    BY DEF DeployInv, MachineTypeOK, MountsOK
<1>6. ASSUME Goes(t), hive' = hive PROVE ReqInv' /\ HiveInv'
    BY <1>1, <1>2, <1>6, GoesIs, GoesInv
<1>7. ASSUME Fails(t, "failed"), hive' = hive PROVE ReqInv' /\ HiveInv'
    BY <1>1, <1>2, <1>4, <1>7, FailsInv DEF Errors
<1>8. ASSUME Goes(t), hive' = [hive EXCEPT ![r.pkg] = <<t, "add">>]
      PROVE  ReqInv' /\ HiveInv'
  <2> DEFINE s == [r EXCEPT !.pc = NextHandler(AddHandlers, @), !.todo = 0]
  <2>1. /\ RequestOK(s) /\ Runs(s) /\ InChain(s)
        /\ s.pc = NextHandler(AddHandlers, h) /\ s.pkg = r.pkg
    BY <1>3, GoesOK
  <2>2. /\ ReqInv'
        /\ req'[t] = s
        /\ \A u \in Threads : u # t => req'[u] = req[u]
    BY <1>2, <1>8, <2>1, GoesIs, ReqStep
  <2>3. s.pc = "VirtualFileHandler"
    BY <2>1, AddHandlersNext
  <2> HIDE DEF s, r
  <2>4. \A p \in Packages : p = r.pkg => HoldsAdd(t, p)'
    BY <2>1, <2>2, <2>3 DEF HoldsAdd, Active, Runs, InChain, HoldingHandlers
  <2>5. \A p \in Packages : hive'[p] = IF p = r.pkg THEN <<t, "add">> ELSE hive[p]
    BY <1>3, <1>5, <1>8
  <2>6. \A p \in Packages : hive[p] # <<t, "add">> /\ hive[p] # <<t, "remove">>
    BY <1>1, <1>2, ChainHive DEF HoldingHandlers, Registrars
  <2>7. \A p \in Packages : hive'[p] # <<t, "remove">>
    BY <2>5, <2>6, HiveHolders
  <2>8. \A p \in Packages : hive'[p] = <<t, "add">> => p = r.pkg
    BY <2>5, <2>6
  <2>9. \A p \in Packages, u \in Threads, k \in {"add", "remove"} :
            u # t /\ hive'[p] = <<u, k>> => hive[p] = <<u, k>>
    BY <2>5, HiveHolders
  <2>10. \A p \in Packages : hive'[p] = <<t, "add">> => HoldsAdd(t, p)'
    BY <2>4, <2>8
  <2> QED
    BY <1>2, <2>2, <2>7, <2>9, <2>10, HiveStep
<1>9. ReqInv' /\ HiveInv'
    BY <1>6, <1>7, <1>8 DEF PrepareDevirtualizedRegistry
<1>10. MountsOK(hive')
    BY <1>3, <1>5, MountStep DEF PrepareDevirtualizedRegistry
<1>11. MachineTypeOK'
    BY <1>10 DEF DeployInv, MachineTypeOK, VfsTypeOK, RegTypeOK, PrepareDevirtualizedRegistry
<1> QED
    BY <1>9, <1>11 DEF DeployInv

LEMMA CopyVfsFilesInv ==
    ASSUME DeployInv, NEW t \in Threads, CopyVfsFiles(t)
    PROVE  DeployInv'
<1> DEFINE h == "VirtualFileHandler"
           r == req[t]
<1>1. Adding(t, h) /\ h \notin ReturnError
    BY DEF CopyVfsFiles, ReturnError
<1>2. ReqInv /\ HiveInv /\ VfsTypeOK /\ req \in [Threads -> Request]
    BY DEF DeployInv, ReqInv, MachineTypeOK
<1>3. hive' = hive
    BY DEF CopyVfsFiles
<1>4. r \in Request /\ r.pkg \in Packages
    BY <1>1, <1>2, AddingRuns DEF Runs
<1>5. ASSUME req' = req PROVE ReqInv' /\ HiveInv'
    BY <1>2, <1>3, <1>5 DEF ReqInv, HiveInv, HoldsAdd, HoldsRemove, Active
<1>6. ASSUME OpenVfs(t, Vfs[r.pkg]) PROVE VfsTypeOK'
    BY <1>2, <1>4, <1>6, OpenVfsType, VfsAssumption
<1>7. ASSUME VfsDone(t), CloseVfs(t), Goes(t), UNCHANGED <<target, shared>>
      PROVE  VfsTypeOK' /\ ReqInv' /\ HiveInv'
  <2>1. ReqInv' /\ HiveInv'
    BY <1>1, <1>2, <1>3, <1>7, GoesIs, GoesInv
  <2>2. vfs' \in [Threads -> VfsRecord]
    BY <1>2, <1>7, CloseVfsType
  <2> QED
    BY <1>2, <1>7, <2>1, <2>2 DEF VfsTypeOK, VfsRecord
<1>8. ASSUME FailVfsFile(t, r.reinstall), Fails(t, "failed")
      PROVE  VfsTypeOK' /\ ReqInv' /\ HiveInv'
  <2>1. ReqInv' /\ HiveInv'
    BY <1>1, <1>2, <1>3, <1>8, FailsInv DEF Errors
  <2> QED
    BY <1>2, <1>8, <2>1, FailVfsFileType
<1>9. ASSUME NEW copies, CopyVfsFile(t, r.pkg, r.reinstall, copies) PROVE VfsTypeOK'
    BY <1>2, <1>4, <1>9, CopyVfsFileType
<1>10. VfsTypeOK' /\ ReqInv' /\ HiveInv'
    BY <1>2, <1>5, <1>6, <1>7, <1>8, <1>9, ReadSharedType DEF CopyVfsFiles
<1>11. MachineTypeOK'
    BY <1>10 DEF DeployInv, MachineTypeOK, RegTypeOK, CopyVfsFiles
<1> QED
    BY <1>10, <1>11 DEF DeployInv

LEMMA WriteInv ==
    ASSUME DeployInv, NEW t \in Threads, WriteDevirtualizedRegistry(t)
    PROVE  DeployInv'
<1> DEFINE h == "WriteDevirtualizedRegistry"
           r == req[t]
           freed == [hive EXCEPT ![r.pkg] = Free]
<1>1. Adding(t, h) /\ h \notin ReturnError /\ h # "Extractor" /\ h # "InstallComplete"
    BY DEF WriteDevirtualizedRegistry, DevirtualizeKey, ReturnError
<1>2. ReqInv /\ HiveInv /\ req \in [Threads -> Request]
    BY DEF DeployInv, ReqInv
<1>3. r \in Request /\ Runs(r) /\ InChain(r) /\ r.pc = h /\ r.pkg \in Packages
    BY <1>1, <1>2, AddingRuns DEF Runs
<1>4. MountsOK(hive) /\ RegTypeOK
    BY DEF DeployInv, MachineTypeOK
<1>5. hive' = hive \/ hive' = freed
    BY DEF WriteDevirtualizedRegistry, DevirtualizeKey, UnloadMountedHive
<1>0. \A p \in Packages : hive'[p] \in {hive[p], Free}
    BY <1>3, <1>4, <1>5 DEF MountsOK
<1>6. ASSUME req' = [req EXCEPT ![t].todo = @ + 1]
      PROVE  ReqInv' /\ HiveInv'
  <2> DEFINE s == [r EXCEPT !.todo = r.todo + 1]
  <2>1. req' = [req EXCEPT ![t] = s]
    BY <1>2, <1>6
  <2>2. r.todo + 1 \in Nat
    BY <1>3 DEF Request
  <2> HIDE DEF r
  <2>3. /\ s \in Request /\ s.todo = r.todo + 1
        /\ s.op = r.op /\ s.pkg = r.pkg /\ s.pc = r.pc /\ s.rem = r.rem
        /\ s.code = r.code /\ s.hr = r.hr /\ s.status = r.status
    BY <1>3, <2>2, TodoFields
  <2> HIDE DEF s
  <2>4. TodoOK(s)
    BY <1>1, <1>3, <2>3 DEF TodoOK
  <2> QED
    BY <1>0, <1>1, <1>2, <1>3, <2>1, <2>3, <2>4, QuietInv DEF Adding, r
<1>7. ASSUME Goes(t) PROVE ReqInv' /\ HiveInv'
    BY <1>0, <1>1, <1>2, <1>7, GoesIs, GoesInv
<1>8. ASSUME Fails(t, "failed") PROVE ReqInv' /\ HiveInv'
    BY <1>0, <1>1, <1>2, <1>8, FailsInv DEF Errors
<1>9. ReqInv' /\ HiveInv'
    BY <1>6, <1>7, <1>8 DEF WriteDevirtualizedRegistry, DevirtualizeKey
<1>10. MountsOK(hive')
    BY <1>3, <1>4, <1>5, MountStep
<1>11. reg' \in [Keys -> Entry]
  <2>1. reg' = reg \/ (\E k : reg' = Written(r.pkg, k)) \/ (\E k : reg' = Torn(r.pc, r.pkg, k))
    BY DEF WriteDevirtualizedRegistry, DevirtualizeKey
  <2>2. r.pkg \in Packages /\ RegTypeOK
    BY <1>3, <1>4
  <2> HIDE DEF r, h, freed
  <2> QED
    BY <2>1, <2>2, RegWriteType DEF RegTypeOK
<1>12. MachineTypeOK'
    BY <1>10, <1>11
        DEF DeployInv, MachineTypeOK, VfsTypeOK, RegTypeOK, WriteDevirtualizedRegistry, DevirtualizeKey
<1> QED
    BY <1>9, <1>12 DEF DeployInv

LEMMA PSFScriptExecuterInv ==
    ASSUME DeployInv, NEW t \in Threads, PSFScriptExecuter(t)
    PROVE  DeployInv'
<1>1. /\ Adding(t, "PSFScriptExecuter") /\ "PSFScriptExecuter" \notin ReturnError
      /\ hive' = hive
    BY DEF PSFScriptExecuter, ReturnError, machineVars
<1>2. ReqInv /\ HiveInv /\ req \in [Threads -> Request]
    BY DEF DeployInv, ReqInv
<1>3. ASSUME Goes(t) PROVE ReqInv' /\ HiveInv'
    BY <1>1, <1>2, <1>3, GoesIs, GoesInv
<1>4. ASSUME NEW code \in {"failed", "userexit"}, Fails(t, code) PROVE ReqInv' /\ HiveInv'
    BY <1>1, <1>2, <1>4, FailsInv DEF Errors
<1>5. ASSUME req' = [req EXCEPT ![t].todo = 1] PROVE ReqInv' /\ HiveInv'
  <2> DEFINE r == req[t]
             s == [r EXCEPT !.todo = 1]
  <2>0. r \in Request /\ InChain(r) /\ r.pc = "PSFScriptExecuter"
    BY <1>1, <1>2, AddingRuns
  <2>1. req' = [req EXCEPT ![t] = s]
    BY <1>2, <1>5
  <2> HIDE DEF r
  <2>2. /\ s \in Request /\ s.todo = 1
        /\ s.op = r.op /\ s.pkg = r.pkg /\ s.pc = r.pc /\ s.rem = r.rem
        /\ s.code = r.code /\ s.hr = r.hr /\ s.status = r.status
    BY <2>0, TodoFields
  <2> HIDE DEF s
  <2>3. TodoOK(s)
    BY <1>1, <2>0, <2>2 DEF TodoOK
  <2> QED
    BY <1>1, <1>2, <2>0, <2>1, <2>2, <2>3, QuietInv DEF Adding, r
<1>6. MachineTypeOK'
    BY DEF DeployInv, MachineTypeOK, VfsTypeOK, RegTypeOK, PSFScriptExecuter, machineVars
<1> QED
    BY <1>3, <1>4, <1>5, <1>6 DEF PSFScriptExecuter, DeployInv

LEMMA ScriptEndsInv ==
    ASSUME DeployInv, NEW t \in Threads, ScriptEnds(t)
    PROVE  DeployInv'
<1>1. Adding(t, "PSFScriptExecuter") /\ hive' = hive /\ Goes(t)
    BY DEF ScriptEnds, machineVars
<1>2. ReqInv /\ HiveInv /\ req \in [Threads -> Request]
    BY DEF DeployInv, ReqInv
<1>3. ReqInv' /\ HiveInv'
    BY <1>1, <1>2, GoesIs, GoesInv
<1>4. MachineTypeOK'
    BY DEF DeployInv, MachineTypeOK, VfsTypeOK, RegTypeOK, ScriptEnds, machineVars
<1> QED
    BY <1>3, <1>4 DEF DeployInv

LEMMA RegisterInv ==
    ASSUME DeployInv, NEW t \in Threads, Register(t)
    PROVE  DeployInv'
<1> DEFINE r == req[t]
<1>1. PICK h \in Registrars : Adding(t, h)
    BY DEF Register
<1>2. ReqInv /\ HiveInv /\ req \in [Threads -> Request] /\ RegTypeOK
    BY DEF DeployInv, ReqInv, MachineTypeOK
<1>3. hive' = hive
    BY DEF Register
<1>4. r \in Request /\ Runs(r) /\ InChain(r) /\ r.pc = h /\ r.pkg \in Packages
    BY <1>1, <1>2, AddingRuns DEF Runs
<1>5. /\ h \notin ReturnError /\ h # "InstallComplete" /\ h # "Extractor"
      /\ h # "WriteDevirtualizedRegistry"
    BY HandlersDistinct
<1>6. ASSUME req' = [req EXCEPT ![t].todo = @ + 1] PROVE ReqInv' /\ HiveInv'
  <2> DEFINE s == [r EXCEPT !.todo = r.todo + 1]
  <2>1. req' = [req EXCEPT ![t] = s]
    BY <1>2, <1>6
  <2>2. r.todo + 1 \in Nat
    BY <1>4 DEF Request
  <2> HIDE DEF r
  <2>3. /\ s \in Request /\ s.todo = r.todo + 1
        /\ s.op = r.op /\ s.pkg = r.pkg /\ s.pc = r.pc /\ s.rem = r.rem
        /\ s.code = r.code /\ s.hr = r.hr /\ s.status = r.status
    BY <1>4, <2>2, TodoFields
  <2> HIDE DEF s
  <2>4. TodoOK(s)
    BY <1>4, <1>5, <2>3 DEF TodoOK
  <2> QED
    BY <1>1, <1>2, <1>3, <1>4, <2>1, <2>3, <2>4, QuietInv DEF Adding, r
<1>7. ASSUME Goes(t) PROVE ReqInv' /\ HiveInv'
    BY <1>1, <1>2, <1>3, <1>5, <1>7, GoesIs, GoesInv
<1>8. ASSUME NEW code \in {"failed", "userexit"}, Fails(t, code) PROVE ReqInv' /\ HiveInv'
    BY <1>1, <1>2, <1>3, <1>5, <1>8, FailsInv DEF Errors
<1>9. ReqInv' /\ HiveInv'
    BY <1>6, <1>7, <1>8 DEF Register
<1>10. reg' \in [Keys -> Entry]
  <2>1. reg' = reg \/ (\E k : reg' = Written(r.pkg, k)) \/ (\E k : reg' = Torn(r.pc, r.pkg, k))
    BY DEF Register
  <2>2. \A k : Written(r.pkg, k) \in [Keys -> Entry] /\ Torn(r.pc, r.pkg, k) \in [Keys -> Entry]
    BY <1>2, <1>4, RegWriteType
  <2>3. reg \in [Keys -> Entry]
    BY <1>2 DEF RegTypeOK
  <2> HIDE DEF r
  <2> QED
    BY <2>1, <2>2, <2>3
<1>11. MachineTypeOK'
    BY <1>10 DEF DeployInv, MachineTypeOK, VfsTypeOK, RegTypeOK, Register
<1> QED
    BY <1>9, <1>11 DEF DeployInv

LEMMA InstallCompleteInv ==
    ASSUME DeployInv, NEW t \in Threads, InstallComplete(t)
    PROVE  DeployInv'
<1> DEFINE r == req[t]
           c == IF r.cancelled THEN r ELSE [r EXCEPT !.status = "completed"]
           s == Returned(c, "ok")
<1>1. Adding(t, "InstallComplete")
    BY DEF InstallComplete
<1>2. ReqInv /\ HiveInv /\ req \in [Threads -> Request]
    BY DEF DeployInv, ReqInv
<1>3. r \in Request /\ Runs(r) /\ InChain(r) /\ r.pkg \in Packages
    BY <1>1, <1>2, AddingRuns DEF Runs
<1>4. req' = [req EXCEPT ![t] = s]
    BY DEF InstallComplete
<1> HIDE DEF r
<1>5. c \in Request /\ c.status \in {"started", "extraction", "completed"} /\ c.pkg = r.pkg
    BY <1>3 DEF Request, InChain
<1> HIDE DEF c
<1>6. s \in Request /\ s.hr = "ok" /\ s.status = c.status /\ s.pkg = r.pkg
    BY <1>5, ReturnedFields
<1> HIDE DEF s
<1>7. RequestOK(s)
    BY <1>3, <1>5, <1>6 DEF RequestOK, Over, Errors
<1>8. /\ ReqInv'
      /\ \A u \in Threads : u # t => req'[u] = req[u]
    BY <1>2, <1>4, <1>7, ReqStep
<1>9. \A p \in Packages : hive'[p] \in {hive[p], Free, Stray} /\ hive'[p] # <<t, "add">>
    BY ReleaseFacts DEF InstallComplete
<1>10. \A p \in Packages : hive[p] # <<t, "remove">>
    BY <1>1, <1>2, ChainHive
<1>11. \A p \in Packages : hive'[p] # <<t, "add">> /\ hive'[p] # <<t, "remove">>
    BY <1>9, <1>10, HiveHolders
<1>12. \A p \in Packages, u \in Threads, k \in {"add", "remove"} :
          u # t /\ hive'[p] = <<u, k>> => hive[p] = <<u, k>>
    BY <1>9, HiveHolders
<1>13. HiveInv'
    BY <1>2, <1>8, <1>11, <1>12, HiveStep
<1>14. MountsOK(hive')
    BY ReleaseMounts DEF InstallComplete, DeployInv, MachineTypeOK
<1>15. MachineTypeOK'
    BY <1>14 DEF DeployInv, MachineTypeOK, VfsTypeOK, RegTypeOK, InstallComplete
<1> QED
    BY <1>8, <1>13, <1>15 DEF DeployInv

\* GoesOn, written as one update.
LEMMA GoesOnIs ==
    ASSUME req \in [Threads -> Request], NEW t \in Threads, GoesOn(t)
    PROVE  /\ req' = [req EXCEPT ![t] =
                        [req[t] EXCEPT !.rpc = NextHandler(RemoveHandlers, req[t].rpc),
                                       !.left = req[t].left]]
           /\ req[t].left \in BOOLEAN
<1> DEFINE g == NextHandler(RemoveHandlers, req[t].rpc)
<1>1. req[t] \in Request
    OBVIOUS
<1>2. req' = [req EXCEPT ![t] = [req[t] EXCEPT !.rpc = g]]
    BY DEF GoesOn
<1> HIDE DEF g
<1>3. /\ [req[t] EXCEPT !.rpc = g] = [req[t] EXCEPT !.rpc = g, !.left = req[t].left]
      /\ req[t].left \in BOOLEAN
    BY <1>1 DEF Request
<1> QED
    BY <1>2, <1>3 DEF g

LEMMA GoesOnStep ==
    ASSUME ReqInv, HiveInv, NEW t \in Threads, NEW h \in KeysOf(RemoveHandlers) \ {"Extractor"},
           Removing(t, h), GoesOn(t),
           \A p \in Packages : \/ hive'[p] \in {hive[p], Free}
                               \/ p = req[t].rem /\ hive'[p] = <<t, "remove">>
    PROVE  ReqInv' /\ HiveInv'
<1> DEFINE g == NextHandler(RemoveHandlers, req[t].rpc)
<1>1. g \in KeysOf(RemoveHandlers)
    BY NextRemove DEF Removing
<1>2. /\ req' = [req EXCEPT ![t] = [req[t] EXCEPT !.rpc = g, !.left = req[t].left]]
      /\ req[t].left \in BOOLEAN
    BY GoesOnIs DEF ReqInv
<1> HIDE DEF g
<1> QED
    BY <1>1, <1>2, GoesOnInv

LEMMA ReadManifestInv ==
    ASSUME DeployInv, NEW t \in Threads, ReadManifest(t)
    PROVE  DeployInv'
<1>1. Removing(t, "PopulatePackageInfo")
    BY DEF ReadManifest
<1>2. ReqInv /\ HiveInv
    BY DEF DeployInv
<1>3. "PopulatePackageInfo" \in KeysOf(RemoveHandlers) \ {"Extractor"}
    BY HandlersDistinct
<1>4. ASSUME GoesOn(t), hive' = hive PROVE ReqInv' /\ HiveInv'
    BY <1>1, <1>2, <1>3, <1>4, GoesOnStep
<1>0. MountsOK(hive) /\ stuck \subseteq Packages /\ req[t].rem \in Packages
    BY <1>1, <1>2, RemovingRuns DEF DeployInv, MachineTypeOK
<1>5. ASSUME RemovalReturns(t, "failed") PROVE ReqInv' /\ HiveInv' /\ MountsOK(hive')
    BY <1>0, <1>1, <1>2, <1>5, RemovalReturnsInv
<1>6. MountsOK(hive') /\ stuck' \subseteq Packages
    BY <1>0, <1>5 DEF ReadManifest
<1>7. MachineTypeOK'
    BY <1>6 DEF DeployInv, MachineTypeOK, VfsTypeOK, RegTypeOK, ReadManifest
<1> QED
    BY <1>4, <1>5, <1>7 DEF ReadManifest, DeployInv

LEMMA UnregisterInv ==
    ASSUME DeployInv, NEW t \in Threads, Unregister(t)
    PROVE  DeployInv'
<1>1. PICK h \in Registrars : Removing(t, h)
    BY DEF Unregister
<1>2. ReqInv /\ HiveInv /\ RegTypeOK
    BY DEF DeployInv, MachineTypeOK
<1>3. h \in KeysOf(RemoveHandlers) \ {"Extractor"}
    BY HandlersDistinct
<1>4. req[t].rem \in Packages
    BY <1>1, <1>2, RemovingRuns
<1>5. ReqInv' /\ HiveInv'
    BY <1>1, <1>2, <1>3, GoesOnStep DEF Unregister
<1>6. \E ks, S : reg' = Unregistered(req[t].rpc, req[t].rem, ks, S)
    BY DEF Unregister
<1>7. reg' \in [Keys -> Entry]
    BY <1>2, <1>4, <1>6, RegDeleteType
<1>8. MachineTypeOK'
    BY <1>7 DEF DeployInv, MachineTypeOK, VfsTypeOK, RegTypeOK, Unregister
<1> QED
    BY <1>5, <1>8 DEF DeployInv

LEMMA PrepareForRemoveInv ==
    ASSUME DeployInv, NEW t \in Threads, PrepareForRemove(t)
    PROVE  DeployInv'
<1>1. Removing(t, "PrepareDevirtualizedRegistry")
    BY DEF PrepareForRemove
<1>2. ReqInv /\ HiveInv
    BY DEF DeployInv
<1>3. "PrepareDevirtualizedRegistry" \in KeysOf(RemoveHandlers) \ {"Extractor"}
    BY HandlersDistinct
<1>4. MountsOK(hive) /\ req[t].rem \in Packages
    BY <1>1, <1>2, RemovingRuns DEF DeployInv, MachineTypeOK
<1>5. hive' = hive \/ hive' = [hive EXCEPT ![req[t].rem] = <<t, "remove">>]
    BY DEF PrepareForRemove
<1>6. \A p \in Packages : \/ hive'[p] \in {hive[p], Free}
                          \/ p = req[t].rem /\ hive'[p] = <<t, "remove">>
    BY <1>4, <1>5 DEF MountsOK
<1>7. ReqInv' /\ HiveInv'
    BY <1>1, <1>2, <1>3, <1>6, GoesOnStep DEF PrepareForRemove
<1>8. MountsOK(hive')
    BY <1>4, <1>5, MountStep
<1>9. MachineTypeOK'
    BY <1>8 DEF DeployInv, MachineTypeOK, VfsTypeOK, RegTypeOK, PrepareForRemove
<1> QED
    BY <1>7, <1>9 DEF DeployInv

LEMMA RemoveVfsFilesInv ==
    ASSUME DeployInv, NEW t \in Threads, RemoveVfsFiles(t)
    PROVE  DeployInv'
<1> DEFINE listed == IF "blockmap" \in dir[req[t].rem] THEN Vfs[req[t].rem] ELSE {}
<1>1. Removing(t, "VirtualFileHandler")
    BY DEF RemoveVfsFiles
<1>2. ReqInv /\ HiveInv /\ VfsTypeOK
    BY DEF DeployInv, MachineTypeOK
<1>3. "VirtualFileHandler" \in KeysOf(RemoveHandlers) \ {"Extractor"}
    BY HandlersDistinct
<1>4. hive' = hive
    BY DEF RemoveVfsFiles
<1>5. listed \in SUBSET Files
    BY <1>1, <1>2, RemovingRuns, VfsAssumption
<1>6. ASSUME req' = req PROVE ReqInv' /\ HiveInv'
    BY <1>2, <1>4, <1>6 DEF ReqInv, HiveInv, HoldsAdd, HoldsRemove, Active
<1>7. ASSUME OpenVfs(t, listed) PROVE VfsTypeOK'
  <2> HIDE DEF listed
  <2> QED
    BY <1>2, <1>5, <1>7, OpenVfsType
<1>8. ASSUME VfsDone(t), CloseVfs(t), GoesOn(t), UNCHANGED <<target, shared>>
      PROVE  VfsTypeOK' /\ ReqInv' /\ HiveInv'
  <2>1. ReqInv' /\ HiveInv'
    BY <1>1, <1>2, <1>3, <1>4, <1>8, GoesOnStep
  <2>2. vfs' \in [Threads -> VfsRecord]
    BY <1>2, <1>8, CloseVfsType
  <2> QED
    BY <1>2, <1>8, <2>1, <2>2 DEF VfsTypeOK, VfsRecord
<1>9. ASSUME NEW deletes, RemoveVfsFile(t, deletes) PROVE VfsTypeOK'
    BY <1>2, <1>9, RemoveVfsFileType
<1>10. VfsTypeOK' /\ ReqInv' /\ HiveInv'
    BY <1>2, <1>6, <1>7, <1>8, <1>9, ReadSharedType DEF RemoveVfsFiles
<1>11. MachineTypeOK'
    BY <1>10 DEF DeployInv, MachineTypeOK, RegTypeOK, RemoveVfsFiles
<1> QED
    BY <1>10, <1>11 DEF DeployInv

LEMMA RemoveRegistryInv ==
    ASSUME DeployInv, NEW t \in Threads, RemoveDevirtualizedRegistry(t)
    PROVE  DeployInv'
<1>1. Removing(t, "WriteDevirtualizedRegistry")
    BY DEF RemoveDevirtualizedRegistry
<1>2. ReqInv /\ HiveInv /\ RegTypeOK
    BY DEF DeployInv, MachineTypeOK
<1>3. "WriteDevirtualizedRegistry" \in KeysOf(RemoveHandlers) \ {"Extractor"}
    BY HandlersDistinct
<1>4. MountsOK(hive) /\ req[t].rem \in Packages
    BY <1>1, <1>2, RemovingRuns DEF DeployInv, MachineTypeOK
<1>5. hive' = hive \/ hive' = [hive EXCEPT ![req[t].rem] = Free]
    BY DEF RemoveDevirtualizedRegistry, UnloadMountedHive
<1>6. \A p \in Packages : hive'[p] \in {hive[p], Free}
    BY <1>4, <1>5 DEF MountsOK
<1>7. ReqInv' /\ HiveInv'
    BY <1>1, <1>2, <1>3, <1>6, GoesOnStep DEF RemoveDevirtualizedRegistry
<1>8. MountsOK(hive')
    BY <1>4, <1>5, MountStep
<1>9. reg' = reg \/ \E S : reg' = Deleted(S)
    BY DEF RemoveDevirtualizedRegistry
<1>10. reg' \in [Keys -> Entry]
  <2>1. req[t].rem \in Packages
    BY <1>1, <1>2, RemovingRuns
  <2> QED
    BY <1>2, <1>9, <2>1, RegDeleteType DEF RegTypeOK
<1>11. MachineTypeOK'
    BY <1>8, <1>10 DEF DeployInv, MachineTypeOK, VfsTypeOK, RegTypeOK, RemoveDevirtualizedRegistry
<1> QED
    BY <1>7, <1>11 DEF DeployInv

LEMMA RemoveDirectoryInv ==
    ASSUME DeployInv, NEW t \in Threads, RemoveDirectory(t)
    PROVE  DeployInv'
<1>1. Removing(t, "Extractor")
    BY DEF RemoveDirectory
<1>2. ReqInv /\ HiveInv /\ req \in [Threads -> Request]
    BY DEF DeployInv, ReqInv
<1>3. PICK kept \in SUBSET dir[req[t].rem] :
          /\ dir' = [dir EXCEPT ![req[t].rem] = kept]
          /\ req' = [req EXCEPT ![t].rpc = "done", ![t].left = (kept # {})]
          /\ stuck' = IF kept = {} THEN stuck ELSE stuck \cup {req[t].rem}
    BY DEF RemoveDirectory
<1>4. req' = [req EXCEPT ![t] = [req[t] EXCEPT !.rpc = "done", !.left = (kept # {})]]
    BY <1>2, <1>3
<1>5. ReqInv' /\ HiveInv'
    BY <1>1, <1>2, <1>4, GoesOnInv DEF RemoveDirectory
<1>0. req[t].rem \in Packages
    BY <1>1, <1>2, RemovingRuns
<1>6. dir' \in [Packages -> SUBSET Items] /\ stuck' \subseteq Packages
    BY <1>0, <1>3 DEF DeployInv, MachineTypeOK
<1>7. MachineTypeOK'
    BY <1>6 DEF DeployInv, MachineTypeOK, VfsTypeOK, RegTypeOK, RemoveDirectory
<1> QED
    BY <1>5, <1>7 DEF DeployInv

LEMMA ReturnFromRemoveInv ==
    ASSUME DeployInv, NEW t \in Threads, ReturnFromRemove(t)
    PROVE  DeployInv'
<1>1. ReqInv' /\ HiveInv' /\ MountsOK(hive')
    BY RemovalReturnsInv DEF ReturnFromRemove, DeployInv, MachineTypeOK
<1>3. MachineTypeOK'
    BY <1>1 DEF DeployInv, MachineTypeOK, VfsTypeOK, RegTypeOK, ReturnFromRemove
<1> QED
    BY <1>1, <1>3 DEF DeployInv

LEMMA NextInv == DeployInv /\ [Next]_vars => DeployInv'
<1> SUFFICES ASSUME DeployInv, [Next]_vars PROVE DeployInv'
    OBVIOUS
<1>1. CASE UNCHANGED vars
    BY <1>1 DEF vars, DeployInv, MachineTypeOK, VfsTypeOK, RegTypeOK, ReqInv, HiveInv,
                HoldsAdd, HoldsRemove, Active
<1>2. ASSUME NEW t \in Threads, Step(t) PROVE DeployInv'
    BY <1>2, ValidateInv, ProcessPotentialUpdateInv, CreatePackageRootInv, ExtractFileInv,
       PrepareInv, CopyVfsFilesInv, WriteInv, PSFScriptExecuterInv, RegisterInv,
       InstallCompleteInv, ReadManifestInv, UnregisterInv, PrepareForRemoveInv,
       RemoveVfsFilesInv, RemoveRegistryInv, RemoveDirectoryInv, ReturnFromRemoveInv DEF Step
<1> QED
    BY <1>1, <1>2, StartInv, CancelInv, CrashInv, ScriptEndsInv DEF Next

LEMMA DeployInvHolds == Spec => []DeployInv
BY InitInv, NextInv, PTL DEF Spec

(***************************************************************************)
(* Whatever the threads do and whichever handler fails or process is       *)
(* killed, the state keeps its type.                                       *)
(***************************************************************************)
THEOREM DeployTypes == Spec => []DeployTypeOK
<1>1. DeployInv => DeployTypeOK
    BY DEF DeployInv, MachineTypeOK, MountsOK, ReqInv, DeployTypeOK
<1> QED
    BY <1>1, DeployInvHolds, PTL

(***************************************************************************)
(* For any number of threads, packages and faults: no request that has     *)
(* returned keeps a registry.dat mounted, a removal does so no longer than *)
(* it runs, and a mount nobody answers for is there only if a process can  *)
(* be killed or Windows can refuse to unload (RegistryDevirtualizer's      *)
(* destructor, UnloadMountedHive).                                         *)
(***************************************************************************)
THEOREM DeployHives == Spec => []HiveReleased
<1>1. DeployInv => HiveReleased
    BY DEF DeployInv, MachineTypeOK, MountsOK, HiveInv, HiveReleased, HoldsAdd, HoldsRemove
<1> QED
    BY <1>1, DeployInvHolds, PTL

-----------------------------------------------------------------------------
(***************************************************************************)
(* What each kind of step makes of the request.                            *)
(***************************************************************************)
LEMMA AfterGoes ==
    ASSUME ReqInv, NEW t \in Threads, NEW h, Adding(t, h), h # "InstallComplete", Goes(t)
    PROVE  /\ Runs(req'[t]) /\ InChain(req'[t])
           /\ req'[t].pc = NextHandler(AddHandlers, h) /\ req'[t].todo = 0
           /\ req'[t].pkg = req[t].pkg /\ req'[t].left = req[t].left
           /\ \A u \in Threads : u # t => req'[u] = req[u]
<1> DEFINE r == req[t]
           s == [r EXCEPT !.pc = NextHandler(AddHandlers, @), !.todo = 0]
<1>1. r \in Request /\ Runs(r) /\ InChain(r) /\ r.pc = h
    BY AddingRuns
<1>2. /\ RequestOK(s) /\ Runs(s) /\ InChain(s)
      /\ s.pc = NextHandler(AddHandlers, h) /\ s.todo = 0 /\ s.pkg = r.pkg
      /\ s.left = r.left
    BY <1>1, GoesOK
<1>3. req'[t] = s /\ \A u \in Threads : u # t => req'[u] = req[u]
    BY <1>2, GoesIs, ReqStep DEF ReqInv
<1> QED
    BY <1>2, <1>3

LEMMA AfterFails ==
    ASSUME ReqInv, NEW t \in Threads, NEW h, Adding(t, h), NEW code \in Errors,
           h \notin ReturnError => code # "downgrade",
           Fails(t, code)
    PROVE  /\ req'[t].op = "add" /\ req'[t].pkg = req[t].pkg
           /\ h \in ReturnError => /\ Over(req'[t]) /\ req'[t].hr = code
                                   /\ req'[t].left = req[t].left
           /\ h \notin ReturnError => /\ Runs(req'[t]) /\ RollingBack(req'[t])
                                      /\ req'[t].rpc = "PopulatePackageInfo"
           /\ \A u \in Threads : u # t => req'[u] = req[u]
<1> DEFINE r == req[t]
           s == Failed(r, code)
<1>1. r \in Request /\ Runs(r) /\ InChain(r) /\ r.pc = h
    BY AddingRuns
<1>2. /\ RequestOK(s)
      /\ s.op = "add" /\ s.pkg = r.pkg
      /\ h \in ReturnError => Over(s) /\ s.hr = code /\ s.left = r.left
      /\ h \notin ReturnError => Runs(s) /\ RollingBack(s) /\ s.rpc = "PopulatePackageInfo"
    BY <1>1, FailedOK
<1>3. req'[t] = s /\ \A u \in Threads : u # t => req'[u] = req[u]
    BY <1>2, FailsIs, ReqStep
<1> QED
    BY <1>2, <1>3

LEMMA AfterTodo ==
    ASSUME ReqInv, NEW t \in Threads, NEW h, Adding(t, h), NEW n \in Nat,
           req' = [req EXCEPT ![t].todo = n]
    PROVE  /\ req'[t].todo = n
           /\ req'[t].op = req[t].op /\ req'[t].pkg = req[t].pkg /\ req'[t].pc = h
           /\ req'[t].rem = NoPkg /\ req'[t].hr = "pending"
           /\ \A u \in Threads : u # t => req'[u] = req[u]
<1> DEFINE r == req[t]
           s == [r EXCEPT !.todo = n]
<1>1. r \in Request /\ r.pc = h /\ r.rem = NoPkg /\ r.hr = "pending"
    BY AddingRuns DEF Runs, InChain
<1>2. req' = [req EXCEPT ![t] = s]
    BY DEF ReqInv
<1>3. /\ s.op = r.op /\ s.pkg = r.pkg /\ s.pc = r.pc /\ s.rem = r.rem /\ s.todo = n
      /\ s.hr = r.hr
    BY <1>1, TodoFields
<1>4. req'[t] = s /\ \A u \in Threads : u # t => req'[u] = req[u]
    BY <1>2 DEF ReqInv
<1> QED
    BY <1>1, <1>3, <1>4

\* A removal goes on.
LEMMA AfterGoesOn ==
    ASSUME ReqInv, NEW t \in Threads, NEW h \in KeysOf(RemoveHandlers), Removing(t, h),
           NEW g \in KeysOf(RemoveHandlers) \cup {"done"}, NEW left \in BOOLEAN,
           req' = [req EXCEPT ![t] = [req[t] EXCEPT !.rpc = g, !.left = left]]
    PROVE  /\ Runs(req'[t])
           /\ PlainRemoval(req'[t]) \/ Updating(req'[t]) \/ RollingBack(req'[t])
           /\ req'[t].rpc = g /\ req'[t].rem = req[t].rem /\ req'[t].pkg = req[t].pkg
           /\ req'[t].op = req[t].op /\ req'[t].hr = req[t].hr /\ req'[t].left = left
           /\ \A u \in Threads : u # t => req'[u] = req[u]
<1> DEFINE r == req[t]
           s == [r EXCEPT !.rpc = g, !.left = left]
<1>1. /\ r \in Request /\ Runs(r)
      /\ PlainRemoval(r) \/ Updating(r) \/ RollingBack(r)
    BY RemovingRuns
<1>2. req'[t] = s /\ \A u \in Threads : u # t => req'[u] = req[u]
    BY DEF ReqInv
<1> HIDE DEF r
<1>3. s \in Request
    BY <1>1 DEF Request
<1>4. /\ s \in Request
      /\ s.rpc = g /\ s.left = left
      /\ s.op = r.op /\ s.pkg = r.pkg /\ s.pc = r.pc /\ s.rem = r.rem
      /\ s.status = r.status /\ s.code = r.code /\ s.hr = r.hr /\ s.todo = r.todo
    BY <1>1, <1>3 DEF Request
<1> HIDE DEF s
<1>5. /\ Runs(s)
      /\ PlainRemoval(s) \/ Updating(s) \/ RollingBack(s)
    BY <1>1, <1>4, SameShape
<1> QED
    BY <1>2, <1>4, <1>5 DEF r

LEMMA AfterGoesOnNext ==
    ASSUME ReqInv, NEW t \in Threads, NEW h \in KeysOf(RemoveHandlers) \ {"Extractor"},
           Removing(t, h), GoesOn(t)
    PROVE  /\ Runs(req'[t])
           /\ PlainRemoval(req'[t]) \/ Updating(req'[t]) \/ RollingBack(req'[t])
           /\ req'[t].rpc # "done" /\ req'[t].rem = req[t].rem /\ req'[t].pkg = req[t].pkg
           /\ req'[t].rpc = NextHandler(RemoveHandlers, h) /\ req'[t].left = req[t].left
           /\ req'[t].op = req[t].op /\ req'[t].hr = req[t].hr
           /\ \A u \in Threads : u # t => req'[u] = req[u]
<1> DEFINE g == NextHandler(RemoveHandlers, req[t].rpc)
<1>1. g \in KeysOf(RemoveHandlers) /\ g = NextHandler(RemoveHandlers, h)
    BY NextRemove DEF Removing
<1>2. /\ req' = [req EXCEPT ![t] = [req[t] EXCEPT !.rpc = g, !.left = req[t].left]]
      /\ req[t].left \in BOOLEAN
    BY GoesOnIs DEF ReqInv
<1> HIDE DEF g
<1>3. "done" \notin KeysOf(RemoveHandlers)
    BY RemoveHandlersKeys
<1>4. PICK left \in BOOLEAN : left = req[t].left
    BY <1>2
<1>5. PICK n \in KeysOf(RemoveHandlers) : n = g
    BY <1>1
<1>6. req' = [req EXCEPT ![t] = [req[t] EXCEPT !.rpc = n, !.left = left]]
    BY <1>2, <1>4, <1>5
<1>7. /\ Runs(req'[t])
      /\ PlainRemoval(req'[t]) \/ Updating(req'[t]) \/ RollingBack(req'[t])
      /\ req'[t].rpc = n /\ req'[t].rem = req[t].rem /\ req'[t].pkg = req[t].pkg
      /\ req'[t].left = left
      /\ req'[t].op = req[t].op /\ req'[t].hr = req[t].hr
      /\ \A u \in Threads : u # t => req'[u] = req[u]
    BY <1>6, AfterGoesOn
<1> QED
    BY <1>1, <1>3, <1>4, <1>5, <1>7

\* A removal returns.
LEMMA AfterReturns ==
    ASSUME ReqInv, NEW t \in Threads, NEW h, Removing(t, h),
           NEW hr \in {"ok", "failed"}, RemovalReturns(t, hr)
    PROVE  /\ req'[t].op = req[t].op /\ req'[t].pkg = req[t].pkg
           /\ req'[t].left = req[t].left
           /\ PlainRemoval(req[t]) => Over(req'[t]) /\ req'[t].hr = hr
           /\ Updating(req[t]) => /\ Runs(req'[t]) /\ InChain(req'[t])
                                  /\ req'[t].pc = "Extractor" /\ req'[t].todo = 0
           /\ RollingBack(req[t]) => Over(req'[t]) /\ req'[t].hr = req[t].code
           /\ \A u \in Threads : u # t => req'[u] = req[u]
<1> DEFINE r == req[t]
           s == Removed(r, hr)
<1>1. /\ r \in Request /\ Runs(r)
      /\ PlainRemoval(r) \/ Updating(r) \/ RollingBack(r)
    BY RemovingRuns
<1>2. /\ RequestOK(s)
      /\ s.op = r.op /\ s.pkg = r.pkg /\ s.left = r.left
      /\ PlainRemoval(r) => Over(s) /\ s.hr = hr
      /\ Updating(r) => Runs(s) /\ InChain(s) /\ s.pc = "Extractor" /\ s.todo = 0
      /\ RollingBack(r) => Over(s) /\ s.hr = r.code
    BY <1>1, RemovedOK
<1>3. req'[t] = s /\ \A u \in Threads : u # t => req'[u] = req[u]
    BY <1>2, ReqStep DEF RemovalReturns
<1> HIDE DEF s
<1> QED
    BY <1>2, <1>3

-----------------------------------------------------------------------------
(***************************************************************************)
(* One thread: what an add has done by the time it gets to a handler.      *)
(***************************************************************************)
LEMMA RankFacts ==
    /\ \A h \in KeysOf(AddHandlers) : AddRank[h] \in 1..20
    /\ \A h \in KeysOf(AddHandlers) \ {"InstallComplete"} :
          AddRank[NextHandler(AddHandlers, h)] = AddRank[h] + 1
    /\ \A g, h \in KeysOf(AddHandlers) : AddRank[g] = AddRank[h] => g = h
<1>1. \A h \in KeysOf(AddHandlers) : \E i \in 1..20 : h = AddHandlers[i] /\ AddRank[h] = i
    BY AddHandlersRank DEF KeysOf
<1>2. \A i \in 1..20 : NextHandler(AddHandlers, AddHandlers[i]) = AddHandlers[i + 1]
    BY AddHandlersRank, Successor
<1>3. \A i \in 1..19 : i + 1 \in 1..20 /\ AddRank[AddHandlers[i + 1]] = i + 1
    BY AddHandlersRank
<1>4. AddHandlers[20] = "InstallComplete"
    BY DEF AddHandlers
<1>5. \A h \in KeysOf(AddHandlers) \ {"InstallComplete"} :
          AddRank[NextHandler(AddHandlers, h)] = AddRank[h] + 1
  <2> SUFFICES ASSUME NEW h \in KeysOf(AddHandlers) \ {"InstallComplete"}
               PROVE  AddRank[NextHandler(AddHandlers, h)] = AddRank[h] + 1
    OBVIOUS
  <2>1. PICK i \in 1..20 : h = AddHandlers[i] /\ AddRank[h] = i
    BY <1>1
  <2>2. i \in 1..19
    BY <2>1, <1>4
  <2> QED
    BY <1>2, <1>3, <2>1, <2>2
<1> QED
    BY <1>1, <1>5

LEMMA RankValues ==
    /\ \A h \in ReturnError : AddRank[h] <= 4
    /\ AddRank["ProcessPotentialUpdate"] = 4 /\ AddRank["Extractor"] = 5
    /\ AddRank["PrepareDevirtualizedRegistry"] = 6 /\ AddRank["VirtualFileHandler"] = 7
    /\ AddRank["WriteDevirtualizedRegistry"] = 8 /\ AddRank["PSFScriptExecuter"] = 9
    /\ AddRank["StartMenuLink"] = 10 /\ AddRank["InstallComplete"] = 20
    /\ \A h \in Registrars : AddRank[h] \in 10..19
BY DEF AddRank, ReturnError, Registrars

\* The keys a handler writes.
LEMMA KeySequences ==
    ASSUME NEW p \in Packages
    PROVE  /\ HiveKeys[p] \in Seq(Keys)
           /\ \A h \in Registrars : HandlerKeys(h, p) \in Seq(Keys)
<1>1. /\ RegKeys \in [Registrars -> [Packages -> Seq(Keys)]]
      /\ ProgId[p] \in Keys /\ HiveKeys[p] \in Seq(Keys)
    BY RegAssumption
<1>2. \A h \in Registrars : RegKeys[h][p] \in Seq(Keys)
    BY <1>1
<1>3. ASSUME NEW h \in Registrars PROVE HandlerKeys(h, p) \in Seq(Keys)
  <2> DEFINE all == RegKeys[h][p]
  <2>1. HandlerKeys(h, p) = all \/ HandlerKeys(h, p) = Append(all, ProgId[p])
    BY DEF HandlerKeys
  <2>2. all \in Seq(Keys)
    BY <1>2
  <2> HIDE DEF all
  <2>3. Append(all, ProgId[p]) \in Seq(Keys)
    BY <1>1, <2>2
  <2> QED
    BY <2>1, <2>2, <2>3
<1> QED
    BY <1>1, <1>3

\* Less is passed over when registry.dat is not mounted.
LEMMA PassesOverFacts ==
    ASSUME NEW h, NEW p, NEW mounted \in BOOLEAN, NEW may \in BOOLEAN, mounted => may
    PROVE  PassesOver(h, p, mounted) \subseteq PassesOver(h, p, may)
<1>1. CASE mounted = FALSE
    BY <1>1 DEF PassesOver
<1>2. CASE mounted = TRUE
  <2>1. may = TRUE
    BY <1>2
  <2> QED
    BY <1>2, <2>1
<1> QED
    BY <1>1, <1>2

LEMMA ReportStep ==
    ASSUME OneThread, NEW t \in Threads, DirInv', Progress(t)', Told(t)'
    PROVE  ReportInv'
BY DEF OneThread, ReportInv

\* A step that moves no request and touches no directory, key or mount.
LEMMA SameReport ==
    ASSUME NEW t \in Threads, Progress(t), Told(t),
           req' = req, dir' = dir, reg' = reg, hive' = hive
    PROVE  Progress(t)' /\ Told(t)'
<1>1. Active(t)' <=> Active(t)
    BY DEF Active
<1>2. Extracted(req[t]) => Extracted(req[t])'
    BY DEF Extracted, Whole
<1>3. HiveWritten(t, req[t]) => HiveWritten(t, req[t])'
    BY DEF HiveWritten, InPlace
<1>4. KeysWritten(req[t]) => KeysWritten(req[t])'
    BY DEF KeysWritten, InPlace
<1>5. Progress(t)'
    BY <1>1, <1>2, <1>3, <1>4 DEF Progress, InChain
<1>6. Told(t)'
    BY <1>1 DEF Told, Whole, InPlace
<1> QED
    BY <1>5, <1>6

\* Before anything is extracted there is nothing to show.
LEMMA EarlyProgress ==
    ASSUME NEW t \in Threads, Runs(req'[t]), InChain(req'[t]),
           AddRank[req'[t].pc] <= 5, req'[t].todo = 0
    PROVE  Progress(t)' /\ Told(t)'
<1> DEFINE s == req'[t]
<1>1. s.rem = NoPkg /\ s.pc \in KeysOf(AddHandlers) /\ s.hr = "pending"
    BY DEF InChain, Runs
<1>2. AddRank[s.pc] \in 1..20 /\ \A h \in Registrars : AddRank[h] \in 10..19
    BY <1>1, RankFacts, RankValues
<1>3. Extracted(req[t])'
    BY <1>2 DEF Extracted
<1>4. /\ s.pc # "VirtualFileHandler" /\ s.pc # "WriteDevirtualizedRegistry"
      /\ ~(AddRank[s.pc] > 8)
    BY <1>2, RankValues
<1>5. HiveWritten(t, req[t])'
    BY <1>4, Zenon DEF HiveWritten
<1>6. KeysWritten(req[t])'
  <2>1. AddRank[s.pc] \in Int /\ AddRank[s.pc] <= 5
    BY <1>2
  <2>2. ASSUME NEW h \in Registrars
        PROVE  h # s.pc /\ ~(AddRank[h] < AddRank[s.pc])
    <3>1. AddRank[h] \in Int /\ AddRank[h] >= 10
      BY <1>2
    <3> HIDE DEF s
    <3> QED
      BY <2>1, <3>1
  <2> QED
    BY <2>2 DEF KeysWritten
<1> QED
    BY <1>1, <1>3, <1>5, <1>6 DEF Progress, Told, Active

\* Nor while a removal has handlers to run.
LEMMA RemovalProgress ==
    ASSUME NEW t \in Threads, Runs(req'[t]),
           PlainRemoval(req'[t]) \/ Updating(req'[t]) \/ RollingBack(req'[t]),
           req'[t].rpc # "done"
    PROVE  Progress(t)' /\ Told(t)'
<1>1. ~InChain(req'[t])
    BY NamesAssumption DEF PlainRemoval, Updating, RollingBack, InChain, Runs
<1>2. req'[t].hr = "pending"
    BY DEF Runs
<1> QED
    BY <1>1, <1>2 DEF Progress, Told, Active

\* An error other than a downgrade says nothing more.
LEMMA ErrorTold ==
    ASSUME NEW t \in Threads, req'[t].hr \in {"failed", "userexit", "killed"}
    PROVE  Progress(t)' /\ Told(t)'
BY DEF Progress, Told, Active

LEMMA StartReport ==
    ASSUME OneThread, DeployInv, ReportInv, NEW t \in Threads, NEW op \in {"add", "remove"},
           NEW p \in Packages, Start(t, op, p)
    PROVE  ReportInv'
<1>1. DeployInv'
    BY StartInv
<1> DEFINE r == [NoRequest EXCEPT !.op = op, !.pkg = p, !.status = "started",
                                  !.hr = "pending"]
           s == IF op = "add" THEN [r EXCEPT !.pc = "PopulatePackageInfo"] ELSE RemoveOf(r, p)
<1>2. req'[t] = s
    BY DEF Start, DeployInv, ReqInv
<1>3. /\ op = "add" => s.op = "add" /\ s.pc = "PopulatePackageInfo" /\ s.todo = 0
                       /\ s.rem = NoPkg
      /\ op = "remove" => s.op = "remove" /\ s.rpc = "PopulatePackageInfo" /\ s.rem = p
      /\ s.hr = "pending"
    BY DEF NoRequest, RemoveOf
<1> HIDE DEF s
<1>4. Runs(s)
    BY <1>1, <1>2, <1>3 DEF DeployInv, ReqInv, RequestOK, Over
<1>5. CASE op = "add"
  <2>1. InChain(s)
    BY <1>3, <1>4, <1>5, NamesAssumption DEF Runs, PlainRemoval, Updating, RollingBack
  <2>2. AddRank["PopulatePackageInfo"] <= 5
    BY DEF AddRank
  <2>3. Progress(t)' /\ Told(t)'
    BY <1>2, <1>3, <1>4, <1>5, <2>1, <2>2, EarlyProgress
  <2> QED
    BY <2>3, ReportStep DEF Start, machineVars, ReportInv, DirInv
<1>6. CASE op = "remove"
  <2>1. ~InChain(s)
    BY <1>3, <1>6 DEF InChain
  <2>2. Progress(t)' /\ Told(t)'
    BY <1>2, <1>3, <1>4, <1>6, <2>1, RemovalProgress DEF Runs
  <2> QED
    BY <2>2, ReportStep DEF Start, machineVars, ReportInv, DirInv
<1> QED
    BY <1>5, <1>6

LEMMA CancelReport ==
    ASSUME OneThread, DeployInv, ReportInv, NEW t \in Threads, CancelRequest(t)
    PROVE  ReportInv'
<1> DEFINE r == req[t]
           s == [r EXCEPT !.cancelled = TRUE]
<1>1. r \in Request /\ req'[t] = s
    BY DEF CancelRequest, DeployInv, ReqInv
<1>2. /\ s.op = r.op /\ s.pkg = r.pkg /\ s.pc = r.pc /\ s.rem = r.rem /\ s.rpc = r.rpc
      /\ s.code = r.code /\ s.hr = r.hr /\ s.status = r.status /\ s.todo = r.todo
      /\ s.left = r.left
    BY <1>1 DEF Request
<1>3. dir' = dir /\ hive' = hive /\ reg' = reg
    BY DEF CancelRequest, machineVars
<1> HIDE DEF s
<1>4. Active(t)' /\ Active(t)
    BY <1>1, <1>2 DEF Active, CancelRequest
<1>5. InChain(s) <=> InChain(r)
    BY <1>2 DEF InChain, TodoOK
<1>6. Extracted(r) => Extracted(req[t])'
    BY <1>1, <1>2, <1>3 DEF Extracted, Whole
<1>7. HiveWritten(t, r) => HiveWritten(t, req[t])'
    BY <1>1, <1>2, <1>3 DEF HiveWritten, InPlace
<1>8. KeysWritten(r) => KeysWritten(req[t])'
  <2>1. req[t]' = s /\ \A p, k : InPlace(p, k) <=> InPlace(p, k)'
    BY <1>1, <1>3 DEF InPlace
  <2>2. s.pkg = r.pkg /\ s.pc = r.pc /\ s.todo = r.todo
    BY <1>2
  <2> HIDE DEF r
  <2> QED
    BY <2>1, <2>2 DEF KeysWritten
<1>9. Progress(t)
    BY DEF ReportInv
<1>10. req[t]' = s
    BY <1>1
<1>11. InChain(s) => Extracted(req[t])' /\ HiveWritten(t, req[t])' /\ KeysWritten(req[t])'
    BY <1>4, <1>5, <1>6, <1>7, <1>8, <1>9 DEF Progress
<1>12. s.rem # NoPkg /\ s.rpc = "done" => dir'[s.rem] = {} \/ s.left
    BY <1>2, <1>3, <1>4, <1>9 DEF Progress
<1>13. Progress(t)' /\ Told(t)'
    BY <1>4, <1>10, <1>11, <1>12 DEF Progress, Told
<1> QED
    BY <1>3, <1>13, ReportStep DEF ReportInv, DirInv

LEMMA CrashReport ==
    ASSUME OneThread, DeployInv, ReportInv, NEW t \in Threads, Crash(t)
    PROVE  ReportInv'
<1>1. req[t] \in Request /\ req'[t] = Returned(req[t], "killed")
    BY DEF Crash, DeployInv, ReqInv
<1>2. req'[t].hr = "killed"
    BY <1>1, ReturnedFields
<1>3. Progress(t)' /\ Told(t)'
    BY <1>2, ErrorTold
<1> QED
    BY <1>3, ReportStep DEF Crash, ReportInv, DirInv

\* A handler after the extraction failed.
LEMMA LateFailReport ==
    ASSUME ReqInv, NEW t \in Threads, NEW h, Adding(t, h), h \notin ReturnError,
           NEW code \in {"failed", "userexit"}, Fails(t, code)
    PROVE  Progress(t)' /\ Told(t)'
<1>1. Runs(req'[t]) /\ RollingBack(req'[t]) /\ req'[t].rpc = "PopulatePackageInfo"
    BY AfterFails DEF Errors
<1> QED
    BY <1>1, RemovalProgress

LEMMA ValidateReport ==
    ASSUME OneThread, DeployInv, ReportInv, NEW t \in Threads, Validate(t)
    PROVE  ReportInv'
<1>1. PICK h \in ReturnError \ {"ProcessPotentialUpdate"} : Adding(t, h)
    BY DEF Validate
<1>2. ReqInv
    BY DEF DeployInv
<1>3. ASSUME Goes(t) PROVE Progress(t)' /\ Told(t)'
  <2>1. h \in KeysOf(AddHandlers) \ {"InstallComplete"}
    BY HandlersDistinct
  <2>2. AddRank[NextHandler(AddHandlers, h)] = AddRank[h] + 1 /\ AddRank[h] <= 4
        /\ AddRank[h] \in 1..20
    BY <2>1, RankFacts, RankValues
  <2>3. /\ Runs(req'[t]) /\ InChain(req'[t])
        /\ req'[t].pc = NextHandler(AddHandlers, h) /\ req'[t].todo = 0
    BY <1>1, <1>2, <1>3, <2>1, AfterGoes
  <2>4. AddRank[req'[t].pc] <= 5
    BY <2>2, <2>3
  <2> QED
    BY <2>3, <2>4, EarlyProgress
<1>4. ASSUME Fails(t, "failed") PROVE Progress(t)' /\ Told(t)'
  <2>1. req'[t].hr = "failed"
    BY <1>1, <1>2, <1>4, AfterFails DEF Errors
  <2> QED
    BY <2>1, ErrorTold
<1>5. Progress(t)' /\ Told(t)'
    BY <1>3, <1>4 DEF Validate
<1> QED
    BY <1>5, ReportStep DEF Validate, machineVars, ReportInv, DirInv

LEMMA ProcessPotentialUpdateReport ==
    ASSUME OneThread, DeployInv, ReportInv, NEW t \in Threads, ProcessPotentialUpdate(t)
    PROVE  ReportInv'
<1> DEFINE h == "ProcessPotentialUpdate"
           r == req[t]
           sameFamily == {q \in Packages : "root" \in dir[q] /\ Family[q] = Family[r.pkg]}
<1>1. Adding(t, h) /\ h \in ReturnError
    BY DEF ProcessPotentialUpdate, ReturnError
<1>2. ReqInv /\ DeployInv'
    BY ProcessPotentialUpdateInv DEF DeployInv
<1>3. r \in Request /\ Runs(r) /\ InChain(r) /\ r.pc = h /\ r.pkg \in Packages
    BY <1>1, <1>2, AddingRuns DEF Runs
<1>4. dir' = dir
    BY DEF ProcessPotentialUpdate, machineVars
<1>5. AddRank["Extractor"] <= 5
    BY RankValues
<1>6. ASSUME Goes(t) PROVE Progress(t)' /\ Told(t)'
  <2>1. /\ Runs(req'[t]) /\ InChain(req'[t])
        /\ req'[t].pc = "Extractor" /\ req'[t].todo = 0
    BY <1>1, <1>2, <1>6, AfterGoes, AddHandlersNext
  <2> QED
    BY <1>5, <2>1, EarlyProgress
<1>7. ASSUME req' = [req EXCEPT ![t].reinstall = TRUE, ![t].pc = "Extractor"]
      PROVE  Progress(t)' /\ Told(t)'
  <2>1. /\ req'[t].pc = "Extractor" /\ req'[t].hr = "pending" /\ req'[t].todo = r.todo
        /\ req'[t].rem = NoPkg /\ req'[t].op = "add"
    BY <1>2, <1>3, <1>7 DEF ReqInv, Request, Runs, InChain
  <2>2. r.todo = 0
    BY <1>1, <1>3 DEF InChain, TodoOK
  <2>3. Runs(req'[t])
    BY <1>2, <2>1 DEF DeployInv, ReqInv, RequestOK, Over
  <2>4. InChain(req'[t])
    BY <2>1, <2>3, NamesAssumption DEF Runs, PlainRemoval, Updating, RollingBack
  <2> QED
    BY <1>5, <2>1, <2>2, <2>3, <2>4, EarlyProgress
<1>8. ASSUME NEW q \in Packages, req' = [req EXCEPT ![t] = RemoveOf(@, q)]
      PROVE  Progress(t)' /\ Told(t)'
  <2>1. req'[t] = RemoveOf(r, q)
    BY <1>2, <1>8 DEF ReqInv
  <2>2. req'[t].rem = q /\ req'[t].rpc = "PopulatePackageInfo" /\ req'[t].hr = "pending"
    BY <1>3, <2>1, RemoveOfFields DEF Runs
  <2>3. Runs(req'[t])
    BY <1>2, <2>2 DEF DeployInv, ReqInv, RequestOK, Over
  <2>4. ~InChain(req'[t])
    BY <2>2, NamesAssumption DEF InChain
  <2> QED
    BY <2>2, <2>3, <2>4, RemovalProgress DEF Runs
<1>9. ASSUME NEW q \in sameFamily \ {r.pkg}, ~(Version[r.pkg] > Version[q]),
             Fails(t, "downgrade")
      PROVE  Progress(t)' /\ Told(t)'
  <2>1. req'[t].hr = "downgrade" /\ req'[t].pkg = r.pkg
    BY <1>1, <1>2, <1>9, AfterFails DEF Errors
  <2>2. Version[q] >= Version[r.pkg] /\ q \in Packages \ {r.pkg}
    BY <1>3, <1>9, NamesAssumption
  <2> QED
    BY <1>4, <1>9, <2>1, <2>2 DEF Progress, Told, Active
<1>10. Progress(t)' /\ Told(t)'
    BY <1>6, <1>7, <1>8, <1>9 DEF ProcessPotentialUpdate
<1> QED
    BY <1>4, <1>10, ReportStep DEF ReportInv, DirInv

LEMMA CreatePackageRootReport ==
    ASSUME OneThread, DeployInv, ReportInv, NEW t \in Threads, CreatePackageRoot(t)
    PROVE  ReportInv'
<1> DEFINE r == req[t]
<1>1. Adding(t, "Extractor") /\ "Extractor" \notin ReturnError
    BY DEF CreatePackageRoot, ReturnError
<1>2. ReqInv /\ DeployInv' /\ dir \in [Packages -> SUBSET Items]
    BY CreatePackageRootInv DEF DeployInv, MachineTypeOK
<1>3. r.pkg \in Packages /\ r.op = "add"
    BY <1>1, <1>2, AddingRuns DEF Runs, InChain
<1>4. ASSUME Fails(t, "failed") PROVE Progress(t)' /\ Told(t)'
    BY <1>1, <1>2, <1>4, LateFailReport
<1>5. ASSUME req' = [req EXCEPT ![t].todo = 1],
             dir' = [dir EXCEPT ![r.pkg] = @ \cup {"root"}]
      PROVE  Progress(t)' /\ Told(t)'
  <2>1. /\ req'[t].todo = 1 /\ req'[t].pc = "Extractor" /\ req'[t].pkg = r.pkg
        /\ req'[t].rem = NoPkg /\ req'[t].hr = "pending"
    BY <1>1, <1>2, <1>5, AfterTodo
  <2>2. "root" \in dir'[r.pkg]
    BY <1>2, <1>3, <1>5
  <2>3. Extracted(req[t])'
    BY <2>1, <2>2 DEF Extracted
  <2>4. AddRank[req'[t].pc] = 5
    BY <2>1, RankValues
  <2>5. HiveWritten(t, req[t])'
    BY <2>1, <2>4 DEF HiveWritten
  <2>6. \A h \in Registrars : h # "Extractor" /\ ~(AddRank[h] < 5)
    BY RankValues, HandlersDistinct
  <2>7. KeysWritten(req[t])'
    BY <2>1, <2>4, <2>6 DEF KeysWritten
  <2> QED
    BY <2>1, <2>3, <2>5, <2>7 DEF Progress, Told, Active
<1>6. Progress(t)' /\ Told(t)'
    BY <1>4, <1>5 DEF CreatePackageRoot
<1>7. DirInv'
    BY <1>2 DEF CreatePackageRoot, ReportInv, DirInv
<1> QED
    BY <1>6, <1>7, ReportStep

LEMMA ExtractFileReport ==
    ASSUME OneThread, DeployInv, ReportInv, NEW t \in Threads, ExtractFile(t)
    PROVE  ReportInv'
<1> DEFINE r == req[t]
           p == r.pkg
           n == Len(Contents(p))
           item == Contents(p)[r.todo]
<1>1. Adding(t, "Extractor") /\ "Extractor" \notin ReturnError
    BY DEF ExtractFile, ReturnError
<1>2. ReqInv /\ DeployInv' /\ dir \in [Packages -> SUBSET Items]
      /\ req \in [Threads -> Request]
    BY ExtractFileInv DEF DeployInv, MachineTypeOK, ReqInv
<1>3. r \in Request /\ Runs(r) /\ InChain(r) /\ r.pc = "Extractor" /\ p \in Packages
    BY <1>1, <1>2, AddingRuns DEF Runs
<1>4. r.todo \in 1..n /\ n \in Nat
    BY <1>3, ContentsFacts DEF InChain, TodoOK, ExtractFile
<1>5. item \in KeysOf(Contents(p)) /\ item # "root"
    BY <1>3, <1>4, ContentsFacts DEF KeysOf
<1>6. Extracted(r)
    BY <1>1, <1>3 DEF ReportInv, Progress, Adding
<1>7. "root" \in dir[p] /\ \A i \in 1..(r.todo - 1) : Contents(p)[i] \in dir[p]
    BY <1>3, <1>4, <1>6 DEF Extracted
<1>8. \/ dir' = dir
      \/ dir' = [dir EXCEPT ![p] = @ \cup {item}]
      \/ dir' = [dir EXCEPT ![p] = @ \ {item}]
    BY DEF ExtractFile
<1>9. DirInv'
  <2> HIDE DEF item, p, r, n
  <2>1. \A q \in Packages : dir'[q] = dir[q] \/
            (q = p /\ dir'[q] \in {dir[q] \cup {item}, dir[q] \ {item}})
    BY <1>2, <1>3, <1>8
  <2> QED
    BY <1>2, <1>3, <1>5, <1>7, <2>1 DEF ReportInv, DirInv
<1>10. ASSUME NEW code \in {"failed", "userexit"}, Fails(t, code)
      PROVE  Progress(t)' /\ Told(t)'
    BY <1>1, <1>2, <1>10, LateFailReport
<1>11. ASSUME dir' = [dir EXCEPT ![p] = @ \cup {item}]
       PROVE  \A i \in 1..r.todo : Contents(p)[i] \in dir'[p]
  <2>1. dir'[p] = dir[p] \cup {item}
    BY <1>2, <1>3, <1>11
  <2>2. ASSUME NEW i \in 1..r.todo PROVE Contents(p)[i] \in dir'[p]
    <3>1. i = r.todo \/ i \in 1..(r.todo - 1)
      BY <1>4
    <3> HIDE DEF p, r
    <3> QED
      BY <1>7, <2>1, <3>1
  <2> QED
    BY <2>2
<1>12. ASSUME dir' = [dir EXCEPT ![p] = @ \cup {item}],
              req' = [req EXCEPT ![t].todo = @ + 1]
       PROVE  Progress(t)' /\ Told(t)'
  <2>0. req' = [req EXCEPT ![t].todo = r.todo + 1] /\ r.todo + 1 \in Nat
    BY <1>2, <1>4, <1>12
  <2>1. /\ req'[t].todo = r.todo + 1 /\ req'[t].pc = "Extractor" /\ req'[t].pkg = p
        /\ req'[t].rem = NoPkg /\ req'[t].hr = "pending"
    BY <1>1, <1>2, <2>0, AfterTodo
  <2>2. "root" \in dir'[p] /\ \A i \in 1..r.todo : Contents(p)[i] \in dir'[p]
    BY <1>2, <1>3, <1>7, <1>11, <1>12
  <2>3. req'[t].todo - 1 = r.todo
    BY <1>4, <2>1
  <2> HIDE DEF p, r
  <2>4. Extracted(req[t])'
    <3>1. \A i \in 1..(req'[t].todo - 1) : Contents(req'[t].pkg)[i] \in dir'[req'[t].pkg]
      BY <2>1, <2>2, <2>3
    <3>2. "root" \in dir'[req'[t].pkg]
      BY <2>1, <2>2
    <3> QED
      BY <2>1, <3>1, <3>2 DEF Extracted
  <2>5. AddRank[req'[t].pc] = 5
    BY <2>1, RankValues
  <2>6. HiveWritten(t, req[t])'
    BY <2>1, <2>5 DEF HiveWritten
  <2>7. \A h \in Registrars : h # "Extractor" /\ ~(AddRank[h] < 5)
    BY RankValues, HandlersDistinct
  <2>8. KeysWritten(req[t])'
    BY <2>1, <2>5, <2>7 DEF KeysWritten
  <2> QED
    BY <2>1, <2>4, <2>6, <2>8 DEF Progress, Told, Active
<1>13. ASSUME dir' = [dir EXCEPT ![p] = @ \cup {item}], r.todo = n,
              req' = [req EXCEPT ![t].pc = NextHandler(AddHandlers, @), ![t].todo = 0,
                                 ![t].status = "extraction"]
       PROVE  Progress(t)' /\ Told(t)'
  <2>1. /\ req'[t].todo = 0 /\ req'[t].pc = "PrepareDevirtualizedRegistry"
        /\ req'[t].pkg = p /\ req'[t].rem = NoPkg /\ req'[t].hr = "pending"
    BY <1>2, <1>3, <1>13, AddHandlersNext DEF Request, Runs, InChain
  <2>2. "root" \in dir'[p] /\ \A i \in 1..n : Contents(p)[i] \in dir'[p]
    BY <1>2, <1>3, <1>7, <1>11, <1>13
  <2>3. KeysOf(Contents(p)) \subseteq dir'[p]
    BY <1>3, <2>2, ContentsFacts DEF KeysOf
  <2>4. dir'[p] \subseteq {"root"} \cup KeysOf(Contents(p))
    BY <1>3, <1>9 DEF DirInv
  <2> HIDE DEF p, r
  <2>5. dir'[p] = {"root"} \cup KeysOf(Contents(p))
    BY <2>2, <2>3, <2>4
  <2>6. Extracted(req[t])'
    BY <2>1, <2>5 DEF Extracted, Whole
  <2>7. AddRank[req'[t].pc] = 6
    BY <2>1, RankValues
  <2>8. HiveWritten(t, req[t])'
    BY <2>1, <2>7 DEF HiveWritten
  <2>9. \A h \in Registrars : h # "PrepareDevirtualizedRegistry" /\ ~(AddRank[h] < 6)
    BY RankValues, HandlersDistinct
  <2>10. KeysWritten(req[t])'
    BY <2>1, <2>7, <2>9 DEF KeysWritten
  <2> QED
    BY <2>1, <2>6, <2>8, <2>10 DEF Progress, Told, Active
<1>14. Progress(t)' /\ Told(t)'
    BY <1>10, <1>12, <1>13 DEF ExtractFile
<1> QED
    BY <1>9, <1>14, ReportStep

\* Once all is extracted, a step that leaves the directories leaves it so.
LEMMA ExtractedStays ==
    ASSUME ReqInv, ReportInv, NEW t \in Threads, NEW h, Adding(t, h), AddRank[h] > 5,
           dir' = dir, req'[t].pkg = req[t].pkg, req'[t].pc # "Extractor"
    PROVE  Whole(req[t].pkg) /\ Extracted(req[t])'
<1>1. InChain(req[t]) /\ req[t].pc = h
    BY AddingRuns
<1>2. Extracted(req[t]) /\ h # "Extractor"
    BY <1>1, RankValues DEF ReportInv, Progress, Adding
<1>3. Whole(req[t].pkg)
    BY <1>1, <1>2 DEF Extracted
<1> QED
    BY <1>3 DEF Extracted, Whole

LEMMA PrepareReport ==
    ASSUME OneThread, DeployInv, ReportInv, NEW t \in Threads, PrepareDevirtualizedRegistry(t)
    PROVE  ReportInv'
<1> DEFINE h == "PrepareDevirtualizedRegistry"
           p == req[t].pkg
<1>1. Adding(t, h) /\ h \notin ReturnError /\ AddRank[h] > 5 /\ h # "InstallComplete"
    BY RankValues DEF PrepareDevirtualizedRegistry, ReturnError
<1>2. /\ ReqInv /\ dir' = dir
      /\ hive \in [Packages -> {Free, Stray} \cup (Threads \X {"add", "remove"})]
    BY DEF DeployInv, MachineTypeOK, MountsOK, PrepareDevirtualizedRegistry
<1>3. p \in Packages
    BY <1>1, <1>2, AddingRuns DEF Runs
<1>4. ASSUME Fails(t, "failed") PROVE Progress(t)' /\ Told(t)'
    BY <1>1, <1>2, <1>4, LateFailReport
<1>5. ASSUME Goes(t),
             \/ "registry.dat" \notin dir[p]
             \/ hive' = [hive EXCEPT ![p] = <<t, "add">>]
      PROVE  Progress(t)' /\ Told(t)'
  <2>1. /\ Runs(req'[t]) /\ req'[t].rem = NoPkg /\ req'[t].hr = "pending"
        /\ req'[t].pc = "VirtualFileHandler" /\ req'[t].todo = 0 /\ req'[t].pkg = p
    BY <1>1, <1>2, <1>5, AfterGoes, AddHandlersNext DEF InChain, Runs
  <2>2. Whole(p) /\ Extracted(req[t])'
    BY <1>1, <1>2, <2>1, ExtractedStays
  <2>3. HiveKeys[p] # <<>> => hive'[p] = <<t, "add">>
    <3>1. HiveKeys[p] # <<>> => "registry.dat" \in dir[p]
      BY <1>3, <2>2, ContentsFacts DEF Whole
    <3> HIDE DEF p
    <3> QED
      BY <1>2, <1>3, <1>5, <3>1
  <2> HIDE DEF p
  <2>4. AddRank[req'[t].pc] = 7
    BY <2>1, RankValues
  <2>5. HiveWritten(t, req[t])'
    BY <2>1, <2>3, <2>4 DEF HiveWritten
  <2>6. \A g \in Registrars : g # "VirtualFileHandler" /\ ~(AddRank[g] < 7)
    BY RankValues, HandlersDistinct
  <2>7. KeysWritten(req[t])'
    BY <2>1, <2>4, <2>6 DEF KeysWritten
  <2> QED
    BY <2>1, <2>2, <2>5, <2>7 DEF Progress, Told, Active
<1>6. Progress(t)' /\ Told(t)'
    BY <1>4, <1>5 DEF PrepareDevirtualizedRegistry
<1> QED
    BY <1>2, <1>6, ReportStep DEF ReportInv, DirInv

LEMMA CopyVfsFilesReport ==
    ASSUME OneThread, DeployInv, ReportInv, NEW t \in Threads, CopyVfsFiles(t)
    PROVE  ReportInv'
<1> DEFINE h == "VirtualFileHandler"
           p == req[t].pkg
<1>1. Adding(t, h) /\ h \notin ReturnError /\ AddRank[h] > 5 /\ h # "InstallComplete"
    BY RankValues DEF CopyVfsFiles, ReturnError
<1>2. ReqInv /\ dir' = dir /\ hive' = hive /\ reg' = reg
    BY DEF DeployInv, CopyVfsFiles
<1>3. p \in Packages /\ InChain(req[t]) /\ req[t].pc = h
    BY <1>1, <1>2, AddingRuns DEF Runs
<1>4. ASSUME Fails(t, "failed") PROVE Progress(t)' /\ Told(t)'
    BY <1>1, <1>2, <1>4, LateFailReport
<1>5. ASSUME req' = req PROVE Progress(t)' /\ Told(t)'
    BY <1>2, <1>5, SameReport DEF ReportInv
<1>6. ASSUME Goes(t) PROVE Progress(t)' /\ Told(t)'
  <2>1. /\ Runs(req'[t]) /\ req'[t].rem = NoPkg /\ req'[t].hr = "pending"
        /\ req'[t].pc = "WriteDevirtualizedRegistry" /\ req'[t].todo = 0 /\ req'[t].pkg = p
    BY <1>1, <1>2, <1>6, AfterGoes, AddHandlersNext DEF InChain, Runs
  <2>2. Extracted(req[t])'
    BY <1>1, <1>2, <2>1, ExtractedStays
  <2>3. HiveWritten(t, req[t])
    BY <1>1, <1>3 DEF ReportInv, Progress, Adding
  <2>4. HiveKeys[p] # <<>> => hive'[p] = <<t, "add">>
    BY <1>2, <1>3, <2>3 DEF HiveWritten
  <2>5. Len(HiveKeys[p]) \in Nat
    BY <1>3, KeySequences
  <2> HIDE DEF p
  <2>6. AddRank[req'[t].pc] = 8
    BY <2>1, RankValues
  <2>7. HiveWritten(t, req[t])'
    BY <2>1, <2>4, <2>5, <2>6 DEF HiveWritten
  <2>8. \A g \in Registrars : g # "WriteDevirtualizedRegistry" /\ ~(AddRank[g] < 8)
    BY RankValues, HandlersDistinct
  <2>9. KeysWritten(req[t])'
    BY <2>1, <2>6, <2>8 DEF KeysWritten
  <2> QED
    BY <2>1, <2>2, <2>7, <2>9 DEF Progress, Told, Active
<1>7. Progress(t)' /\ Told(t)'
    BY <1>4, <1>5, <1>6 DEF CopyVfsFiles
<1> QED
    BY <1>2, <1>7, ReportStep DEF ReportInv, DirInv

\* The registry after one key more was written for p.
LEMMA WrittenFacts ==
    ASSUME RegTypeOK, NEW p \in Packages, NEW k \in Keys, reg' = Written(p, k)
    PROVE  /\ reg'[k] = [owner |-> p, whole |-> TRUE]
           /\ \A g \in Keys : InPlace(p, g) => reg'[g] = [owner |-> p, whole |-> TRUE]
BY DEF RegTypeOK, Written, InPlace

LEMMA WriteReport ==
    ASSUME OneThread, DeployInv, ReportInv, NEW t \in Threads, WriteDevirtualizedRegistry(t)
    PROVE  ReportInv'
<1> DEFINE h == "WriteDevirtualizedRegistry"
           r == req[t]
           p == r.pkg
           mounted == hive[p] = <<t, "add">>
           ks == IF mounted THEN HiveKeys[p] ELSE <<>>
<1>1. Adding(t, h) /\ h \notin ReturnError /\ AddRank[h] > 5 /\ h # "InstallComplete"
    BY RankValues DEF WriteDevirtualizedRegistry, DevirtualizeKey, ReturnError
<1>2. ReqInv /\ dir' = dir /\ RegTypeOK /\ req \in [Threads -> Request]
    BY DEF DeployInv, MachineTypeOK, ReqInv, WriteDevirtualizedRegistry, DevirtualizeKey
<1>3. r \in Request /\ p \in Packages /\ InChain(r) /\ r.pc = h
    BY <1>1, <1>2, AddingRuns DEF Runs
<1>4. HiveWritten(t, r)
    BY <1>1, <1>3 DEF ReportInv, Progress, Adding
<1>5. /\ HiveKeys[p] # <<>> => mounted
      /\ r.todo \in 0..Len(HiveKeys[p])
      /\ \A i \in 1..r.todo : HiveKeys[p][i] \in MayNotCreate \/ InPlace(p, HiveKeys[p][i])
    BY <1>3, <1>4 DEF HiveWritten
<1>6. ks = HiveKeys[p] /\ ks \in Seq(Keys)
    BY <1>3, <1>5, KeySequences
<1>7. ASSUME Fails(t, "failed") PROVE Progress(t)' /\ Told(t)'
    BY <1>1, <1>2, <1>7, LateFailReport
<1>8. ASSUME r.todo < Len(ks), hive' = hive, req' = [req EXCEPT ![t].todo = @ + 1],
             \/ reg' = Written(p, ks[r.todo + 1])
             \/ ks[r.todo + 1] \in MayNotCreate /\ UNCHANGED reg
      PROVE  Progress(t)' /\ Told(t)'
  <2> HIDE DEF ks, p
  <2>0. /\ req' = [req EXCEPT ![t].todo = r.todo + 1]
        /\ r.todo + 1 \in Nat /\ r.todo + 1 \in 1..Len(ks) /\ r.todo \in Nat
    BY <1>2, <1>5, <1>6, <1>8
  <2>1. /\ req'[t].todo = r.todo + 1 /\ req'[t].pc = h /\ req'[t].pkg = p
        /\ req'[t].rem = NoPkg /\ req'[t].hr = "pending"
    BY <1>1, <1>2, <2>0, AfterTodo DEF p
  <2>2. Extracted(req[t])'
    BY <1>1, <1>2, <2>1, ExtractedStays DEF p
  <2>3. \A i \in 1..Len(ks) : ks[i] \in Keys
    BY <1>6
  <2>4. /\ \/ ks[r.todo + 1] \in MayNotCreate
           \/ reg'[ks[r.todo + 1]] = [owner |-> p, whole |-> TRUE]
        /\ \A g \in Keys : InPlace(p, g) => reg'[g] = [owner |-> p, whole |-> TRUE]
    <3>1. CASE reg' = Written(p, ks[r.todo + 1])
      BY <1>2, <1>3, <2>0, <2>3, <3>1, WrittenFacts
    <3>2. CASE ks[r.todo + 1] \in MayNotCreate /\ UNCHANGED reg
      BY <3>2 DEF InPlace
    <3> QED
      BY <1>8, <3>1, <3>2
  <2>5. ASSUME NEW i \in 1..(r.todo + 1)
        PROVE  ks[i] \in MayNotCreate \/ reg'[ks[i]] = [owner |-> p, whole |-> TRUE]
    <3>1. i = r.todo + 1 \/ i \in 1..r.todo
      BY <2>0
    <3>2. ks[i] \in Keys
      BY <2>0, <2>3
    <3> QED
      BY <1>5, <1>6, <2>4, <3>1, <3>2
  <2>6. AddRank[req'[t].pc] = 8
    BY <2>1, RankValues
  <2>7. \A i \in 1..req'[t].todo :
            \/ HiveKeys[p][i] \in MayNotCreate
            \/ reg'[HiveKeys[p][i]] = [owner |-> p, whole |-> TRUE]
    BY <1>6, <2>1, <2>5
  <2>8. req'[t].todo \in 0..Len(HiveKeys[p])
    BY <1>6, <2>0, <2>1
  <2>9. HiveWritten(t, req[t])'
    <3>1. HiveKeys[req'[t].pkg] # <<>> => hive'[req'[t].pkg] = <<t, "add">>
      BY <1>5, <1>8, <2>1
    <3>2. /\ req'[t].todo \in 0..Len(HiveKeys[req'[t].pkg])
          /\ \A i \in 1..req'[t].todo :
                \/ HiveKeys[req'[t].pkg][i] \in MayNotCreate
                \/ InPlace(req[t].pkg, HiveKeys[req[t].pkg][i])'
      BY <2>1, <2>7, <2>8 DEF InPlace
    <3> QED
      BY <2>1, <2>6, <3>1, <3>2 DEF HiveWritten
  <2>10. \A g \in Registrars : g # h /\ ~(AddRank[g] < 8)
    BY RankValues, HandlersDistinct
  <2>11. KeysWritten(req[t])'
    BY <2>1, <2>6, <2>10 DEF KeysWritten
  <2> QED
    BY <2>1, <2>2, <2>9, <2>11 DEF Progress, Told, Active
<1>9. ASSUME r.todo = Len(ks), Goes(t), reg' = reg,
             IF mounted THEN UnloadMountedHive(p) ELSE UNCHANGED hive
      PROVE  Progress(t)' /\ Told(t)'
  <2>1. /\ Runs(req'[t]) /\ req'[t].rem = NoPkg /\ req'[t].hr = "pending"
        /\ req'[t].pc = "PSFScriptExecuter" /\ req'[t].todo = 0 /\ req'[t].pkg = p
    BY <1>1, <1>2, <1>9, AfterGoes, AddHandlersNext DEF InChain, Runs
  <2>2. Extracted(req[t])'
    BY <1>1, <1>2, <2>1, ExtractedStays
  <2>3. \A k \in KeysOf(HiveKeys[p]) \ MayNotCreate : InPlace(p, k)
    <3> HIDE DEF ks, p, r, h
    <3> QED
      BY <1>5, <1>6, <1>9 DEF KeysOf
  <2>0. hive'[p] = <<t, "add">> => UnloadMayFail
    <3>1. hive \in [Packages -> {Free, Stray} \cup (Threads \X {"add", "remove"})]
      BY DEF DeployInv, MachineTypeOK, MountsOK
    <3>2. Free # <<t, "add">>
      BY HiveHolders
    <3> QED
      BY <1>3, <1>9, <3>1, <3>2 DEF UnloadMountedHive
  <2> HIDE DEF p, ks
  <2>4. AddRank[req'[t].pc] = 9
    BY <2>1, RankValues
  <2>5. HiveWritten(t, req[t])'
    BY <1>9, <2>0, <2>1, <2>3, <2>4 DEF HiveWritten, InPlace
  <2>6. \A g \in Registrars : g # "PSFScriptExecuter" /\ ~(AddRank[g] < 9)
    BY RankValues, HandlersDistinct
  <2>7. KeysWritten(req[t])'
    BY <2>1, <2>4, <2>6 DEF KeysWritten
  <2> QED
    BY <2>1, <2>2, <2>5, <2>7 DEF Progress, Told, Active
<1>10. Progress(t)' /\ Told(t)'
    BY <1>7, <1>8, <1>9 DEF WriteDevirtualizedRegistry, DevirtualizeKey
<1> QED
    BY <1>2, <1>10, ReportStep DEF ReportInv, DirInv

LEMMA PSFScriptExecuterReport ==
    ASSUME OneThread, DeployInv, ReportInv, NEW t \in Threads,
           PSFScriptExecuter(t) \/ ScriptEnds(t)
    PROVE  ReportInv'
<1> DEFINE h == "PSFScriptExecuter"
           p == req[t].pkg
<1>1. Adding(t, h) /\ h \notin ReturnError /\ AddRank[h] = 9 /\ h # "InstallComplete"
    BY RankValues DEF PSFScriptExecuter, ScriptEnds, ReturnError
<1>2. ReqInv /\ dir' = dir /\ hive' = hive /\ reg' = reg
    BY DEF DeployInv, PSFScriptExecuter, ScriptEnds, machineVars
<1>3. p \in Packages /\ InChain(req[t]) /\ req[t].pc = h
    BY <1>1, <1>2, AddingRuns DEF Runs
<1>4. ASSUME NEW code \in {"failed", "userexit"}, Fails(t, code) PROVE Progress(t)' /\ Told(t)'
    BY <1>1, <1>2, <1>4, LateFailReport
<1>5. HiveWritten(t, req[t])
    BY <1>1, <1>3 DEF ReportInv, Progress, Adding
<1>6. /\ \A k \in KeysOf(HiveKeys[p]) \ MayNotCreate : InPlace(p, k)
      /\ hive[p] = <<t, "add">> => UnloadMayFail
    BY <1>1, <1>3, <1>5 DEF HiveWritten
<1>7. ASSUME Goes(t) PROVE Progress(t)' /\ Told(t)'
  <2>1. /\ Runs(req'[t]) /\ req'[t].rem = NoPkg /\ req'[t].hr = "pending"
        /\ req'[t].pc = "StartMenuLink" /\ req'[t].todo = 0 /\ req'[t].pkg = p
    BY <1>1, <1>2, <1>7, AfterGoes, AddHandlersNext DEF InChain, Runs
  <2>2. Extracted(req[t])'
    BY <1>1, <1>2, <2>1, ExtractedStays
  <2>5. ASSUME NEW g \in Registrars PROVE 0 \in 0..Len(HandlerKeys(g, p))
    <3>1. HandlerKeys(g, p) \in Seq(Keys)
      BY <1>3, KeySequences
    <3> QED
      BY <3>1
  <2> HIDE DEF p
  <2>6. AddRank[req'[t].pc] = 10
    BY <2>1, RankValues
  <2>7. HiveWritten(t, req[t])'
    BY <1>2, <1>6, <2>1, <2>6 DEF HiveWritten, InPlace
  <2>8. \A g \in Registrars : ~(AddRank[g] < 10)
    BY RankValues
  <2>9. KeysWritten(req[t])'
    <3>1. \A i \in 1..0 : FALSE
      OBVIOUS
    <3> QED
      BY <2>1, <2>5, <2>6, <2>8, <3>1 DEF KeysWritten
  <2> QED
    BY <2>1, <2>2, <2>7, <2>9 DEF Progress, Told, Active
<1>8. ASSUME req' = [req EXCEPT ![t].todo = 1] PROVE Progress(t)' /\ Told(t)'
  <2>1. /\ req'[t].todo = 1 /\ req'[t].pc = h /\ req'[t].pkg = p
        /\ req'[t].rem = NoPkg /\ req'[t].hr = "pending"
    BY <1>1, <1>2, <1>8, AfterTodo
  <2>2. Extracted(req[t])'
    BY <1>1, <1>2, <2>1, ExtractedStays
  <2> HIDE DEF p
  <2>3. HiveWritten(t, req[t])'
    BY <1>1, <1>2, <1>6, <2>1 DEF HiveWritten, InPlace
  <2>4. \A g \in Registrars : g # h /\ ~(AddRank[g] < 9)
    BY RankValues, HandlersDistinct
  <2>5. KeysWritten(req[t])'
    BY <1>1, <2>1, <2>4 DEF KeysWritten
  <2> QED
    BY <2>1, <2>2, <2>3, <2>5 DEF Progress, Told, Active
<1>9. Progress(t)' /\ Told(t)'
    BY <1>4, <1>7, <1>8 DEF PSFScriptExecuter, ScriptEnds
<1> QED
    BY <1>2, <1>9, ReportStep DEF ReportInv, DirInv

LEMMA RegisterReport ==
    ASSUME OneThread, DeployInv, ReportInv, NEW t \in Threads, Register(t)
    PROVE  ReportInv'
<1> DEFINE r == req[t]
           p == r.pkg
<1>1. PICK h \in Registrars : Adding(t, h)
    BY DEF Register
<1>2. ReqInv /\ HiveInv /\ dir' = dir /\ hive' = hive /\ RegTypeOK /\ req \in [Threads -> Request]
    BY DEF DeployInv, MachineTypeOK, ReqInv, Register
<1>3. r \in Request /\ p \in Packages /\ InChain(r) /\ r.pc = h
    BY <1>1, <1>2, AddingRuns DEF Runs
<1>4. /\ h \in KeysOf(AddHandlers) \ {"InstallComplete"}
      /\ h \notin ReturnError /\ h \notin {"VirtualFileHandler", "WriteDevirtualizedRegistry"}
      /\ AddRank[h] \in 10..19 /\ h # "Extractor"
    BY HandlersDistinct, RankValues
<1> DEFINE ks == HandlerKeys(h, p)
           k == ks[r.todo + 1]
           passed == PassesOver(r.pc, p, hive[p] = <<t, "add">>)
<1>6. HiveWritten(t, r) /\ KeysWritten(r)
    BY <1>1, <1>3 DEF ReportInv, Progress, Adding
<1>7. /\ \A j \in KeysOf(HiveKeys[p]) \ MayNotCreate : InPlace(p, j)
      /\ hive[p] = <<t, "add">> => UnloadMayFail
    BY <1>3, <1>4, <1>6 DEF HiveWritten
<1>5. passed \subseteq Skipped(h, p)
  <2>1. (hive[p] = <<t, "add">>) \in BOOLEAN /\ UnloadMayFail \in BOOLEAN
    BY DeployAssumption
  <2> QED
    BY <1>3, <1>7, <2>1, PassesOverFacts DEF Skipped
<1>8. /\ \A g \in Registrars : AddRank[g] < AddRank[h] =>
            \A j \in KeysOf(HandlerKeys(g, p)) \ Skipped(g, p) : InPlace(p, j)
      /\ r.todo \in 0..Len(ks)
      /\ \A i \in 1..r.todo : ks[i] \in Skipped(h, p) \/ InPlace(p, ks[i])
    BY <1>3, <1>6 DEF KeysWritten
<1>9. /\ KeysOf(HiveKeys[p]) \subseteq Keys
      /\ \A g \in Registrars : KeysOf(HandlerKeys(g, p)) \subseteq Keys
      /\ ks \in Seq(Keys)
    BY <1>3, KeySequences DEF KeysOf
<1>10. ASSUME NEW code \in {"failed", "userexit"}, Fails(t, code)
       PROVE  Progress(t)' /\ Told(t)'
    BY <1>1, <1>2, <1>4, <1>10, LateFailReport
<1>11. ASSUME r.todo < Len(ks), reg' = IF k \in passed THEN reg ELSE Written(p, k),
              req' = [req EXCEPT ![t].todo = @ + 1]
       PROVE  Progress(t)' /\ Told(t)'
  <2> HIDE DEF ks, p, passed
  <2>0. /\ req' = [req EXCEPT ![t].todo = r.todo + 1]
        /\ r.todo + 1 \in Nat /\ r.todo + 1 \in 1..Len(ks) /\ r.todo \in Nat
    BY <1>2, <1>8, <1>9, <1>11
  <2>1. /\ req'[t].todo = r.todo + 1 /\ req'[t].pc = h /\ req'[t].pkg = p
        /\ req'[t].rem = NoPkg /\ req'[t].hr = "pending"
    BY <1>1, <1>2, <2>0, AfterTodo DEF p
  <2>2. Extracted(req[t])'
    BY <1>1, <1>2, <1>4, <2>1, ExtractedStays DEF p
  <2>3. \A i \in 1..Len(ks) : ks[i] \in Keys
    BY <1>9
  <2>4. /\ k \in Skipped(h, p) \/ reg'[k] = [owner |-> p, whole |-> TRUE]
        /\ \A g \in Keys : InPlace(p, g) => reg'[g] = [owner |-> p, whole |-> TRUE]
    <3>1. CASE k \in passed
      BY <1>5, <1>11, <3>1 DEF InPlace
    <3>2. CASE k \notin passed
      BY <1>2, <1>3, <1>11, <2>0, <2>3, <3>2, WrittenFacts
    <3> QED
      BY <3>1, <3>2
  <2>5. ASSUME NEW i \in 1..(r.todo + 1)
        PROVE  ks[i] \in Skipped(h, p) \/ reg'[ks[i]] = [owner |-> p, whole |-> TRUE]
    <3>1. i = r.todo + 1 \/ i \in 1..r.todo
      BY <2>0
    <3>2. ks[i] \in Keys
      BY <2>0, <2>3
    <3> QED
      BY <1>8, <2>4, <3>1, <3>2
  <2>6. HiveWritten(t, req[t])'
    <3>1. \A j \in KeysOf(HiveKeys[p]) \ MayNotCreate :
              reg'[j] = [owner |-> p, whole |-> TRUE]
      BY <1>7, <1>9, <2>4
    <3> QED
      BY <1>2, <1>4, <1>7, <2>1, <3>1 DEF HiveWritten, InPlace
  <2>7. KeysWritten(req[t])'
    <3>1. ASSUME NEW g \in Registrars, AddRank[g] < AddRank[h],
                 NEW j \in KeysOf(HandlerKeys(g, p)) \ Skipped(g, p)
          PROVE  reg'[j] = [owner |-> p, whole |-> TRUE]
      <4>1. InPlace(p, j)
        BY <1>8, <3>1
      <4>2. j \in Keys
        BY <1>9
      <4> QED
        BY <2>4, <4>1, <4>2
    <3>2. r.todo + 1 \in 0..Len(HandlerKeys(h, p))
      BY <2>0 DEF ks
    <3>3. \A i \in 1..(r.todo + 1) :
              \/ HandlerKeys(h, p)[i] \in Skipped(h, p)
              \/ reg'[HandlerKeys(h, p)[i]] = [owner |-> p, whole |-> TRUE]
      BY <2>5 DEF ks
    <3> HIDE DEF r
    <3> QED
      BY <2>1, <3>1, <3>2, <3>3 DEF KeysWritten, InPlace
  <2> QED
    BY <2>1, <2>2, <2>6, <2>7 DEF Progress, Told, Active
<1>12. ASSUME r.todo = Len(ks), reg' = reg, Goes(t) PROVE Progress(t)' /\ Told(t)'
  <2> DEFINE g == NextHandler(AddHandlers, h)
  <2>1. /\ Runs(req'[t]) /\ req'[t].rem = NoPkg /\ req'[t].hr = "pending"
        /\ req'[t].pc = g /\ req'[t].todo = 0 /\ req'[t].pkg = p
    BY <1>1, <1>2, <1>4, <1>12, AfterGoes DEF InChain, Runs
  <2>2. AddRank[g] = AddRank[h] + 1 /\ g \in KeysOf(AddHandlers)
    BY <1>4, RankFacts, NextAdd
  <2> HIDE DEF g
  <2>3. g \notin {"Extractor", "VirtualFileHandler", "WriteDevirtualizedRegistry"}
        /\ AddRank[g] > 8
    BY <1>4, <2>2, RankValues
  <2>4. Extracted(req[t])'
    BY <1>1, <1>2, <1>4, <2>1, <2>3, ExtractedStays
  <2>5. HiveWritten(t, req[t])'
    <3> HIDE DEF p
    <3> QED
      BY <1>2, <1>7, <1>12, <2>1, <2>3 DEF HiveWritten, InPlace
  <2>6. \A j \in KeysOf(ks) \ Skipped(h, p) : InPlace(p, j)
    <3> HIDE DEF ks, p, r
    <3> QED
      BY <1>8, <1>9, <1>12 DEF KeysOf
  <2>7. ASSUME NEW f \in Registrars, AddRank[f] < AddRank[g],
               NEW j \in KeysOf(HandlerKeys(f, p)) \ Skipped(f, p)
        PROVE  InPlace(p, j)
    <3>1. f \in KeysOf(AddHandlers) /\ AddRank[f] \in 1..20 /\ AddRank[h] \in 1..20
      BY <1>4, HandlersDistinct, RankFacts
    <3>2. AddRank[f] < AddRank[h] \/ AddRank[f] = AddRank[h]
      BY <2>2, <2>7, <3>1
    <3>3. AddRank[f] < AddRank[h] \/ f = h
      BY <1>4, <3>1, <3>2, RankFacts
    <3> QED
      BY <1>8, <2>6, <2>7, <3>3
  <2>8. ASSUME NEW f \in Registrars PROVE 0 \in 0..Len(HandlerKeys(f, p))
    <3>1. HandlerKeys(f, p) \in Seq(Keys)
      BY <1>3, KeySequences
    <3> HIDE DEF p
    <3> QED
      BY <3>1
  <2>9. KeysWritten(req[t])'
    <3> HIDE DEF p
    <3>1. \A i \in 1..0 : FALSE
      OBVIOUS
    <3>2. \A f \in Registrars : AddRank[f] < AddRank[g] =>
              \A j \in KeysOf(HandlerKeys(f, p)) \ Skipped(f, p) :
                  reg'[j] = [owner |-> p, whole |-> TRUE]
      BY <1>12, <2>7 DEF InPlace
    <3> QED
      BY <2>1, <2>8, <3>1, <3>2 DEF KeysWritten, InPlace
  <2> QED
    BY <2>1, <2>4, <2>5, <2>9 DEF Progress, Told, Active
<1>13. Progress(t)' /\ Told(t)'
  <2>1. HandlerKeys(r.pc, r.pkg) = ks
    BY <1>3
  <2> QED
    BY <2>1, <1>10, <1>11, <1>12 DEF Register
<1> QED
    BY <1>2, <1>13, ReportStep DEF ReportInv, DirInv

LEMMA InstallCompleteReport ==
    ASSUME OneThread, DeployInv, ReportInv, NEW t \in Threads, InstallComplete(t)
    PROVE  ReportInv' /\ Whole(req[t].pkg) /\ req'[t].hr = "ok" /\ req'[t].op = "add"
           /\ req'[t].pkg = req[t].pkg /\ req'[t].left = req[t].left
<1> DEFINE h == "InstallComplete"
           r == req[t]
           p == r.pkg
           c == IF r.cancelled THEN r ELSE [r EXCEPT !.status = "completed"]
<1>1. Adding(t, h) /\ AddRank[h] = 20
    BY RankValues DEF InstallComplete
<1>2. ReqInv /\ dir' = dir /\ reg' = reg /\ req \in [Threads -> Request]
    BY DEF DeployInv, ReqInv, InstallComplete
<1>3. r \in Request /\ p \in Packages /\ InChain(r) /\ r.pc = h /\ r.op = "add"
    BY <1>1, <1>2, AddingRuns DEF Runs, InChain
<1>4. Extracted(r) /\ HiveWritten(t, r) /\ KeysWritten(r)
    BY <1>1, <1>3 DEF ReportInv, Progress, Adding
<1>5. Whole(p)
    BY <1>1, <1>3, <1>4 DEF Extracted
<1>6. \A k \in KeysOf(HiveKeys[p]) \ MayNotCreate : InPlace(p, k)
    BY <1>1, <1>3, <1>4 DEF HiveWritten
<1>7. \A g \in Registrars : \A k \in KeysOf(HandlerKeys(g, p)) \ Skipped(g, p) : InPlace(p, k)
  <2>1. \A g \in Registrars : AddRank[g] < AddRank[r.pc]
    BY <1>1, <1>3, RankValues
  <2> QED
    BY <1>4, <2>1 DEF KeysWritten
<1>8. \A k \in SureKeys(p) : InPlace(p, k)
    BY <1>6, <1>7 DEF SureKeys, Skipped
<1>9. req'[t] = Returned(c, "ok")
    BY <1>2 DEF InstallComplete
<1> HIDE DEF r
<1>10. c \in Request /\ c.pkg = p /\ c.op = "add" /\ c.left = r.left
    BY <1>3 DEF Request
<1> HIDE DEF c
<1>11. /\ req'[t].hr = "ok" /\ req'[t].pkg = p /\ req'[t].op = "add"
       /\ req'[t].left = r.left
    BY <1>9, <1>10, ReturnedFields
<1>12. Progress(t)'
    BY <1>11 DEF Progress, Active
<1>13. Told(t)'
    BY <1>2, <1>5, <1>8, <1>11 DEF Told, Whole, InPlace
<1> QED
    BY <1>2, <1>5, <1>11, <1>12, <1>13, ReportStep DEF ReportInv, DirInv, r

\* A removal goes on without touching the directories.
LEMMA GoesOnReport ==
    ASSUME OneThread, ReqInv, ReportInv, NEW t \in Threads,
           NEW h \in KeysOf(RemoveHandlers) \ {"Extractor"},
           Removing(t, h), GoesOn(t), dir' = dir
    PROVE  ReportInv'
<1>1. /\ Runs(req'[t])
      /\ PlainRemoval(req'[t]) \/ Updating(req'[t]) \/ RollingBack(req'[t])
      /\ req'[t].rpc # "done"
    BY AfterGoesOnNext
<1>2. Progress(t)' /\ Told(t)'
    BY <1>1, RemovalProgress
<1> QED
    BY <1>2, ReportStep DEF ReportInv, DirInv

\* A removal that returns has taken the directory away, or says it failed.
LEMMA ReturnsReport ==
    ASSUME OneThread, DeployInv, ReportInv, NEW t \in Threads, NEW h, Removing(t, h),
           NEW hr \in {"ok", "failed"}, RemovalReturns(t, hr), dir' = dir,
           hr = "ok" => dir[req[t].rem] = {} \/ req[t].left
    PROVE  ReportInv'
<1> DEFINE r == req[t]
<1>1. ReqInv
    BY DEF DeployInv
<1>2. /\ PlainRemoval(r) \/ Updating(r) \/ RollingBack(r)
    BY <1>1, RemovingRuns
<1>3. /\ req'[t].op = r.op /\ req'[t].pkg = r.pkg /\ req'[t].left = r.left
      /\ PlainRemoval(r) => req'[t].hr = hr
      /\ Updating(r) => /\ Runs(req'[t]) /\ InChain(req'[t])
                        /\ req'[t].pc = "Extractor" /\ req'[t].todo = 0
      /\ RollingBack(r) => req'[t].hr = r.code
    BY <1>1, AfterReturns
<1>4. CASE PlainRemoval(r)
  <2>1. r.op = "remove" /\ (hr = "ok" => dir[r.pkg] = {} \/ r.left)
    BY <1>4 DEF PlainRemoval
  <2>2. Progress(t)' /\ Told(t)'
    BY <1>3, <1>4, <2>1 DEF Progress, Told, Active
  <2> QED
    BY <2>2, ReportStep DEF ReportInv, DirInv
<1>5. CASE Updating(r)
  <2>1. AddRank["Extractor"] <= 5
    BY RankValues
  <2>2. Progress(t)' /\ Told(t)'
    BY <1>3, <1>5, <2>1, EarlyProgress
  <2> QED
    BY <2>2, ReportStep DEF ReportInv, DirInv
<1>6. CASE RollingBack(r)
  <2>1. req'[t].hr \in {"failed", "userexit"}
    BY <1>3, <1>6 DEF RollingBack
  <2>2. Progress(t)' /\ Told(t)'
    BY <2>1, ErrorTold
  <2> QED
    BY <2>2, ReportStep DEF ReportInv, DirInv
<1> QED
    BY <1>2, <1>4, <1>5, <1>6

LEMMA ReadManifestReport ==
    ASSUME OneThread, DeployInv, ReportInv, NEW t \in Threads, ReadManifest(t)
    PROVE  ReportInv'
<1>1. ReqInv /\ dir' = dir /\ Removing(t, "PopulatePackageInfo")
    BY DEF DeployInv, ReadManifest
<1>2. "PopulatePackageInfo" \in KeysOf(RemoveHandlers) \ {"Extractor"}
    BY HandlersDistinct
<1>3. CASE GoesOn(t)
    BY <1>1, <1>2, <1>3, GoesOnReport
<1>4. CASE "manifest" \notin dir[req[t].rem] /\ RemovalReturns(t, "failed")
    BY <1>1, <1>4, ReturnsReport
<1> QED
    BY <1>3, <1>4 DEF ReadManifest

LEMMA RemoveHandlersReport ==
    ASSUME OneThread, DeployInv, ReportInv, NEW t \in Threads,
           \/ Unregister(t) \/ PrepareForRemove(t) \/ RemoveDevirtualizedRegistry(t)
           \/ RemoveVfsFiles(t)
    PROVE  ReportInv'
<1>1. ReqInv
    BY DEF DeployInv
<1>2. CASE Unregister(t)
  <2>1. PICK h \in Registrars : Removing(t, h)
    BY <1>2 DEF Unregister
  <2>2. h \in KeysOf(RemoveHandlers) \ {"Extractor"}
    BY HandlersDistinct
  <2> QED
    BY <1>1, <1>2, <2>1, <2>2, GoesOnReport DEF Unregister
<1>3. /\ "PrepareDevirtualizedRegistry" \in KeysOf(RemoveHandlers) \ {"Extractor"}
      /\ "WriteDevirtualizedRegistry" \in KeysOf(RemoveHandlers) \ {"Extractor"}
      /\ "VirtualFileHandler" \in KeysOf(RemoveHandlers) \ {"Extractor"}
    BY HandlersDistinct
<1>4. CASE PrepareForRemove(t)
    BY <1>1, <1>3, <1>4, GoesOnReport DEF PrepareForRemove
<1>5. CASE RemoveDevirtualizedRegistry(t)
    BY <1>1, <1>3, <1>5, GoesOnReport DEF RemoveDevirtualizedRegistry
<1>6. CASE RemoveVfsFiles(t)
  <2>1. dir' = dir /\ reg' = reg /\ hive' = hive /\ Removing(t, "VirtualFileHandler")
    BY <1>6 DEF RemoveVfsFiles
  <2>2. CASE req' = req
    <3>1. Progress(t)' /\ Told(t)'
      BY <2>1, <2>2, SameReport DEF ReportInv
    <3> QED
      BY <2>1, <3>1, ReportStep DEF ReportInv, DirInv
  <2>3. CASE GoesOn(t)
    BY <1>1, <1>3, <2>1, <2>3, GoesOnReport
  <2> QED
    BY <1>6, <2>2, <2>3 DEF RemoveVfsFiles
<1> QED
    BY <1>2, <1>4, <1>5, <1>6

LEMMA RemoveDirectoryReport ==
    ASSUME OneThread, DeployInv, ReportInv, NEW t \in Threads, RemoveDirectory(t)
    PROVE  ReportInv'
<1> DEFINE p == req[t].rem
<1>1. /\ ReqInv /\ Removing(t, "Extractor") /\ req \in [Threads -> Request]
      /\ dir \in [Packages -> SUBSET Items]
    BY DEF DeployInv, MachineTypeOK, ReqInv, RemoveDirectory
<1>2. p \in Packages
    BY <1>1, RemovingRuns
<1>3. PICK kept \in SUBSET dir[p] :
          /\ kept # {} => "root" \in kept
          /\ dir' = [dir EXCEPT ![p] = kept]
          /\ req' = [req EXCEPT ![t].rpc = "done", ![t].left = (kept # {})]
    BY DEF RemoveDirectory
<1>5. \A q \in Packages : dir'[q] = IF q = p THEN kept ELSE dir[q]
    BY <1>1, <1>2, <1>3
<1>6. DirInv'
    BY <1>3, <1>5 DEF ReportInv, DirInv
<1>7. "Extractor" \in KeysOf(RemoveHandlers)
    BY HandlersDistinct
<1>8. req' = [req EXCEPT ![t] = [req[t] EXCEPT !.rpc = "done", !.left = (kept # {})]]
    BY <1>1, <1>3
<1>9. /\ Runs(req'[t])
      /\ PlainRemoval(req'[t]) \/ Updating(req'[t]) \/ RollingBack(req'[t])
      /\ req'[t].rem = p /\ req'[t].left = (kept # {})
  <2> DEFINE left == kept # {}
  <2>1. left \in BOOLEAN
    OBVIOUS
  <2>2. req' = [req EXCEPT ![t] = [req[t] EXCEPT !.rpc = "done", !.left = left]]
    BY <1>8
  <2> HIDE DEF left
  <2>3. /\ Runs(req'[t])
        /\ PlainRemoval(req'[t]) \/ Updating(req'[t]) \/ RollingBack(req'[t])
        /\ req'[t].rem = p /\ req'[t].left = left
    BY <1>1, <1>7, <2>1, <2>2, AfterGoesOn
  <2> QED
    BY <2>3 DEF left
<1>10. ~InChain(req'[t]) /\ req'[t].hr = "pending"
    BY <1>9, NamesAssumption DEF PlainRemoval, Updating, RollingBack, InChain, Runs
<1>11. dir'[p] = {} \/ req'[t].left
    BY <1>2, <1>5, <1>9
<1>12. Progress(t)' /\ Told(t)'
    BY <1>9, <1>10, <1>11 DEF Progress, Told, Active
<1> QED
    BY <1>6, <1>12, ReportStep

LEMMA ReturnFromRemoveReport ==
    ASSUME OneThread, DeployInv, ReportInv, NEW t \in Threads, ReturnFromRemove(t)
    PROVE  ReportInv' /\ (dir[req[t].rem] = {} \/ req[t].left)
<1>1. Removing(t, "done") /\ RemovalReturns(t, "ok") /\ dir' = dir
    BY DEF ReturnFromRemove
<1>2. dir[req[t].rem] = {} \/ req[t].left
    BY <1>1 DEF ReportInv, Progress, Removing
<1> QED
    BY <1>1, <1>2, ReturnsReport

LEMMA ReportNext == OneThread /\ DeployInv /\ ReportInv /\ [Next]_vars => ReportInv'
<1> SUFFICES ASSUME OneThread, DeployInv, ReportInv, [Next]_vars PROVE ReportInv'
    OBVIOUS
<1>1. CASE UNCHANGED vars
  <2>1. UNCHANGED <<req, dir, hive, reg>>
    BY <1>1 DEF vars
  <2>2. DirInv'
    BY <2>1 DEF ReportInv, DirInv
  <2>3. ASSUME NEW t \in Threads PROVE Progress(t)'
    <3>1. Extracted(req[t]) => Extracted(req[t])'
      BY <2>1 DEF Extracted, Whole
    <3>2. HiveWritten(t, req[t]) => HiveWritten(t, req[t])'
      BY <2>1 DEF HiveWritten, InPlace
    <3>3. KeysWritten(req[t]) => KeysWritten(req[t])'
      BY <2>1 DEF KeysWritten, InPlace
    <3> QED
      BY <2>1, <3>1, <3>2, <3>3 DEF ReportInv, Progress, Active
  <2>4. ASSUME NEW t \in Threads PROVE Told(t)'
    BY <2>1 DEF ReportInv, Told, Active, Whole, InPlace, Installed
  <2> QED
    BY <2>2, <2>3, <2>4 DEF ReportInv
<1>2. ASSUME NEW t \in Threads, Step(t) PROVE ReportInv'
    BY <1>2, ValidateReport, ProcessPotentialUpdateReport, CreatePackageRootReport,
       ExtractFileReport, PrepareReport, CopyVfsFilesReport, WriteReport,
       PSFScriptExecuterReport, RegisterReport, InstallCompleteReport, ReadManifestReport,
       RemoveHandlersReport, RemoveDirectoryReport, ReturnFromRemoveReport DEF Step
<1> QED
    BY <1>1, <1>2, StartReport, CancelReport, CrashReport, PSFScriptExecuterReport DEF Next

LEMMA ReportInit == Init => ReportInv
BY DEF Init, NoRequest, ReportInv, DirInv, Progress, Told, Active

LEMMA ReportHolds == OneThread /\ Spec => [](DeployInv /\ ReportInv)
<1>1. OneThread /\ Init => DeployInv /\ ReportInv
    BY InitInv, ReportInit
<1>2. OneThread /\ DeployInv /\ ReportInv /\ [Next]_vars => (DeployInv /\ ReportInv)'
    BY NextInv, ReportNext
<1>3. ASSUME OneThread PROVE Spec => [](DeployInv /\ ReportInv)
  <2>1. Init => DeployInv /\ ReportInv
    BY <1>1, <1>3
  <2>2. DeployInv /\ ReportInv /\ [Next]_vars => (DeployInv /\ ReportInv)'
    BY <1>2, <1>3
  <2> QED
    BY <2>1, <2>2, PTL DEF Spec
<1> QED
    BY <1>3

(***************************************************************************)
(* When the requests run one after the other, what one tells its caller    *)
(* when it returns is so, whichever handler failed or was passed over,     *)
(* wherever the user cancelled, whatever Windows refused to unload and     *)
(* whenever an earlier process was killed: an add that returned S_OK has   *)
(* its files and its SureKeys in place, a removal that did has taken the   *)
(* directory away or remove_all failed (MsixRequest::ProcessRequest,       *)
(* SetErrorStatus).                                                        *)
(***************************************************************************)
THEOREM DeployReports == OneThread /\ Spec => []ReportTrue
<1>1. DeployInv /\ ReportInv => ReportTrue
  <2> SUFFICES ASSUME DeployInv, ReportInv, NEW t \in Threads,
                      ~Active(t), req[t].hr # "killed"
               PROVE  LET r == req[t]
                      IN  /\ r.op = "add" /\ r.hr = "ok" =>
                                /\ Whole(r.pkg)
                                /\ \A k \in SureKeys(r.pkg) :
                                      reg[k] = [owner |-> r.pkg, whole |-> TRUE]
                          /\ r.op = "remove" /\ r.hr = "ok" => dir[r.pkg] = {} \/ r.left
                          /\ r.status = "error" <=> r.hr \in Errors
                          /\ r.status = "completed" => r.hr = "ok"
                          /\ r.hr = "downgrade" =>
                                \E q \in Packages \ {r.pkg} :
                                    /\ Family[q] = Family[r.pkg]
                                    /\ Version[q] >= Version[r.pkg]
                                    /\ "root" \in dir[q]
    BY DEF ReportTrue
  <2>1. Told(t)
    BY DEF ReportInv
  <2>2. Over(req[t])
    BY DEF DeployInv, ReqInv, RequestOK, Runs, Active
  <2> QED
    BY <2>1, <2>2 DEF Told, Over, InPlace
<1> QED
    BY <1>1, ReportHolds, PTL

-----------------------------------------------------------------------------
(***************************************************************************)
(* MsixCore's deployment pipeline implements PackageStore: seen through    *)
(* FindPackages and the results of its requests, every step of a handler   *)
(* is a step PackageStore allows, or changes nothing.                      *)
(***************************************************************************)

(***************************************************************************)
(* The refinement mapping of Deployment, by name.                          *)
(***************************************************************************)
There == {p \in Packages : Installed(p)}

Asked(r) ==
    [op |-> r.op, pkg |-> r.pkg, left |-> r.left,
     result |-> IF r.hr \in Errors THEN "error" ELSE r.hr]

Phases == [t \in Threads |-> Phase(req[t])]
AskedFor == [t \in Threads |-> Asked(req[t])]

StoreStep == Store!StoreNext \/ UNCHANGED Store!storeVars

LEMMA MappedStep ==
    ASSUME NEW t \in Threads, \A u \in Threads : u # t => req'[u] = req[u]
    PROVE  /\ Phases[t] = Phase(req[t]) /\ AskedFor[t] = Asked(req[t])
           /\ Phases' = [Phases EXCEPT ![t] = Phase(req'[t])]
           /\ AskedFor' = [AskedFor EXCEPT ![t] = Asked(req'[t])]
BY DEF Phases, AskedFor

(***************************************************************************)
(* The steps of PackageStore in terms of the request of the thread.        *)
(***************************************************************************)
LEMMA StutterStep ==
    ASSUME NEW t \in Threads, \A u \in Threads : u # t => req'[u] = req[u],
           Phase(req'[t]) = Phase(req[t]), Asked(req'[t]) = Asked(req[t]),
           There' = There
    PROVE  StoreStep
<1>1. Phases' = Phases /\ AskedFor' = AskedFor
    BY MappedStep DEF Phases, AskedFor
<1> QED
    BY <1>1 DEF StoreStep, Store!storeVars, Phases, AskedFor, There, Asked

LEMMA AskStep ==
    ASSUME NEW t \in Threads, \A u \in Threads : u # t => req'[u] = req[u],
           NEW op \in {"add", "remove"}, NEW p \in Packages,
           Phase(req[t]) = "idle",
           Phase(req'[t]) = IF op = "add" THEN "checking" ELSE "working",
           Asked(req'[t]) = [op |-> op, pkg |-> p, left |-> FALSE, result |-> "pending"],
           There' = There
    PROVE  StoreStep
<1>1. Store!Ask(t, op, p)
    BY MappedStep DEF Store!Ask, Phases, AskedFor, There, Asked
<1> QED
    BY <1>1 DEF StoreStep, Store!StoreNext

LEMMA AcceptStep ==
    ASSUME NEW t \in Threads, \A u \in Threads : u # t => req'[u] = req[u],
           Phase(req[t]) = "checking", Phase(req'[t]) = "working",
           Asked(req'[t]) = Asked(req[t]), There' = There
    PROVE  StoreStep
<1>1. AskedFor' = AskedFor
    BY MappedStep DEF AskedFor
<1>2. Store!Accept(t)
    BY <1>1, MappedStep DEF Store!Accept, Phases, AskedFor, There, Asked
<1> QED
    BY <1>2 DEF StoreStep, Store!StoreNext

LEMMA ChangeStep ==
    ASSUME NEW t \in Threads, \A u \in Threads : u # t => req'[u] = req[u],
           Phase(req[t]) = "working", Phase(req'[t]) = "working",
           NEW left \in BOOLEAN,
           Asked(req'[t]) = [Asked(req[t]) EXCEPT !.left = left],
           \/ There' = There
           \/ req[t].op = "add" /\ There' = There \cup {req[t].pkg}
           \/ req[t].op = "add" /\ \E q \in Store!Older(req[t].pkg) : There' = There \ {q}
           \/ There' = There \ {req[t].pkg}
    PROVE  StoreStep
<1>1. Phases' = Phases
    BY MappedStep DEF Phases
<1>2. AskedFor' = [AskedFor EXCEPT ![t].left = left]
    BY MappedStep
<1>3. AskedFor[t].op = req[t].op /\ AskedFor[t].pkg = req[t].pkg
    BY DEF AskedFor, Asked
<1>4. Phases[t] = "working"
    BY DEF Phases
<1>5. Store!Change(t)
    BY <1>1, <1>2, <1>3, <1>4 DEF Store!Change, Phases, AskedFor, There, Asked
<1> QED
    BY <1>5 DEF StoreStep, Store!StoreNext

\* A request that is over, with its result.
LEMMA AnswerStep ==
    ASSUME NEW t \in Threads, \A u \in Threads : u # t => req'[u] = req[u],
           NEW result, Phase(req'[t]) = "idle",
           Asked(req'[t]) = [Asked(req[t]) EXCEPT !.result = result],
           There' = There
    PROVE  Store!Answer(t, result)
<1>1. AskedFor' = [AskedFor EXCEPT ![t].result = result]
    BY MappedStep
<1>2. Phases' = [Phases EXCEPT ![t] = "idle"]
    BY MappedStep
<1> QED
    BY <1>1, <1>2 DEF Store!Answer, Phases, AskedFor, There, Asked

LEMMA RefuseStep ==
    ASSUME NEW t \in Threads, Phase(req[t]) = "checking", Store!Answer(t, "error")
    PROVE  StoreStep
<1>1. Store!Refuse(t)
    BY DEF Store!Refuse
<1> QED
    BY <1>1 DEF StoreStep, Store!StoreNext

LEMMA FinishStep ==
    ASSUME NEW t \in Threads, Phase(req[t]) = "working",
           \/ req[t].op = "add" /\ req[t].pkg \in There /\ Store!Answer(t, "ok")
           \/ /\ req[t].pkg \notin There \/ req[t].left
              /\ Store!Answer(t, "error") \/ (req[t].op = "remove" /\ Store!Answer(t, "ok"))
    PROVE  StoreStep
<1>1. Store!Finish(t)
    BY DEF Store!Finish, There
<1> QED
    BY <1>1 DEF StoreStep, Store!StoreNext

LEMMA KillStep ==
    ASSUME NEW t \in Threads, Phase(req[t]) # "idle", Store!Answer(t, "killed")
    PROVE  StoreStep
<1>1. Store!Kill(t)
    BY DEF Store!Kill
<1> QED
    BY <1>1 DEF StoreStep, Store!StoreNext

-----------------------------------------------------------------------------
(***************************************************************************)
(* Where a request is, for PackageStore.                                   *)
(***************************************************************************)
LEMMA PhaseOver ==
    ASSUME NEW r, r.hr # "pending"
    PROVE  Phase(r) = "idle"
BY DEF Phase

LEMMA PhaseRuns ==
    ASSUME NEW r, Runs(r)
    PROVE  /\ InChain(r) /\ r.pc \in ReturnError => Phase(r) = "checking"
           /\ InChain(r) /\ r.pc \notin ReturnError => Phase(r) = "working"
           /\ PlainRemoval(r) \/ Updating(r) \/ RollingBack(r) => Phase(r) = "working"
           /\ Asked(r) = [op |-> r.op, pkg |-> r.pkg, left |-> r.left, result |-> "pending"]
<1>1. r.hr = "pending" /\ r.pkg \in Packages
    BY DEF Runs
<1>2. InChain(r) => r.rem = NoPkg
    BY DEF InChain
<1>3. PlainRemoval(r) \/ Updating(r) \/ RollingBack(r) => r.rem # NoPkg
    BY <1>1, NamesAssumption DEF PlainRemoval, Updating, RollingBack
<1>4. "pending" \notin Errors
    BY DEF Errors
<1> QED
    BY <1>1, <1>2, <1>3, <1>4 DEF Phase, Asked

\* Both before and after its step the request works.
Works(r) ==
    /\ Runs(r)
    /\ \/ InChain(r) /\ r.pc \notin ReturnError
       \/ PlainRemoval(r) \/ Updating(r) \/ RollingBack(r)

LEMMA WorkStep ==
    ASSUME NEW t \in Threads, \A u \in Threads : u # t => req'[u] = req[u],
           Works(req[t]), Works(req'[t]), ReqInv',
           req'[t].op = req[t].op, req'[t].pkg = req[t].pkg,
           \/ There' = There
           \/ req[t].op = "add" /\ There' = There \cup {req[t].pkg}
           \/ req[t].op = "add" /\ \E q \in Store!Older(req[t].pkg) : There' = There \ {q}
           \/ There' = There \ {req[t].pkg}
    PROVE  StoreStep
<1>1. Phase(req[t]) = "working" /\ Phase(req'[t]) = "working"
    BY PhaseRuns DEF Works
<1>2. PICK left \in BOOLEAN : left = req'[t].left
    BY DEF ReqInv, Request
<1>3. /\ Asked(req[t]) = [op |-> req[t].op, pkg |-> req[t].pkg, left |-> req[t].left,
                          result |-> "pending"]
      /\ Asked(req'[t]) = [op |-> req[t].op, pkg |-> req[t].pkg, left |-> left,
                           result |-> "pending"]
    BY <1>2, PhaseRuns DEF Works
<1>4. Asked(req'[t]) = [Asked(req[t]) EXCEPT !.left = left]
    BY <1>3
<1> QED
    BY <1>1, <1>4, ChangeStep

\* A request that runs returns.
LEMMA ReturnStep ==
    ASSUME NEW t \in Threads, \A u \in Threads : u # t => req'[u] = req[u],
           Runs(req[t]), req'[t].hr # "pending",
           req'[t].op = req[t].op, req'[t].pkg = req[t].pkg, req'[t].left = req[t].left,
           NEW result, result = IF req'[t].hr \in Errors THEN "error" ELSE req'[t].hr,
           There' = There
    PROVE  Store!Answer(t, result)
<1>1. Phase(req'[t]) = "idle"
    BY PhaseOver
<1>2. Asked(req[t]) = [op |-> req[t].op, pkg |-> req[t].pkg, left |-> req[t].left,
                       result |-> "pending"]
    BY PhaseRuns
<1>3. Asked(req'[t]) = [Asked(req[t]) EXCEPT !.result = result]
    BY <1>2 DEF Asked
<1> QED
    BY <1>1, <1>3, AnswerStep

-----------------------------------------------------------------------------
(***************************************************************************)
(* Requests are made, cancelled and killed.                                *)
(***************************************************************************)
LEMMA StartStore ==
    ASSUME DeployInv, NEW t \in Threads, NEW op \in {"add", "remove"},
           NEW p \in Packages, Start(t, op, p)
    PROVE  StoreStep
<1> DEFINE r == [NoRequest EXCEPT !.op = op, !.pkg = p, !.status = "started",
                                  !.hr = "pending"]
           s == IF op = "add" THEN [r EXCEPT !.pc = "PopulatePackageInfo"] ELSE RemoveOf(r, p)
<1>1. req'[t] = s /\ \A u \in Threads : u # t => req'[u] = req[u]
    BY DEF Start, DeployInv, ReqInv
<1>2. /\ op = "add" => s.pc = "PopulatePackageInfo" /\ s.rem = NoPkg
      /\ op = "remove" => s.rem = p
      /\ s.op = op /\ s.pkg = p /\ s.hr = "pending" /\ s.left = FALSE
    BY DEF NoRequest, RemoveOf
<1> HIDE DEF s
<1>3. Phase(req[t]) = "idle"
    BY PhaseOver DEF Start, Active
<1>4. Phase(s) = IF op = "add" THEN "checking" ELSE "working"
    BY <1>2, NamesAssumption DEF Phase, ReturnError
<1>5. Asked(s) = [op |-> op, pkg |-> p, left |-> FALSE, result |-> "pending"]
    BY <1>2 DEF Asked, Errors
<1>6. There' = There
    BY DEF Start, machineVars, There, Installed
<1> QED
    BY <1>1, <1>3, <1>4, <1>5, <1>6, AskStep

LEMMA CancelStore ==
    ASSUME DeployInv, NEW t \in Threads, CancelRequest(t)
    PROVE  StoreStep
<1> DEFINE r == req[t]
           s == [r EXCEPT !.cancelled = TRUE]
<1>1. r \in Request /\ req'[t] = s /\ \A u \in Threads : u # t => req'[u] = req[u]
    BY DEF CancelRequest, DeployInv, ReqInv
<1>2. /\ s.op = r.op /\ s.pkg = r.pkg /\ s.pc = r.pc /\ s.rem = r.rem /\ s.hr = r.hr
      /\ s.left = r.left
    BY <1>1 DEF Request
<1> HIDE DEF s
<1>3. Phase(s) = Phase(r) /\ Asked(s) = Asked(r)
    BY <1>2 DEF Phase, Asked
<1>4. There' = There
    BY DEF CancelRequest, machineVars, There, Installed
<1> QED
    BY <1>1, <1>3, <1>4, StutterStep

LEMMA CrashStore ==
    ASSUME DeployInv, NEW t \in Threads, Crash(t)
    PROVE  StoreStep
<1>1. /\ req[t] \in Request /\ req'[t] = Returned(req[t], "killed")
      /\ \A u \in Threads : u # t => req'[u] = req[u]
    BY DEF Crash, DeployInv, ReqInv
<1>2. Runs(req[t])
    BY DEF Crash, Active, DeployInv, ReqInv, RequestOK, Over
<1>3. /\ req'[t].hr = "killed" /\ req'[t].op = req[t].op /\ req'[t].pkg = req[t].pkg
      /\ req'[t].left = req[t].left
    BY <1>1, ReturnedFields
<1>4. There' = There
    BY DEF Crash, There, Installed
<1>5. Store!Answer(t, "killed")
    BY <1>1, <1>2, <1>3, <1>4, ReturnStep DEF Errors
<1>6. Phase(req[t]) # "idle"
    BY <1>2, PhaseRuns DEF Runs
<1> QED
    BY <1>5, <1>6, KillStep

-----------------------------------------------------------------------------
(***************************************************************************)
(* The handlers of an add.                                                 *)
(***************************************************************************)

\* What makes an add checking or working.
LEMMA AddingPhase ==
    ASSUME ReqInv, NEW t \in Threads, NEW h, Adding(t, h)
    PROVE  /\ Runs(req[t]) /\ req[t].op = "add" /\ req[t].pkg \in Packages
           /\ h \in ReturnError => Phase(req[t]) = "checking"
           /\ h \notin ReturnError => Works(req[t]) /\ Phase(req[t]) = "working"
<1>1. Runs(req[t]) /\ InChain(req[t]) /\ req[t].pc = h
    BY AddingRuns
<1> QED
    BY <1>1, PhaseRuns DEF Works, InChain, Runs

\* The check refuses the request.
LEMMA RefusedStore ==
    ASSUME ReqInv, NEW t \in Threads, NEW h \in ReturnError, Adding(t, h),
           NEW code \in Errors, Fails(t, code), dir' = dir
    PROVE  StoreStep
<1>1. /\ req'[t].op = "add" /\ req'[t].pkg = req[t].pkg /\ req'[t].hr = code
      /\ req'[t].left = req[t].left
      /\ \A u \in Threads : u # t => req'[u] = req[u]
    BY AfterFails
<1>2. Runs(req[t]) /\ req[t].op = "add" /\ Phase(req[t]) = "checking"
    BY AddingPhase
<1>3. There' = There
    BY DEF There, Installed
<1>4. Store!Answer(t, "error")
    BY <1>1, <1>2, <1>3, ReturnStep DEF Errors
<1> QED
    BY <1>2, <1>4, RefuseStep

LEMMA ValidateStore ==
    ASSUME ReqInv, NEW t \in Threads, Validate(t)
    PROVE  StoreStep
<1>1. PICK h \in ReturnError \ {"ProcessPotentialUpdate"} : Adding(t, h)
    BY DEF Validate
<1>2. dir' = dir
    BY DEF Validate, machineVars
<1>3. CASE Goes(t)
  <2>1. NextHandler(AddHandlers, h) \in ReturnError /\ h # "InstallComplete"
    BY AddHandlersNext DEF ReturnError
  <2>2. /\ Runs(req'[t]) /\ InChain(req'[t]) /\ req'[t].pc \in ReturnError
        /\ req'[t].pkg = req[t].pkg /\ req'[t].left = req[t].left
        /\ \A u \in Threads : u # t => req'[u] = req[u]
    BY <1>1, <1>3, <2>1, AfterGoes
  <2>3. Phase(req[t]) = "checking" /\ Runs(req[t]) /\ req[t].op = "add"
    BY <1>1, AddingPhase
  <2>4. Phase(req'[t]) = "checking" /\ Asked(req'[t]) = Asked(req[t])
    BY <2>2, <2>3, PhaseRuns DEF InChain
  <2>5. There' = There
    BY <1>2 DEF There, Installed
  <2> QED
    BY <2>2, <2>3, <2>4, <2>5, StutterStep
<1>4. CASE Fails(t, "failed")
    BY <1>1, <1>2, <1>4, RefusedStore DEF Errors
<1> QED
    BY <1>3, <1>4 DEF Validate

\* The checks are over: the request begins to work.
LEMMA AcceptedStore ==
    ASSUME ReqInv, NEW t \in Threads, Adding(t, "ProcessPotentialUpdate"), dir' = dir,
           Works(req'[t]), req'[t].op = "add", req'[t].pkg = req[t].pkg,
           req'[t].left = req[t].left,
           \A u \in Threads : u # t => req'[u] = req[u]
    PROVE  StoreStep
<1>1. Runs(req[t]) /\ req[t].op = "add" /\ Phase(req[t]) = "checking"
    BY AddingPhase DEF ReturnError
<1>2. Phase(req'[t]) = "working" /\ Asked(req'[t]) = Asked(req[t])
    BY <1>1, PhaseRuns DEF Works
<1>3. There' = There
    BY DEF There, Installed
<1> QED
    BY <1>1, <1>2, <1>3, AcceptStep

LEMMA ProcessPotentialUpdateStore ==
    ASSUME DeployInv, NEW t \in Threads, ProcessPotentialUpdate(t)
    PROVE  StoreStep
<1> DEFINE h == "ProcessPotentialUpdate"
           r == req[t]
<1>1. Adding(t, h) /\ ReqInv /\ dir' = dir
    BY DEF ProcessPotentialUpdate, DeployInv, machineVars
<1>2. /\ r \in Request /\ Runs(r) /\ InChain(r) /\ r.pc = h /\ r.op = "add"
      /\ r.pkg \in Packages
    BY <1>1, AddingRuns DEF InChain, Runs
<1>3. DeployInv'
    BY ProcessPotentialUpdateInv
<1>4. CASE Goes(t)
  <2>1. NextHandler(AddHandlers, h) = "Extractor" /\ "Extractor" \notin ReturnError
    BY AddHandlersNext DEF ReturnError
  <2>2. /\ Works(req'[t]) /\ req'[t].op = "add" /\ req'[t].pkg = r.pkg
        /\ req'[t].left = r.left
        /\ \A u \in Threads : u # t => req'[u] = req[u]
    BY <1>1, <1>4, <2>1, AfterGoes DEF Works, InChain
  <2> QED
    BY <1>1, <2>2, AcceptedStore
<1>5. CASE req' = [req EXCEPT ![t].reinstall = TRUE, ![t].pc = "Extractor"]
  <2> DEFINE s == [r EXCEPT !.reinstall = TRUE, !.pc = "Extractor"]
  <2>1. req'[t] = s /\ \A u \in Threads : u # t => req'[u] = req[u]
    BY <1>1, <1>5 DEF ReqInv
  <2>2. /\ s.op = r.op /\ s.pkg = r.pkg /\ s.pc = "Extractor" /\ s.rem = r.rem /\ s.hr = r.hr
        /\ s.left = r.left
    BY <1>2 DEF Request
  <2> HIDE DEF s
  <2>3. Runs(s) /\ InChain(s)
    BY <1>2, <1>3, <2>1, <2>2, NamesAssumption
       DEF DeployInv, ReqInv, RequestOK, Over, Runs, InChain, PlainRemoval, Updating, RollingBack
  <2>4. "Extractor" \notin ReturnError
    BY DEF ReturnError
  <2> QED
    BY <1>1, <1>2, <2>1, <2>2, <2>3, <2>4, AcceptedStore DEF Works
<1>6. ASSUME NEW q \in Packages, req' = [req EXCEPT ![t] = RemoveOf(@, q)]
      PROVE  StoreStep
  <2> DEFINE s == RemoveOf(r, q)
  <2>1. req'[t] = s /\ \A u \in Threads : u # t => req'[u] = req[u]
    BY <1>1, <1>6 DEF ReqInv
  <2>2. /\ s.op = r.op /\ s.pkg = r.pkg /\ s.pc = h /\ s.rem = q /\ s.hr = r.hr
        /\ s.left = r.left
    BY <1>2, RemoveOfFields
  <2> HIDE DEF s
  <2>3. Works(s)
    BY <1>2, <1>3, <2>1, <2>2, NamesAssumption
       DEF Works, DeployInv, ReqInv, RequestOK, Over, Runs, InChain
  <2> QED
    BY <1>1, <1>2, <2>1, <2>2, <2>3, AcceptedStore
<1>7. CASE Fails(t, "downgrade")
    BY <1>1, <1>7, RefusedStore DEF Errors, ReturnError
<1> QED
    BY <1>4, <1>5, <1>6, <1>7 DEF ProcessPotentialUpdate

\* A handler after the checks went on, or failed and is rolled back.
LEMMA LateGoes ==
    ASSUME ReqInv, NEW t \in Threads, NEW h \in KeysOf(AddHandlers) \ ReturnError,
           h # "InstallComplete", Adding(t, h), Goes(t)
    PROVE  /\ Works(req'[t]) /\ req'[t].op = "add" /\ req'[t].pkg = req[t].pkg
           /\ \A u \in Threads : u # t => req'[u] = req[u]
<1>1. NextHandler(AddHandlers, h) \notin ReturnError
  <2>1. AddRank[h] > 4 /\ AddRank[h] \in 1..20
    BY RankFacts, AddHandlersKeys DEF AddRank, ReturnError
  <2>2. AddRank[NextHandler(AddHandlers, h)] = AddRank[h] + 1
    BY RankFacts
  <2>3. AddRank[NextHandler(AddHandlers, h)] > 4
    BY <2>1, <2>2
  <2>4. \A g \in ReturnError : AddRank[g] \in 1..4
    BY DEF AddRank, ReturnError
  <2> QED
    BY <2>3, <2>4
<1>2. /\ Runs(req'[t]) /\ InChain(req'[t])
      /\ req'[t].pc = NextHandler(AddHandlers, h)
      /\ req'[t].pkg = req[t].pkg
      /\ \A u \in Threads : u # t => req'[u] = req[u]
    BY AfterGoes
<1> QED
    BY <1>1, <1>2 DEF Works, InChain

LEMMA LateFails ==
    ASSUME ReqInv, NEW t \in Threads, NEW h, h \notin ReturnError,
           Adding(t, h), NEW code \in {"failed", "userexit"}, Fails(t, code)
    PROVE  /\ Works(req'[t]) /\ req'[t].op = "add" /\ req'[t].pkg = req[t].pkg
           /\ \A u \in Threads : u # t => req'[u] = req[u]
BY AfterFails DEF Works, Errors

LEMMA LateTodo ==
    ASSUME ReqInv, ReqInv', NEW t \in Threads, NEW h, h \notin ReturnError,
           Adding(t, h), NEW n \in Nat, req' = [req EXCEPT ![t].todo = n]
    PROVE  /\ Works(req'[t]) /\ req'[t].op = "add" /\ req'[t].pkg = req[t].pkg
           /\ \A u \in Threads : u # t => req'[u] = req[u]
<1>1. /\ req'[t].op = req[t].op /\ req'[t].pkg = req[t].pkg /\ req'[t].pc = h
      /\ req'[t].rem = NoPkg /\ req'[t].hr = "pending"
      /\ \A u \in Threads : u # t => req'[u] = req[u]
    BY AfterTodo
<1>2. req[t].op = "add"
    BY AddingPhase
<1>3. Runs(req'[t]) /\ InChain(req'[t])
    BY <1>1, NamesAssumption
       DEF ReqInv, RequestOK, Over, Runs, PlainRemoval, Updating, RollingBack
<1> QED
    BY <1>1, <1>2, <1>3 DEF Works

\* After the checks, a step that touches no directory.
LEMMA QuietStore ==
    ASSUME ReqInv, ReqInv', NEW t \in Threads, NEW h, h \notin ReturnError, Adding(t, h),
           Works(req'[t]), req'[t].op = "add", req'[t].pkg = req[t].pkg,
           \A u \in Threads : u # t => req'[u] = req[u],
           dir' = dir
    PROVE  StoreStep
<1>1. Works(req[t]) /\ req[t].op = "add"
    BY AddingPhase
<1>2. There' = There
    BY DEF There, Installed
<1> QED
    BY <1>1, <1>2, WorkStep

\* A step of the extraction: the package is listed afterwards, or it is not.
LEMMA ExtractStore ==
    ASSUME DeployInv, ReqInv', NEW t \in Threads, Adding(t, "Extractor"),
           Works(req'[t]), req'[t].op = "add", req'[t].pkg = req[t].pkg,
           \A u \in Threads : u # t => req'[u] = req[u],
           NEW items, dir' = [dir EXCEPT ![req[t].pkg] = items]
    PROVE  StoreStep
<1> DEFINE p == req[t].pkg
<1>1. ReqInv /\ "Extractor" \notin ReturnError
    BY DEF DeployInv, ReturnError
<1>2. Works(req[t]) /\ req[t].op = "add" /\ p \in Packages
    BY <1>1, AddingPhase
<1>3. dir'[p] = items /\ \A q \in Packages : q # p => dir'[q] = dir[q]
    BY <1>2 DEF DeployInv, MachineTypeOK
<1>4. There' = There \cup {p} \/ There' = There \ {p}
    BY <1>2, <1>3 DEF There, Installed
<1> QED
    BY <1>2, <1>4, WorkStep

LEMMA CreatePackageRootStore ==
    ASSUME DeployInv, NEW t \in Threads, CreatePackageRoot(t)
    PROVE  StoreStep
<1> DEFINE h == "Extractor"
<1>1. Adding(t, h) /\ ReqInv /\ ReqInv' /\ h \notin ReturnError
    BY CreatePackageRootInv DEF CreatePackageRoot, DeployInv, ReturnError
<1>2. CASE /\ dir' = [dir EXCEPT ![req[t].pkg] = @ \cup {"root"}]
           /\ req' = [req EXCEPT ![t].todo = 1]
    BY <1>1, <1>2, LateTodo, ExtractStore
<1>3. CASE Fails(t, "failed") /\ UNCHANGED dir
    BY <1>1, <1>3, LateFails, QuietStore
<1> QED
    BY <1>2, <1>3 DEF CreatePackageRoot

LEMMA ExtractFileStore ==
    ASSUME DeployInv, NEW t \in Threads, ExtractFile(t)
    PROVE  StoreStep
<1> DEFINE h == "Extractor"
           r == req[t]
           p == r.pkg
           item == Contents(p)[r.todo]
<1>1. Adding(t, h) /\ ReqInv /\ ReqInv' /\ h \notin ReturnError
    BY ExtractFileInv DEF ExtractFile, DeployInv, ReturnError
<1>2. r \in Request /\ Runs(r) /\ InChain(r) /\ r.pc = h /\ r.op = "add" /\ r.todo \in Nat
    BY <1>1, AddingRuns DEF InChain, Request
<1>3. CASE Fails(t, "userexit") /\ UNCHANGED dir
    BY <1>1, <1>3, LateFails, QuietStore
<1>4. CASE Fails(t, "failed") /\ UNCHANGED dir
    BY <1>1, <1>4, LateFails, QuietStore
<1>5. CASE Fails(t, "failed") /\ dir' = [dir EXCEPT ![p] = @ \ {item}]
    BY <1>1, <1>5, LateFails, ExtractStore
<1>6. CASE /\ dir' = [dir EXCEPT ![p] = @ \cup {item}]
           /\ req' = [req EXCEPT ![t].todo = @ + 1]
  <2>1. req' = [req EXCEPT ![t].todo = r.todo + 1] /\ r.todo + 1 \in Nat
    BY <1>2, <1>6
  <2>2. /\ Works(req'[t]) /\ req'[t].op = "add" /\ req'[t].pkg = req[t].pkg
        /\ \A u \in Threads : u # t => req'[u] = req[u]
    BY <1>1, <2>1, LateTodo
  <2> QED
    BY <1>1, <1>6, <2>2, ExtractStore
<1>7. CASE /\ dir' = [dir EXCEPT ![p] = @ \cup {item}]
           /\ req' = [req EXCEPT ![t].pc = NextHandler(AddHandlers, @),
                                 ![t].todo = 0, ![t].status = "extraction"]
  <2> DEFINE s == [r EXCEPT !.pc = NextHandler(AddHandlers, @),
                            !.todo = 0, !.status = "extraction"]
  <2>1. req'[t] = s /\ \A u \in Threads : u # t => req'[u] = req[u]
    BY <1>1, <1>7 DEF ReqInv
  <2>2. /\ s.op = r.op /\ s.pkg = r.pkg /\ s.rem = r.rem /\ s.hr = r.hr
        /\ s.pc = NextHandler(AddHandlers, h)
    BY <1>2 DEF Request
  <2>3. s.pc = "PrepareDevirtualizedRegistry" /\ s.pc \notin ReturnError
    BY <2>2, AddHandlersNext DEF ReturnError
  <2> HIDE DEF s
  <2>4. s.hr = "pending" /\ s.rem = NoPkg
    BY <1>2, <2>2 DEF Runs, InChain
  <2>5. Runs(s) /\ InChain(s)
    BY <1>1, <2>1, <2>4, NamesAssumption
       DEF ReqInv, RequestOK, Over, Runs, PlainRemoval, Updating, RollingBack
  <2>6. Works(req'[t]) /\ req'[t].op = "add" /\ req'[t].pkg = p
    BY <1>2, <2>1, <2>2, <2>3, <2>5 DEF Works
  <2> QED
    BY <1>1, <1>7, <2>1, <2>6, ExtractStore
<1> QED
    BY <1>3, <1>4, <1>5, <1>6, <1>7 DEF ExtractFile

LEMMA PrepareStore ==
    ASSUME DeployInv, ReqInv', NEW t \in Threads, PrepareDevirtualizedRegistry(t)
    PROVE  StoreStep
<1> DEFINE h == "PrepareDevirtualizedRegistry"
<1>1. Adding(t, h) /\ ReqInv /\ h \notin ReturnError /\ dir' = dir
    BY DEF PrepareDevirtualizedRegistry, DeployInv, ReturnError
<1>2. h \in KeysOf(AddHandlers) \ ReturnError /\ h # "InstallComplete"
    BY AddHandlersKeys DEF ReturnError
<1>3. CASE Goes(t)
    BY <1>1, <1>2, <1>3, LateGoes, QuietStore
<1>4. CASE Fails(t, "failed")
    BY <1>1, <1>4, LateFails, QuietStore
<1> QED
    BY <1>3, <1>4 DEF PrepareDevirtualizedRegistry

LEMMA CopyVfsFilesStore ==
    ASSUME DeployInv, ReqInv', NEW t \in Threads, CopyVfsFiles(t)
    PROVE  StoreStep
<1> DEFINE h == "VirtualFileHandler"
<1>1. Adding(t, h) /\ ReqInv /\ h \notin ReturnError /\ dir' = dir
    BY DEF CopyVfsFiles, DeployInv, ReturnError
<1>2. h \in KeysOf(AddHandlers) \ ReturnError /\ h # "InstallComplete"
    BY AddHandlersKeys DEF ReturnError
<1>3. CASE Goes(t)
    BY <1>1, <1>2, <1>3, LateGoes, QuietStore
<1>4. CASE Fails(t, "failed")
    BY <1>1, <1>4, LateFails, QuietStore
<1>5. CASE UNCHANGED req
    BY <1>1, <1>5, AddingPhase, QuietStore
<1> QED
    BY <1>3, <1>4, <1>5 DEF CopyVfsFiles

LEMMA WriteStore ==
    ASSUME DeployInv, NEW t \in Threads, WriteDevirtualizedRegistry(t)
    PROVE  StoreStep
<1> DEFINE h == "WriteDevirtualizedRegistry"
<1>1. Adding(t, h) /\ ReqInv /\ ReqInv' /\ h \notin ReturnError /\ dir' = dir
    BY WriteInv DEF WriteDevirtualizedRegistry, DevirtualizeKey, DeployInv, ReturnError
<1>2. h \in KeysOf(AddHandlers) \ ReturnError /\ h # "InstallComplete"
    BY AddHandlersKeys DEF ReturnError
<1>3. CASE Goes(t)
    BY <1>1, <1>2, <1>3, LateGoes, QuietStore
<1>4. CASE Fails(t, "failed")
    BY <1>1, <1>4, LateFails, QuietStore
<1>5. CASE req' = [req EXCEPT ![t].todo = @ + 1]
  <2>1. req[t].todo + 1 \in Nat /\ req' = [req EXCEPT ![t].todo = req[t].todo + 1]
    BY <1>1, <1>5 DEF ReqInv, Request
  <2> QED
    BY <1>1, <2>1, LateTodo, QuietStore
<1> QED
    BY <1>3, <1>4, <1>5 DEF WriteDevirtualizedRegistry, DevirtualizeKey

LEMMA PSFScriptExecuterStore ==
    ASSUME DeployInv, ReqInv', NEW t \in Threads, PSFScriptExecuter(t) \/ ScriptEnds(t)
    PROVE  StoreStep
<1> DEFINE h == "PSFScriptExecuter"
<1>1. Adding(t, h) /\ ReqInv /\ h \notin ReturnError /\ dir' = dir
    BY DEF PSFScriptExecuter, ScriptEnds, DeployInv, ReturnError, machineVars
<1>2. h \in KeysOf(AddHandlers) \ ReturnError /\ h # "InstallComplete"
    BY AddHandlersKeys DEF ReturnError
<1>3. CASE Goes(t)
    BY <1>1, <1>2, <1>3, LateGoes, QuietStore
<1>4. CASE Fails(t, "failed") \/ Fails(t, "userexit")
    BY <1>1, <1>4, LateFails, QuietStore
<1>5. CASE req' = [req EXCEPT ![t].todo = 1]
    BY <1>1, <1>5, LateTodo, QuietStore
<1> QED
    BY <1>3, <1>4, <1>5 DEF PSFScriptExecuter, ScriptEnds

LEMMA RegisterStore ==
    ASSUME DeployInv, NEW t \in Threads, Register(t)
    PROVE  StoreStep
<1>1. PICK h \in Registrars : Adding(t, h)
    BY DEF Register
<1>2. ReqInv /\ ReqInv' /\ dir' = dir
    BY RegisterInv DEF Register, DeployInv
<1>3. h \in KeysOf(AddHandlers) \ ReturnError /\ h # "InstallComplete"
    BY AddHandlersKeys DEF ReturnError, Registrars
<1>4. CASE Goes(t)
    BY <1>1, <1>2, <1>3, <1>4, LateGoes, QuietStore
<1>5. CASE Fails(t, "failed") \/ Fails(t, "userexit")
    BY <1>1, <1>2, <1>3, <1>5, LateFails, QuietStore
<1>6. CASE req' = [req EXCEPT ![t].todo = @ + 1]
  <2>1. req[t].todo + 1 \in Nat /\ req' = [req EXCEPT ![t].todo = req[t].todo + 1]
    BY <1>2, <1>6 DEF ReqInv, Request
  <2> QED
    BY <1>1, <1>2, <1>3, <2>1, LateTodo, QuietStore
<1> QED
    BY <1>4, <1>5, <1>6 DEF Register

(***************************************************************************)
(* The last handler reports S_OK, and the package is listed: everything    *)
(* was extracted.                                                          *)
(***************************************************************************)
LEMMA InstallCompleteStore ==
    ASSUME OneThread, DeployInv, ReportInv, NEW t \in Threads, InstallComplete(t)
    PROVE  StoreStep
<1> DEFINE h == "InstallComplete"
           p == req[t].pkg
<1>1. Adding(t, h) /\ ReqInv /\ h \notin ReturnError /\ dir' = dir
    BY DEF InstallComplete, DeployInv, ReturnError
<1>2. /\ Whole(p) /\ req'[t].hr = "ok" /\ req'[t].op = "add" /\ req'[t].pkg = p
      /\ req'[t].left = req[t].left
    BY InstallCompleteReport
<1>3. Runs(req[t]) /\ req[t].op = "add" /\ p \in Packages /\ Phase(req[t]) = "working"
    BY <1>1, AddingPhase
<1>4. \A u \in Threads : u # t => req'[u] = req[u]
    BY <1>1 DEF InstallComplete, ReqInv
<1>5. p \in There
  <2>1. "manifest" \in KeysOf(Contents(p))
    BY <1>3, ContentsFacts DEF KeysOf
  <2> QED
    BY <1>2, <1>3, <2>1 DEF There, Installed, Whole
<1>6. There' = There
    BY <1>1 DEF There, Installed
<1>7. Store!Answer(t, "ok")
    BY <1>2, <1>3, <1>4, <1>6, ReturnStep DEF Errors
<1> QED
    BY <1>3, <1>5, <1>7, FinishStep

-----------------------------------------------------------------------------
(***************************************************************************)
(* The handlers of a removal.                                              *)
(***************************************************************************)
LEMMA RemovingWorks ==
    ASSUME ReqInv, NEW t \in Threads, NEW h, Removing(t, h)
    PROVE  Works(req[t]) /\ Phase(req[t]) = "working"
BY RemovingRuns, PhaseRuns DEF Works

LEMMA GoesOnStore ==
    ASSUME ReqInv, ReqInv', NEW t \in Threads,
           NEW h \in KeysOf(RemoveHandlers) \ {"Extractor"}, Removing(t, h), GoesOn(t),
           dir' = dir
    PROVE  StoreStep
<1>1. /\ Works(req'[t]) /\ req'[t].op = req[t].op /\ req'[t].pkg = req[t].pkg
      /\ \A u \in Threads : u # t => req'[u] = req[u]
    BY AfterGoesOnNext DEF Works
<1>2. Works(req[t])
    BY RemovingWorks
<1>3. There' = There
    BY DEF There, Installed
<1> QED
    BY <1>1, <1>2, <1>3, WorkStep

(***************************************************************************)
(* A removal returns once no manifest is left, or remove_all failed: it    *)
(* answers, or the add around it does, or the update goes on.              *)
(***************************************************************************)
LEMMA ReturnsStore ==
    ASSUME ReqInv, ReqInv', NEW t \in Threads, NEW h, Removing(t, h),
           NEW hr \in {"ok", "failed"}, RemovalReturns(t, hr), dir' = dir,
           "manifest" \notin dir[req[t].rem] \/ req[t].left
    PROVE  StoreStep
<1> DEFINE r == req[t]
<1>1. Runs(r) /\ (PlainRemoval(r) \/ Updating(r) \/ RollingBack(r))
    BY RemovingRuns
<1>2. /\ req'[t].op = r.op /\ req'[t].pkg = r.pkg /\ req'[t].left = r.left
      /\ PlainRemoval(r) => req'[t].hr = hr
      /\ Updating(r) => /\ Runs(req'[t]) /\ InChain(req'[t])
                        /\ req'[t].pc = "Extractor"
      /\ RollingBack(r) => req'[t].hr = r.code
      /\ \A u \in Threads : u # t => req'[u] = req[u]
    BY AfterReturns
<1>3. Works(r) /\ Phase(r) = "working"
    BY RemovingWorks
<1>4. There' = There
    BY DEF There, Installed
<1>5. CASE PlainRemoval(r)
  <2>1. r.op = "remove" /\ (r.pkg \notin There \/ r.left)
    BY <1>5 DEF PlainRemoval, There, Installed
  <2>2. Store!Answer(t, IF hr = "ok" THEN "ok" ELSE "error")
    BY <1>1, <1>2, <1>4, <1>5, ReturnStep DEF Errors
  <2> QED
    BY <1>3, <2>1, <2>2, FinishStep
<1>6. CASE Updating(r)
  <2>1. Works(req'[t])
    BY <1>2, <1>6 DEF Works, ReturnError
  <2> QED
    BY <1>2, <1>3, <1>4, <2>1, WorkStep
<1>7. CASE RollingBack(r)
  <2>1. (r.pkg \notin There \/ r.left) /\ req'[t].hr \in Errors
    BY <1>2, <1>7 DEF RollingBack, There, Installed, Errors
  <2>2. Store!Answer(t, "error")
    BY <1>1, <1>2, <1>4, <2>1, ReturnStep DEF Errors
  <2> QED
    BY <1>3, <2>1, <2>2, FinishStep
<1> QED
    BY <1>1, <1>5, <1>6, <1>7

LEMMA ReadManifestStore ==
    ASSUME DeployInv, ReqInv', NEW t \in Threads, ReadManifest(t)
    PROVE  StoreStep
<1>1. ReqInv /\ dir' = dir /\ Removing(t, "PopulatePackageInfo")
    BY DEF DeployInv, ReadManifest
<1>2. "PopulatePackageInfo" \in KeysOf(RemoveHandlers) \ {"Extractor"}
    BY HandlersDistinct
<1>3. CASE GoesOn(t)
    BY <1>1, <1>2, <1>3, GoesOnStore
<1>4. CASE "manifest" \notin dir[req[t].rem] /\ RemovalReturns(t, "failed")
    BY <1>1, <1>4, ReturnsStore
<1> QED
    BY <1>3, <1>4 DEF ReadManifest

LEMMA RemoveHandlersStore ==
    ASSUME DeployInv, ReqInv', NEW t \in Threads,
           \/ Unregister(t) \/ PrepareForRemove(t) \/ RemoveVfsFiles(t)
           \/ RemoveDevirtualizedRegistry(t)
    PROVE  StoreStep
<1>1. ReqInv
    BY DEF DeployInv
<1>2. /\ Registrars \subseteq KeysOf(RemoveHandlers) \ {"Extractor"}
      /\ "PrepareDevirtualizedRegistry" \in KeysOf(RemoveHandlers) \ {"Extractor"}
      /\ "VirtualFileHandler" \in KeysOf(RemoveHandlers) \ {"Extractor"}
      /\ "WriteDevirtualizedRegistry" \in KeysOf(RemoveHandlers) \ {"Extractor"}
    BY RemoveHandlersKeys DEF Registrars
<1>3. CASE Unregister(t)
    BY <1>1, <1>2, <1>3, GoesOnStore DEF Unregister
<1>4. CASE PrepareForRemove(t)
    BY <1>1, <1>2, <1>4, GoesOnStore DEF PrepareForRemove
<1>5. CASE RemoveDevirtualizedRegistry(t)
    BY <1>1, <1>2, <1>5, GoesOnStore DEF RemoveDevirtualizedRegistry
<1>6. CASE RemoveVfsFiles(t)
  <2>1. Removing(t, "VirtualFileHandler") /\ dir' = dir /\ (GoesOn(t) \/ UNCHANGED req)
    BY <1>6 DEF RemoveVfsFiles
  <2>2. CASE GoesOn(t)
    BY <1>1, <1>2, <2>1, <2>2, GoesOnStore
  <2>3. CASE UNCHANGED req
    <3>1. There' = There
        BY <2>1 DEF There, Installed
    <3> QED
        BY <1>1, <2>1, <2>3, <3>1, RemovingWorks, WorkStep
  <2> QED
    BY <2>1, <2>2, <2>3
<1> QED
    BY <1>3, <1>4, <1>5, <1>6

(***************************************************************************)
(* The directory goes, or as much of it as can be deleted.  It is that of  *)
(* the request's package, or of the older version an update replaces.      *)
(***************************************************************************)
LEMMA RemoveDirectoryStore ==
    ASSUME DeployInv, ReqInv', NEW t \in Threads, RemoveDirectory(t)
    PROVE  StoreStep
<1> DEFINE r == req[t]
           p == r.rem
<1>1. Removing(t, "Extractor") /\ ReqInv
    BY DEF RemoveDirectory, DeployInv
<1>2. /\ r \in Request /\ Runs(r) /\ p \in Packages
      /\ PlainRemoval(r) \/ Updating(r) \/ RollingBack(r)
    BY <1>1, RemovingRuns
<1>0. PICK kept \in SUBSET dir[p] :
          /\ dir' = [dir EXCEPT ![p] = kept]
          /\ req' = [req EXCEPT ![t].rpc = "done", ![t].left = (kept # {})]
    BY DEF RemoveDirectory
<1>3. req' = [req EXCEPT ![t] = [req[t] EXCEPT !.rpc = "done", !.left = (kept # {})]]
    BY <1>0, <1>1 DEF ReqInv
<1>4. "Extractor" \in KeysOf(RemoveHandlers)
    BY RemoveHandlersKeys
<1>5. /\ Works(req'[t]) /\ req'[t].op = r.op /\ req'[t].pkg = r.pkg
      /\ \A u \in Threads : u # t => req'[u] = req[u]
    BY <1>1, <1>3, <1>4, AfterGoesOn DEF Works
<1>6. dir'[p] \subseteq dir[p] /\ \A q \in Packages : q # p => dir'[q] = dir[q]
    BY <1>0, <1>2 DEF DeployInv, MachineTypeOK
<1>7. There' = There \/ There' = There \ {p}
    BY <1>2, <1>6 DEF There, Installed
<1>8. Works(r)
    BY <1>1, RemovingWorks
<1>9. CASE p = r.pkg
    BY <1>5, <1>7, <1>8, <1>9, WorkStep
<1>10. CASE Updating(r)
  <2>1. r.op = "add" /\ p \in Store!Older(r.pkg)
    BY <1>2, <1>10 DEF Updating, Store!Older
  <2> QED
    BY <1>5, <1>7, <1>8, <2>1, WorkStep
<1> QED
    BY <1>2, <1>9, <1>10 DEF PlainRemoval, RollingBack

LEMMA ReturnFromRemoveStore ==
    ASSUME OneThread, DeployInv, ReqInv', ReportInv, NEW t \in Threads, ReturnFromRemove(t)
    PROVE  StoreStep
<1>1. Removing(t, "done") /\ RemovalReturns(t, "ok") /\ dir' = dir /\ ReqInv
    BY DEF ReturnFromRemove, DeployInv
<1>2. dir[req[t].rem] = {} \/ req[t].left
    BY ReturnFromRemoveReport
<1> QED
    BY <1>1, <1>2, ReturnsStore

-----------------------------------------------------------------------------
LEMMA NextStore == OneThread /\ DeployInv /\ ReportInv /\ [Next]_vars => StoreStep
<1> SUFFICES ASSUME OneThread, DeployInv, ReportInv, [Next]_vars PROVE StoreStep
    OBVIOUS
<1>1. CASE UNCHANGED vars
    BY <1>1 DEF vars, StoreStep, Store!storeVars, Installed
<1>2. ASSUME NEW t \in Threads, Step(t) \/ ScriptEnds(t) PROVE StoreStep
  <2>1. ReqInv /\ ReqInv'
    BY NextInv DEF DeployInv
  <2> QED
    BY <1>2, <2>1, ValidateStore, ProcessPotentialUpdateStore, CreatePackageRootStore,
       ExtractFileStore, PrepareStore, CopyVfsFilesStore, WriteStore,
       PSFScriptExecuterStore, RegisterStore, InstallCompleteStore, ReadManifestStore,
       RemoveHandlersStore, RemoveDirectoryStore, ReturnFromRemoveStore DEF Step
<1> QED
    BY <1>1, <1>2, StartStore, CancelStore, CrashStore DEF Next

LEMMA InitStore == Init => Store!StoreInit
<1> SUFFICES ASSUME Init PROVE Store!StoreInit
    OBVIOUS
<1>1. \A p \in Packages : ~Installed(p)
    BY DEF Init, Installed
<1>2. \A t \in Threads : req[t] = NoRequest
    BY DEF Init
<1>3. /\ Phase(NoRequest) = "idle" /\ NoRequest.op = "none" /\ NoRequest.pkg = NoPkg
      /\ NoRequest.hr = "ok" /\ "ok" \notin Errors /\ NoRequest.left = FALSE
    BY DEF Phase, NoRequest, Errors
<1> HIDE DEF NoRequest
<1> QED
    BY <1>1, <1>2, <1>3 DEF Store!StoreInit

(***************************************************************************)
(* When the requests run one after the other, FindPackages and the results *)
(* of the requests behave as PackageStore says, through every failure,     *)
(* cancel and kill: a refused request changes nothing, an add takes away   *)
(* older versions of its package only, an add that succeeds has its        *)
(* package listed, and whatever fails later, or is removed, is not, unless *)
(* remove_all could not delete its files.                                  *)
(***************************************************************************)
THEOREM DeployImplementsStore == OneThread /\ Spec => Store!StoreSafe
<1>1. Init => Store!StoreInit
    BY InitStore
<1>2. ASSUME OneThread PROVE Spec => Store!StoreSafe
  <2>1. DeployInv /\ ReportInv /\ [Next]_vars => [Store!StoreNext]_(Store!storeVars)
    BY <1>2, NextStore DEF StoreStep
  <2>2. Spec => [](DeployInv /\ ReportInv)
    BY <1>2, ReportHolds
  <2> QED
    BY <1>1, <2>1, <2>2, PTL DEF Spec, Store!StoreSafe
<1> QED
    BY <1>2

=============================================================================
