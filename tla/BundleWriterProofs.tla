------------------------- MODULE BundleWriterProofs -------------------------
(***************************************************************************)
(* Proofs about the bundle writer, for every set of packages and every     *)
(* limit on their number.                                                  *)
(***************************************************************************)
EXTENDS BundleWriter, TLAPS, SequenceTheorems, WellFoundedInduction

Families == {p.family : p \in Package}
MainFamilies == Families \cup UNION {{p.main[i] : i \in DOMAIN p.main} : p \in Package}
AllTdfNames == UNION {TdfNames(p) : p \in Package}
FileNames == {p.file : p \in Package}
ResourceIds == {p.resourceId : p \in Package}
OptionalMaps == UNION {[F -> Seq(Package)] : F \in SUBSET Families}

Helper ==
    [added : Nat, neutral : Nat, neutralTdfs : SUBSET AllTdfNames,
     targetsRs5OrLess : BOOLEAN, containsApp : BOOLEAN, fileNames : SUBSET FileNames,
     resourceIds : SUBSET ResourceIds, main : MainFamilies \cup {Null},
     payload : Seq(Package), optional : OptionalMaps,
     external : BOOLEAN, default : BOOLEAN]

\* The packages the helper has accepted.
Payloads(h) == {h.payload[i] : i \in 1..Len(h.payload)}
Optionals(h) == UNION {{h.optional[f][i] : i \in 1..Len(h.optional[f])} : f \in DOMAIN h.optional}
Accepted(h) == Payloads(h) \cup Optionals(h)

Counts(h) ==
    /\ h.added <= MaxNumberOfPackages
    /\ h.neutral <= h.added
    /\ Len(h.payload) <= h.added

(***************************************************************************)
(* What has been accepted is compatible, and the tables against which the  *)
(* next package is checked know of all of it.                              *)
(***************************************************************************)
FamilyInv(h) ==
    /\ \A p \in Payloads(h) : p.family = h.main /\ h.main # Null
    /\ \A p \in Optionals(h) : p.main = <<h.main>> /\ h.main # Null

ResourceInv(h) ==
    /\ \A p \in Accepted(h) : p.kind = "resource" => p.resourceId \in h.resourceIds
    /\ \A p, q \in Accepted(h) : p.kind = "resource" /\ q.kind = "resource" /\ p # q
                                     => p.resourceId # q.resourceId

NeutralInv(h) ==
    /\ \A p \in Payloads(h) : Neutral(p) => TdfNames(p) \subseteq h.neutralTdfs /\ h.neutral > 0
    /\ \A p, q \in Payloads(h) : Neutral(p) /\ Neutral(q) /\ p # q
                                     => TdfNames(p) \cap TdfNames(q) = {} /\ h.neutral > 1
    /\ \A p \in Payloads(h) : p.kind = "application" =>
           \A i \in 1..Len(p.tdfs) : p.tdfs[i].old => h.targetsRs5OrLess

HelperInv(h) ==
    /\ h \in Helper
    /\ Counts(h)
    /\ FamilyInv(h)
    /\ ResourceInv(h)
    /\ NeutralInv(h)

-----------------------------------------------------------------------------
(***************************************************************************)
(* The validations.                                                        *)
(***************************************************************************)

\* What a validation may do to the helper, whether it refuses the package or not.
Grows(h, g) ==
    /\ g \in Helper
    /\ g.payload = h.payload
    /\ Optionals(g) = Optionals(h)
    /\ h.main # Null => g.main = h.main
    /\ h.resourceIds \subseteq g.resourceIds
    /\ h.neutralTdfs \subseteq g.neutralTdfs
    /\ h.neutral <= g.neutral
    /\ h.targetsRs5OrLess => g.targetsRs5OrLess

\* What has only grown in the tables stays compatible.
LEMMA GrowsInv ==
    ASSUME NEW h, NEW g, HelperInv(h), Grows(h, g), Counts(g)
    PROVE  HelperInv(g)
<1>1. Payloads(g) = Payloads(h) /\ Optionals(g) = Optionals(h) /\ Accepted(g) = Accepted(h)
    BY DEF Grows, Payloads, Accepted
<1>2. FamilyInv(g)
    BY <1>1 DEF HelperInv, FamilyInv, Grows
<1>3. ResourceInv(g)
    BY <1>1 DEF HelperInv, ResourceInv, Grows
<1>4. NeutralInv(g)
  <2>1. h.neutral \in Nat /\ g.neutral \in Nat /\ h.neutral <= g.neutral
      BY DEF HelperInv, Grows, Helper
  <2> QED
      BY <1>1, <2>1 DEF HelperInv, NeutralInv, Grows
<1> QED
    BY <1>2, <1>3, <1>4 DEF HelperInv, Grows

\* What the manifest of a package says is of its type.
LEMMA PackageFacts ==
    ASSUME NEW p \in Package
    PROVE  /\ p.kind \in {"application", "resource", "framework"}
           /\ p.neutral \in BOOLEAN /\ p.apps \in BOOLEAN /\ p.resources \in BOOLEAN
           /\ p.family \in Families /\ p.family # Null /\ p.family \in MainFamilies
           /\ Len(p.tdfs) \in Nat /\ DOMAIN p.tdfs = 1..Len(p.tdfs)
           /\ \A i \in 1..Len(p.tdfs) : p.tdfs[i].old \in BOOLEAN
           /\ p.main \in Seq(MainFamilies) /\ \A i \in 1..Len(p.main) : p.main[i] # Null
           /\ p.file \in FileNames /\ p.resourceId \in ResourceIds
           /\ TdfNames(p) \subseteq AllTdfNames
<1>1. /\ p.kind \in {"application", "resource", "framework"}
      /\ p.neutral \in BOOLEAN /\ p.apps \in BOOLEAN /\ p.resources \in BOOLEAN
      /\ p.family # Null
      /\ IsSequence(p.tdfs) /\ \A i \in DOMAIN p.tdfs : p.tdfs[i].old \in BOOLEAN
      /\ IsSequence(p.main) /\ \A i \in DOMAIN p.main : p.main[i] # Null
    BY BundleAssumption
<1>2. Len(p.tdfs) \in Nat /\ DOMAIN p.tdfs = 1..Len(p.tdfs)
  <2>1. p.tdfs \in Seq({p.tdfs[i] : i \in DOMAIN p.tdfs})
      BY <1>1 DEF IsSequence
  <2> QED
      BY <2>1, LenProperties
<1>3. Len(p.main) \in Nat /\ DOMAIN p.main = 1..Len(p.main) /\ p.main \in Seq(MainFamilies)
  <2> DEFINE S == {p.main[i] : i \in DOMAIN p.main}
  <2>1. p.main \in Seq(S)
      BY <1>1 DEF IsSequence
  <2>2. S \subseteq MainFamilies
      BY DEF MainFamilies
  <2> HIDE DEF S
  <2> QED
      BY <2>1, <2>2, LenProperties
<1>4. p.family \in Families /\ p.family \in MainFamilies
    BY DEF Families, MainFamilies
<1>5. p.file \in FileNames /\ p.resourceId \in ResourceIds /\ TdfNames(p) \subseteq AllTdfNames
    BY DEF FileNames, ResourceIds, AllTdfNames
<1> QED
    BY <1>1, <1>2, <1>3, <1>4, <1>5

\* Everything but the table of file names, the resource IDs, the count and the flag.
Keeps(h, g) ==
    /\ g \in Helper
    /\ g.payload = h.payload /\ g.optional = h.optional /\ g.main = h.main
    /\ g.neutral = h.neutral /\ g.neutralTdfs = h.neutralTdfs
    /\ g.targetsRs5OrLess = h.targetsRs5OrLess

\* Keeping the tables is a way of growing.
LEMMA KeepsGrows ==
    ASSUME NEW h \in Helper, NEW g, Keeps(h, g), h.resourceIds \subseteq g.resourceIds
    PROVE  Grows(h, g)
<1>1. h.neutral \in Nat
    BY DEF Helper
<1> QED
    BY <1>1 DEF Keeps, Grows, Optionals

\* The look at the file name.
LEMMA NameStage ==
    ASSUME NEW h \in Helper, NEW p \in Package, NEW o, o = FileNameChecked(h, p)
    PROVE  Keeps(h, o.helper) /\ o.helper.added = h.added /\ o.helper.resourceIds = h.resourceIds
<1>1. CASE h.fileNames = {}
  <2>1. o.helper = h
      BY <1>1 DEF FileNameChecked, Ok
  <2> QED
      BY <2>1 DEF Keeps
<1>2. CASE h.fileNames # {}
  <2> DEFINE g == [h EXCEPT !.fileNames = @ \cup {p.file}]
  <2>1. o.helper = g
      BY <1>2 DEF FileNameChecked
  <2>2. p.file \in FileNames
      BY PackageFacts
  <2>3. g \in Helper
      BY <2>2 DEF Helper
  <2>4. /\ g.payload = h.payload /\ g.optional = h.optional /\ g.main = h.main
        /\ g.neutral = h.neutral /\ g.neutralTdfs = h.neutralTdfs
        /\ g.targetsRs5OrLess = h.targetsRs5OrLess
        /\ g.added = h.added /\ g.resourceIds = h.resourceIds
      BY DEF Helper
  <2> HIDE DEF g
  <2> QED
      BY <2>1, <2>3, <2>4 DEF Keeps
<1> QED
    BY <1>1, <1>2

\* The look at the resource ID, which enters the table even when it is refused.
LEMMA TypeStage ==
    ASSUME NEW h \in Helper, NEW p \in Package, NEW o, o = TypeChecked(h, p)
    PROVE  /\ Keeps(h, o.helper) /\ o.helper.added = h.added
           /\ h.resourceIds \subseteq o.helper.resourceIds
           /\ o.ok /\ p.kind # "application" =>
                  p.resourceId \notin h.resourceIds /\ p.resourceId \in o.helper.resourceIds
<1>1. CASE p.kind = "application"
  <2> DEFINE g == [h EXCEPT !.containsApp = TRUE]
  <2>1. o.helper = g
      BY <1>1 DEF TypeChecked, Ok
  <2>2. g \in Helper
      BY DEF Helper
  <2>3. /\ g.payload = h.payload /\ g.optional = h.optional /\ g.main = h.main
        /\ g.neutral = h.neutral /\ g.neutralTdfs = h.neutralTdfs
        /\ g.targetsRs5OrLess = h.targetsRs5OrLess
        /\ g.added = h.added /\ g.resourceIds = h.resourceIds
      BY DEF Helper
  <2> HIDE DEF g
  <2> QED
      BY <1>1, <2>1, <2>2, <2>3 DEF Keeps
<1>2. CASE p.kind # "application"
  <2> DEFINE g == [h EXCEPT !.resourceIds = @ \cup {p.resourceId}]
  <2>1. o.helper = g /\ (o.ok <=> p.resourceId \notin h.resourceIds)
      BY <1>2 DEF TypeChecked
  <2>2. p.resourceId \in ResourceIds
      BY PackageFacts
  <2>3. g \in Helper
      BY <2>2 DEF Helper
  <2>4. /\ g.payload = h.payload /\ g.optional = h.optional /\ g.main = h.main
        /\ g.neutral = h.neutral /\ g.neutralTdfs = h.neutralTdfs
        /\ g.targetsRs5OrLess = h.targetsRs5OrLess
        /\ g.added = h.added /\ g.resourceIds = h.resourceIds \cup {p.resourceId}
      BY DEF Helper
  <2> HIDE DEF g
  <2> QED
      BY <1>2, <2>1, <2>3, <2>4 DEF Keeps
<1> QED
    BY <1>1, <1>2

\* numberOfPackagesAdded.
LEMMA CountStage ==
    ASSUME NEW h \in Helper, NEW g, g = Counted(h)
    PROVE  Keeps(h, g) /\ g.added = h.added + 1 /\ g.resourceIds = h.resourceIds
<1>1. h.added + 1 \in Nat
    BY DEF Helper
<1>2. g \in Helper
    BY <1>1 DEF Helper, Counted
<1>3. /\ g.payload = h.payload /\ g.optional = h.optional /\ g.main = h.main
      /\ g.neutral = h.neutral /\ g.neutralTdfs = h.neutralTdfs
      /\ g.targetsRs5OrLess = h.targetsRs5OrLess
      /\ g.added = h.added + 1 /\ g.resourceIds = h.resourceIds
    BY DEF Helper, Counted
<1> QED
    BY <1>2, <1>3 DEF Keeps

\* The package can be accepted as far as counts and resource IDs go.
Fresh(h, p) ==
    /\ h.neutral < h.added /\ Len(h.payload) < h.added
    /\ p.kind = "resource" => /\ p.resourceId \in h.resourceIds
                              /\ \A q \in Accepted(h) : q.kind = "resource"
                                                            => q.resourceId # p.resourceId

\* BundleValidationHelper::AddPackage.
LEMMA ValidationStage ==
    ASSUME NEW h, HelperInv(h), NEW p \in Package, NEW o, o = ValidationAddPackage(h, p)
    PROVE  /\ HelperInv(o.helper) /\ (o.ok => Fresh(o.helper, p))
           /\ o.helper.optional = h.optional /\ o.helper.main = h.main
<1> DEFINE o1 == Check(h, h.added < MaxNumberOfPackages)
           o2 == Then(o1, FileNameChecked(o1.helper, p))
           o3 == Then(o2, TypeChecked(o2.helper, p))
           o4 == Then(o3, Ok(Counted(o3.helper)))
<1>1. o = o4
    BY DEF ValidationAddPackage
<1>2. h \in Helper /\ Keeps(h, h)
    BY DEF HelperInv, Keeps
<1>3. o1.helper = h /\ (o1.ok <=> h.added < MaxNumberOfPackages)
    BY DEF Check, Ok, Refused
<1> HIDE DEF o1
<1>4. /\ Keeps(h, o2.helper) /\ o2.helper.added = h.added /\ o2.helper.resourceIds = h.resourceIds
      /\ o2.ok => o1.ok
  <2>1. CASE o1.ok
      BY <1>2, <1>3, <2>1, NameStage DEF Then
  <2>2. CASE ~o1.ok
      BY <1>2, <1>3, <2>2 DEF Then
  <2> QED
      BY <2>1, <2>2
<1> HIDE DEF o2
<1>5. o2.helper \in Helper
    BY <1>4 DEF Keeps
<1>6. /\ Keeps(o2.helper, o3.helper) /\ o3.helper.added = h.added
      /\ h.resourceIds \subseteq o3.helper.resourceIds
      /\ o3.ok => o2.ok
      /\ o3.ok /\ p.kind # "application" =>
             p.resourceId \notin h.resourceIds /\ p.resourceId \in o3.helper.resourceIds
  <2>1. CASE o2.ok
      BY <1>4, <1>5, <2>1, TypeStage DEF Then
  <2>2. CASE ~o2.ok
      BY <1>4, <1>5, <2>2 DEF Then, Keeps
  <2> QED
      BY <2>1, <2>2
<1> HIDE DEF o3
<1>7. Keeps(h, o3.helper) /\ o3.helper \in Helper
    BY <1>4, <1>6 DEF Keeps
<1>8. Grows(h, o3.helper)
    BY <1>2, <1>6, <1>7, KeepsGrows
<1>9. CASE ~o3.ok
  <2>1. o.helper = o3.helper /\ ~o.ok
      BY <1>1, <1>9 DEF Then
  <2>2. Counts(o3.helper)
      BY <1>6, <1>7 DEF HelperInv, Counts, Keeps
  <2> QED
      BY <1>7, <1>8, <2>1, <2>2, GrowsInv DEF Keeps
<1>10. CASE o3.ok
  <2> DEFINE g == Counted(o3.helper)
  <2>1. o.helper = g
      BY <1>1, <1>10 DEF Then, Ok
  <2>2. Keeps(o3.helper, g) /\ g.added = o3.helper.added + 1
        /\ g.resourceIds = o3.helper.resourceIds
      BY <1>7, CountStage
  <2> HIDE DEF g
  <2>3. Keeps(h, g) /\ g.added = h.added + 1 /\ h.resourceIds \subseteq g.resourceIds
      BY <1>6, <1>7, <2>2 DEF Keeps
  <2>4. Grows(h, g)
      BY <1>2, <2>3, KeepsGrows
  <2>5. h.added < MaxNumberOfPackages /\ h.added \in Nat /\ h.neutral \in Nat
        /\ Len(h.payload) \in Nat /\ MaxNumberOfPackages \in Nat
        /\ h.neutral <= h.added /\ Len(h.payload) <= h.added
      BY <1>2, <1>3, <1>4, <1>6, <1>10, BundleAssumption, LenProperties DEF Helper, HelperInv, Counts
  <2>6. /\ g.added <= MaxNumberOfPackages /\ h.neutral < g.added /\ Len(h.payload) < g.added
        /\ h.neutral <= g.added /\ Len(h.payload) <= g.added
      BY <2>3, <2>5
  <2>7. Counts(g) /\ g.neutral < g.added /\ Len(g.payload) < g.added
      BY <2>3, <2>6 DEF Counts, Keeps
  <2>8. HelperInv(g)
      BY <2>4, <2>7, GrowsInv
  <2>9. Accepted(g) = Accepted(h)
      BY <2>3 DEF Keeps, Accepted, Payloads, Optionals
  <2>10. p.kind = "resource" => /\ p.resourceId \in g.resourceIds
                                /\ p.resourceId \notin h.resourceIds
      BY <1>6, <1>10, <2>2
  <2>11. Fresh(g, p)
      BY <2>7, <2>9, <2>10 DEF Fresh, HelperInv, ResourceInv
  <2> QED
      BY <2>1, <2>3, <2>8, <2>11 DEF Keeps
<1> QED
    BY <1>9, <1>10

\* ValidateFamily sets the main family, or compares with it.
LEMMA FamilyStage ==
    ASSUME NEW h, HelperInv(h), NEW f \in MainFamilies, f # Null, NEW o, o = ValidateFamily(h, f)
    PROVE  /\ HelperInv(o.helper)
           /\ o.ok => o.helper.main = f
           /\ \A p \in Package : Fresh(h, p) => Fresh(o.helper, p)
<1>0. h \in Helper
    BY DEF HelperInv
<1>1. CASE h.main = Null
  <2> DEFINE g == [h EXCEPT !.main = f]
  <2>1. o.helper = g
      BY <1>1 DEF ValidateFamily, Ok
  <2>2. g \in Helper
      BY <1>0 DEF Helper
  <2>3. /\ g.payload = h.payload /\ g.optional = h.optional /\ g.main = f
        /\ g.neutral = h.neutral /\ g.neutralTdfs = h.neutralTdfs
        /\ g.targetsRs5OrLess = h.targetsRs5OrLess
        /\ g.added = h.added /\ g.resourceIds = h.resourceIds
      BY <1>0 DEF Helper
  <2> HIDE DEF g
  <2>4. h.neutral \in Nat
      BY <1>0 DEF Helper
  <2>5. Grows(h, g)
      BY <1>1, <2>2, <2>3, <2>4 DEF Grows, Optionals
  <2>6. Counts(g)
      BY <2>3 DEF HelperInv, Counts
  <2>7. \A p \in Package : Fresh(h, p) => Fresh(g, p)
      BY <2>3 DEF Fresh, Accepted, Payloads, Optionals
  <2> QED
      BY <2>1, <2>3, <2>5, <2>6, <2>7, GrowsInv
<1>2. CASE h.main # Null
    BY <1>2 DEF ValidateFamily, Check, Ok, Refused
<1> QED
    BY <1>1, <1>2

\* The least index of a set of them.
LEMMA LeastIndex ==
    ASSUME NEW T \in SUBSET Nat, T # {}
    PROVE  \E i \in T : \A j \in T : i <= j
<1> DEFINE R == OpToRel(<, Nat)
<1>1. \E x \in T : \A y \in T : ~ (<<y, x>> \in R)
    BY NatLessThanWellFounded, WFMin
<1>2. \A x, y \in Nat : y < x => <<y, x>> \in R
    BY DEF OpToRel
<1> HIDE DEF R
<1>3. PICK i \in T : \A j \in T : ~ (<<j, i>> \in R)
    BY <1>1
<1>4. ASSUME NEW j \in T PROVE i <= j
  <2>1. i \in Nat /\ j \in Nat /\ ~(j < i)
      BY <1>2, <1>3
  <2> QED
      BY <2>1
<1> QED
    BY <1>4

\* The loop over the device families of a package ends at one that a neutral
\* package has, or has visited all of them.
LEMMA SeenFacts ==
    ASSUME NEW h, NEW p \in Package, NEW seen, seen = SeenTdfs(h, p)
    PROVE  /\ seen \in 0..Len(p.tdfs)
           /\ ~(/\ p.neutral
                /\ seen > 0
                /\ \/ p.tdfs[seen].name \in h.neutralTdfs
                   \/ \E j \in 1..(seen - 1) : p.tdfs[j].name = p.tdfs[seen].name) =>
                 seen = Len(p.tdfs) /\ (p.neutral => TdfNames(p) \cap h.neutralTdfs = {})
<1> DEFINE Clash(i) == /\ p.neutral
                       /\ \/ p.tdfs[i].name \in h.neutralTdfs
                          \/ \E j \in 1..(i - 1) : p.tdfs[j].name = p.tdfs[i].name
           T == {i \in 1..Len(p.tdfs) : Clash(i)}
<1>0. Len(p.tdfs) \in Nat
    BY PackageFacts
<1>1. CASE \E i \in 1..Len(p.tdfs) : Clash(i)
  <2>1. T # {} /\ T \in SUBSET Nat
      BY <1>0, <1>1
  <2>2. PICK m \in T : \A j \in T : m <= j
      BY <2>1, LeastIndex
  <2>3. m \in 1..Len(p.tdfs) /\ Clash(m) /\ \A j \in 1..(m - 1) : j \in 1..Len(p.tdfs) /\ j < m
      BY <1>0, <2>2
  <2>4. \A j \in 1..(m - 1) : ~Clash(j)
      BY <1>0, <2>2, <2>3
  <2>5. seen = CHOOSE i \in 1..Len(p.tdfs) : Clash(i) /\ \A j \in 1..(i - 1) : ~Clash(j)
      BY <1>1 DEF SeenTdfs
  <2> HIDE DEF Clash
  <2>6. seen \in 1..Len(p.tdfs) /\ Clash(seen)
      BY <2>3, <2>4, <2>5
  <2> QED
      BY <1>0, <2>6 DEF Clash
<1>2. CASE ~\E i \in 1..Len(p.tdfs) : Clash(i)
  <2>1. seen = Len(p.tdfs)
      BY <1>2 DEF SeenTdfs
  <2>2. p.neutral => TdfNames(p) \cap h.neutralTdfs = {}
      BY <1>2 DEF TdfNames
  <2> QED
      BY <1>0, <2>1, <2>2
<1> QED
    BY <1>1, <1>2

\* The package can be accepted among the payload packages.
Ready(h, p) ==
    /\ Len(h.payload) < h.added
    /\ p.kind = "resource" => /\ p.resourceId \in h.resourceIds
                              /\ \A q \in Accepted(h) : q.kind = "resource"
                                                            => q.resourceId # p.resourceId
    /\ p.family = h.main
    /\ Neutral(p) => /\ TdfNames(p) \subseteq h.neutralTdfs /\ h.neutral > 0
                     /\ \A q \in Payloads(h) : Neutral(q) =>
                            TdfNames(q) \cap TdfNames(p) = {} /\ h.neutral > 1
    /\ p.kind = "application" => \A i \in 1..Len(p.tdfs) : p.tdfs[i].old => h.targetsRs5OrLess

\* The device families, which enter the table even when one of them is refused.
LEMMA TdfsStage ==
    ASSUME NEW h, HelperInv(h), NEW p \in Package, Fresh(h, p), h.main = p.family,
           p.kind = "application", NEW o, o = ValidateTargetDeviceFamilies(h, p)
    PROVE  HelperInv(o.helper) /\ (o.ok => Ready(o.helper, p))
<1> DEFINE seen == SeenTdfs(h, p)
           clash == /\ p.neutral
                    /\ seen > 0
                    /\ \/ p.tdfs[seen].name \in h.neutralTdfs
                       \/ \E j \in 1..(seen - 1) : p.tdfs[j].name = p.tdfs[seen].name
           names == {p.tdfs[i].name : i \in 1..seen}
           n == IF p.neutral THEN h.neutral + 1 ELSE h.neutral
           old == h.targetsRs5OrLess \/ \E i \in 1..seen : p.tdfs[i].old
           tdfs == IF p.neutral THEN h.neutralTdfs \cup names ELSE h.neutralTdfs
           g == [h EXCEPT !.neutral = n, !.targetsRs5OrLess = old, !.neutralTdfs = tdfs]
<1>1. o.helper = g /\ (o.ok <=> ~clash)
    BY DEF ValidateTargetDeviceFamilies
<1>2. h \in Helper /\ h.neutral \in Nat /\ h.added \in Nat /\ h.neutralTdfs \subseteq AllTdfNames
      /\ h.neutral < h.added
    BY DEF HelperInv, Helper, Fresh
<1>3. Len(p.tdfs) \in Nat /\ p.neutral \in BOOLEAN /\ TdfNames(p) \subseteq AllTdfNames
      /\ \A i \in 1..Len(p.tdfs) : p.tdfs[i].old \in BOOLEAN
    BY PackageFacts
<1>4. seen \in 0..Len(p.tdfs) /\ (~clash => seen = Len(p.tdfs)
                                    /\ (p.neutral => TdfNames(p) \cap h.neutralTdfs = {}))
    BY SeenFacts
<1> HIDE DEF seen
<1>5. names \subseteq TdfNames(p) /\ (~clash => names = TdfNames(p))
    BY <1>3, <1>4 DEF TdfNames
<1>6. tdfs \subseteq AllTdfNames /\ h.neutralTdfs \subseteq tdfs
    BY <1>2, <1>3, <1>5
<1>7. n \in Nat /\ h.neutral <= n /\ n <= h.added /\ (p.neutral => n = h.neutral + 1 /\ n > 0)
    BY <1>2, <1>3
<1>8. old \in BOOLEAN /\ (h.targetsRs5OrLess => old)
      /\ (~clash => \A i \in 1..Len(p.tdfs) : p.tdfs[i].old => old)
    BY <1>2, <1>3, <1>4 DEF Helper
<1>8a. p.neutral => names \subseteq tdfs
    OBVIOUS
<1> HIDE DEF clash, names, n, old, tdfs
<1>9. g \in Helper
    BY <1>2, <1>6, <1>7, <1>8 DEF Helper
<1>10. /\ g.payload = h.payload /\ g.optional = h.optional /\ g.main = h.main
       /\ g.neutral = n /\ g.neutralTdfs = tdfs /\ g.targetsRs5OrLess = old
       /\ g.added = h.added /\ g.resourceIds = h.resourceIds
    BY <1>2 DEF Helper
<1> HIDE DEF g
<1>11. Grows(h, g)
    BY <1>6, <1>7, <1>8, <1>9, <1>10 DEF Grows, Optionals
<1>12. Counts(g)
    BY <1>7, <1>10 DEF HelperInv, Counts
<1>13. HelperInv(g)
    BY <1>11, <1>12, GrowsInv
<1>14. ASSUME ~clash PROVE Ready(g, p)
  <2>1. Payloads(g) = Payloads(h) /\ Accepted(g) = Accepted(h)
      BY <1>10 DEF Accepted, Payloads, Optionals
  <2>2. ASSUME Neutral(p)
        PROVE  /\ TdfNames(p) \subseteq g.neutralTdfs /\ g.neutral > 0
               /\ \A q \in Payloads(h) : Neutral(q) =>
                      TdfNames(q) \cap TdfNames(p) = {} /\ g.neutral > 1
    <3>1. p.neutral
        BY <2>2 DEF Neutral
    <3>2. TdfNames(p) \subseteq tdfs
        BY <1>5, <1>8a, <1>14, <3>1
    <3>3. \A q \in Payloads(h) : Neutral(q) => TdfNames(q) \subseteq h.neutralTdfs /\ h.neutral > 0
        BY DEF HelperInv, NeutralInv
    <3>4. h.neutral > 0 => n > 1
        BY <1>2, <1>7, <3>1
    <3> QED
        BY <1>4, <1>7, <1>10, <1>14, <3>1, <3>2, <3>3, <3>4
  <2> QED
      BY <1>8, <1>10, <1>14, <2>1, <2>2 DEF Ready, Fresh
<1> QED
    BY <1>1, <1>13, <1>14

\* The flags of AddPackageInfoToVector.
LEMMA InfoStage ==
    ASSUME NEW h, HelperInv(h), NEW p \in Package, NEW isDefault \in BOOLEAN,
           NEW g, g = InfoAdded(h, p, isDefault)
    PROVE  /\ HelperInv(g)
           /\ Keeps(h, g) /\ g.added = h.added /\ g.resourceIds = h.resourceIds
<1>1. h \in Helper
    BY DEF HelperInv
<1>2. (h.default \/ isDefault \/ ~p.resources) \in BOOLEAN
    OBVIOUS
<1>3. g \in Helper
    BY <1>1, <1>2 DEF Helper, InfoAdded
<1>4. /\ g.payload = h.payload /\ g.optional = h.optional /\ g.main = h.main
      /\ g.neutral = h.neutral /\ g.neutralTdfs = h.neutralTdfs
      /\ g.targetsRs5OrLess = h.targetsRs5OrLess
      /\ g.added = h.added /\ g.resourceIds = h.resourceIds
    BY <1>1 DEF Helper, InfoAdded
<1>5. Keeps(h, g)
    BY <1>3, <1>4 DEF Keeps
<1>6. Grows(h, g)
    BY <1>1, <1>4, <1>5, KeepsGrows
<1>7. Counts(g)
    BY <1>4 DEF HelperInv, Counts
<1> QED
    BY <1>4, <1>5, <1>6, <1>7, GrowsInv

\* The package is pushed to payloadPackages.
LEMMA PayloadStage ==
    ASSUME NEW h, HelperInv(h), NEW p \in Package, Ready(h, p), NEW g, g = PayloadAdded(h, p)
    PROVE  HelperInv(g)
<1>1. h \in Helper /\ h.payload \in Seq(Package) /\ h.added \in Nat /\ Len(h.payload) \in Nat
      /\ Len(h.payload) < h.added
    BY LenProperties DEF HelperInv, Helper, Ready
<1> DEFINE new == Append(h.payload, p)
<1>2. /\ new \in Seq(Package) /\ Len(new) = Len(h.payload) + 1
      /\ \A i \in 1..Len(h.payload) : new[i] = h.payload[i]
      /\ new[Len(h.payload) + 1] = p
    BY <1>1, AppendProperties
<1> HIDE DEF new
<1>3. g = [h EXCEPT !.payload = new]
    BY DEF PayloadAdded, new
<1>4. g \in Helper
    BY <1>1, <1>2, <1>3 DEF Helper
<1>5. /\ g.payload = new /\ g.optional = h.optional /\ g.main = h.main
      /\ g.neutral = h.neutral /\ g.neutralTdfs = h.neutralTdfs
      /\ g.targetsRs5OrLess = h.targetsRs5OrLess
      /\ g.added = h.added /\ g.resourceIds = h.resourceIds
    BY <1>1, <1>3 DEF Helper
<1>6. Payloads(g) = Payloads(h) \cup {p}
  <2>1. \A i \in 1..Len(new) : i \in 1..Len(h.payload) \/ i = Len(h.payload) + 1
      BY <1>1, <1>2
  <2>2. Payloads(g) \subseteq Payloads(h) \cup {p}
      BY <1>2, <1>5, <2>1 DEF Payloads
  <2>3. \A i \in 1..Len(h.payload) : i \in 1..Len(new)
      BY <1>1, <1>2
  <2>4. Len(h.payload) + 1 \in 1..Len(new)
      BY <1>1, <1>2
  <2> QED
      BY <1>2, <1>5, <2>2, <2>3, <2>4 DEF Payloads
<1>7. Optionals(g) = Optionals(h) /\ Accepted(g) = Accepted(h) \cup {p}
    BY <1>5, <1>6 DEF Optionals, Accepted
<1>8. Counts(g)
    BY <1>1, <1>2, <1>5 DEF HelperInv, Counts
<1>9. FamilyInv(g)
  <2>1. p.family = h.main /\ h.main # Null
      BY PackageFacts DEF Ready
  <2> QED
      BY <1>5, <1>6, <1>7, <2>1 DEF HelperInv, FamilyInv
<1>10. ResourceInv(g)
    BY <1>5, <1>7 DEF HelperInv, ResourceInv, Ready
<1>11. NeutralInv(g)
  <2>1. \A q \in Payloads(g) : Neutral(q) => TdfNames(q) \subseteq g.neutralTdfs /\ g.neutral > 0
      BY <1>5, <1>6 DEF HelperInv, NeutralInv, Ready
  <2>2. \A q, r \in Payloads(g) : Neutral(q) /\ Neutral(r) /\ q # r
                                     => TdfNames(q) \cap TdfNames(r) = {} /\ g.neutral > 1
      BY <1>5, <1>6 DEF HelperInv, NeutralInv, Ready
  <2>3. \A q \in Payloads(g) : q.kind = "application" =>
           \A i \in 1..Len(q.tdfs) : q.tdfs[i].old => g.targetsRs5OrLess
      BY <1>5, <1>6 DEF HelperInv, NeutralInv, Ready
  <2> QED
      BY <2>1, <2>2, <2>3 DEF NeutralInv
<1> QED
    BY <1>4, <1>8, <1>9, <1>10, <1>11 DEF HelperInv

(***************************************************************************)
(* BundleWriterHelper::AddPackage, whichever validation refuses, leaves a  *)
(* helper in which what was accepted is compatible.                        *)
(***************************************************************************)
LEMMA AddPackageInv ==
    ASSUME NEW h, HelperInv(h), NEW p \in Package, NEW isDefault \in BOOLEAN,
           NEW o, o = HelperAddPackage(h, p, isDefault)
    PROVE  HelperInv(o.helper)
<1> DEFINE type == GetPayloadPackageType(h, p)
           counted == IF type.ok THEN ValidationAddPackage(type.helper, p) ELSE type
           family == IF counted.ok THEN ValidateFamily(counted.helper, p.family) ELSE counted
           apps == IF family.ok THEN Check(family.helper, p.kind = "application" => p.apps)
                   ELSE family
           tdfs == IF p.kind = "application"
                   THEN IF apps.ok THEN ValidateTargetDeviceFamilies(apps.helper, p) ELSE apps
                   ELSE apps
           pushed == Ok(PayloadAdded(InfoAdded(tdfs.helper, p, isDefault), p))
<1>1. o = IF tdfs.ok THEN pushed ELSE tdfs
    BY DEF HelperAddPackage, Then
<1>2. type.helper = h
    BY DEF GetPayloadPackageType, Check, Ok, Refused
<1> HIDE DEF type
<1>3. HelperInv(counted.helper) /\ (counted.ok => type.ok /\ Fresh(counted.helper, p))
  <2>1. CASE type.ok
      BY <1>2, <2>1, ValidationStage
  <2>2. CASE ~type.ok
      BY <1>2, <2>2
  <2> QED
      BY <2>1, <2>2
<1> HIDE DEF counted
<1>4. /\ HelperInv(family.helper)
      /\ family.ok => Fresh(family.helper, p) /\ family.helper.main = p.family
  <2>1. CASE counted.ok
      BY <1>3, <2>1, PackageFacts, FamilyStage
  <2>2. CASE ~counted.ok
      BY <1>3, <2>2
  <2> QED
      BY <2>1, <2>2
<1> HIDE DEF family
<1>5. apps.helper = family.helper /\ (apps.ok => family.ok)
    BY DEF Check, Ok, Refused
<1> HIDE DEF apps
<1>6. HelperInv(tdfs.helper) /\ (tdfs.ok => Ready(tdfs.helper, p))
  <2>1. CASE p.kind = "application" /\ apps.ok
      BY <1>4, <1>5, <2>1, TdfsStage
  <2>2. CASE p.kind = "application" /\ ~apps.ok
      BY <1>4, <1>5, <2>2
  <2>3. CASE p.kind # "application"
    <3>1. tdfs = apps
        BY <2>3
    <3>2. apps.ok => Ready(apps.helper, p)
        BY <1>4, <1>5, <2>3 DEF Ready, Fresh, Neutral
    <3> QED
        BY <1>4, <1>5, <3>1, <3>2
  <2> QED
      BY <2>1, <2>2, <2>3
<1> HIDE DEF tdfs
<1>7. CASE tdfs.ok
  <2> DEFINE g == InfoAdded(tdfs.helper, p, isDefault)
  <2>1. HelperInv(g) /\ Keeps(tdfs.helper, g) /\ g.added = tdfs.helper.added
        /\ g.resourceIds = tdfs.helper.resourceIds
      BY <1>6, InfoStage
  <2> HIDE DEF g
  <2>2. Payloads(g) = Payloads(tdfs.helper) /\ Accepted(g) = Accepted(tdfs.helper)
      BY <2>1 DEF Keeps, Payloads, Accepted, Optionals
  <2>3. Ready(g, p)
      BY <1>6, <1>7, <2>1, <2>2 DEF Ready, Keeps
  <2>4. o.helper = PayloadAdded(g, p)
      BY <1>1, <1>7 DEF Ok, g
  <2> QED
      BY <2>1, <2>3, <2>4, PayloadStage
<1>8. CASE ~tdfs.ok
    BY <1>1, <1>6, <1>8
<1> QED
    BY <1>7, <1>8

\* A new optional bundle has no package yet.
LEMMA BundleStage ==
    ASSUME NEW h, HelperInv(h), NEW f \in Families, NEW g, g = OptionalBundleAdded(h, f)
    PROVE  HelperInv(g) /\ g.main = h.main /\ f \in DOMAIN g.optional
<1> DEFINE D == DOMAIN h.optional
           new == [e \in D \cup {f} |-> IF e \in D THEN h.optional[e] ELSE <<>>]
<1>1. h \in Helper /\ h.optional \in OptionalMaps
    BY DEF HelperInv, Helper
<1>2. D \in SUBSET Families /\ h.optional \in [D -> Seq(Package)]
    BY <1>1 DEF OptionalMaps
<1>3. new \in [D \cup {f} -> Seq(Package)] /\ D \cup {f} \in SUBSET Families
    BY <1>2
<1>4. DOMAIN new = D \cup {f} /\ \A e \in D : new[e] = h.optional[e]
    OBVIOUS
<1>5. f \notin D => new[f] = <<>>
    OBVIOUS
<1>6. g = [h EXCEPT !.optional = new]
    BY DEF OptionalBundleAdded
<1> HIDE DEF new
<1>7. new \in OptionalMaps
    BY <1>3 DEF OptionalMaps
<1>8. g \in Helper
    BY <1>1, <1>6, <1>7 DEF Helper
<1>9. /\ g.payload = h.payload /\ g.optional = new /\ g.main = h.main
      /\ g.neutral = h.neutral /\ g.neutralTdfs = h.neutralTdfs
      /\ g.targetsRs5OrLess = h.targetsRs5OrLess
      /\ g.added = h.added /\ g.resourceIds = h.resourceIds
    BY <1>1, <1>6 DEF Helper
<1>10. Optionals(g) = Optionals(h)
  <2>1. f \notin D => Len(new[f]) = 0
      BY <1>5
  <2>2. f \notin D => {new[f][i] : i \in 1..Len(new[f])} = {}
      BY <2>1
  <2>3. ASSUME NEW q PROVE q \in Optionals(g) <=> q \in Optionals(h)
    <3>1. q \in Optionals(g) <=> \E e \in D \cup {f} : q \in {new[e][i] : i \in 1..Len(new[e])}
        BY <1>4, <1>9 DEF Optionals
    <3>2. q \in Optionals(h) <=> \E e \in D : q \in {h.optional[e][i] : i \in 1..Len(h.optional[e])}
        BY DEF Optionals
    <3>3. \A e \in D : q \in {new[e][i] : i \in 1..Len(new[e])}
              <=> q \in {h.optional[e][i] : i \in 1..Len(h.optional[e])}
        BY <1>4
    <3> QED
        BY <2>2, <3>1, <3>2, <3>3
  <2> QED
      BY <2>3
<1>11. h.neutral \in Nat
    BY <1>1 DEF Helper
<1>12. Grows(h, g)
    BY <1>8, <1>9, <1>10, <1>11 DEF Grows
<1>13. Counts(g)
    BY <1>9 DEF HelperInv, Counts
<1> QED
    BY <1>4, <1>9, <1>12, <1>13, GrowsInv

\* The package is pushed to the packages of its optional bundle.
LEMMA OptionalStage ==
    ASSUME NEW h, HelperInv(h), NEW p \in Package, Fresh(h, p), p.family \in DOMAIN h.optional,
           p.main = <<h.main>>, h.main # Null, NEW g, g = OptionalAdded(h, p)
    PROVE  HelperInv(g)
<1> DEFINE D == DOMAIN h.optional
           old == h.optional[p.family]
           more == Append(old, p)
           new == [h.optional EXCEPT ![p.family] = more]
<1>1. h \in Helper /\ h.optional \in OptionalMaps
    BY DEF HelperInv, Helper
<1>2. D \in SUBSET Families /\ h.optional \in [D -> Seq(Package)] /\ old \in Seq(Package)
    BY <1>1 DEF OptionalMaps
<1> HIDE DEF old
<1>3. /\ more \in Seq(Package) /\ Len(more) = Len(old) + 1 /\ Len(old) \in Nat
      /\ \A i \in 1..Len(old) : more[i] = old[i]
      /\ more[Len(old) + 1] = p
    BY <1>2, AppendProperties, LenProperties
<1> HIDE DEF more
<1>4. new \in [D -> Seq(Package)]
    BY <1>2, <1>3
<1>5. /\ DOMAIN new = D /\ new[p.family] = more
      /\ \A e \in D : e # p.family => new[e] = h.optional[e]
    BY <1>2
<1>6. g = [h EXCEPT !.optional = new]
    BY DEF OptionalAdded, old, more
<1> HIDE DEF new
<1>7. new \in OptionalMaps
    BY <1>2, <1>4 DEF OptionalMaps
<1>8. g \in Helper
    BY <1>1, <1>6, <1>7 DEF Helper
<1>9. /\ g.payload = h.payload /\ g.optional = new /\ g.main = h.main
      /\ g.neutral = h.neutral /\ g.neutralTdfs = h.neutralTdfs
      /\ g.targetsRs5OrLess = h.targetsRs5OrLess
      /\ g.added = h.added /\ g.resourceIds = h.resourceIds
    BY <1>1, <1>6 DEF Helper
<1>10. Optionals(g) = Optionals(h) \cup {p}
  <2>1. {more[i] : i \in 1..Len(more)} = {old[i] : i \in 1..Len(old)} \cup {p}
    <3>1. \A i \in 1..Len(more) : i \in 1..Len(old) \/ i = Len(old) + 1
        BY <1>3
    <3>2. (\A i \in 1..Len(old) : i \in 1..Len(more)) /\ Len(old) + 1 \in 1..Len(more)
        BY <1>3
    <3> QED
        BY <1>3, <3>1, <3>2
  <2>2. ASSUME NEW q PROVE q \in Optionals(g) <=> q \in Optionals(h) \cup {p}
    <3>1. q \in Optionals(g) <=> \E e \in D : q \in {new[e][i] : i \in 1..Len(new[e])}
        BY <1>5, <1>9 DEF Optionals
    <3>2. q \in Optionals(h) <=> \E e \in D : q \in {h.optional[e][i] : i \in 1..Len(h.optional[e])}
        BY DEF Optionals
    <3>3. q \in {new[p.family][i] : i \in 1..Len(new[p.family])}
              <=> q = p \/ q \in {h.optional[p.family][i] : i \in 1..Len(h.optional[p.family])}
        BY <1>5, <2>1 DEF old
    <3>4. \A e \in D \ {p.family} : q \in {new[e][i] : i \in 1..Len(new[e])}
              <=> q \in {h.optional[e][i] : i \in 1..Len(h.optional[e])}
        BY <1>5
    <3> QED
        BY <3>1, <3>2, <3>3, <3>4
  <2> QED
      BY <2>2
<1>11. Payloads(g) = Payloads(h) /\ Accepted(g) = Accepted(h) \cup {p}
    BY <1>9, <1>10 DEF Payloads, Accepted
<1>12. Counts(g)
    BY <1>9 DEF HelperInv, Counts
<1>13. FamilyInv(g)
    BY <1>9, <1>10, <1>11 DEF HelperInv, FamilyInv
<1>14. ResourceInv(g)
    BY <1>9, <1>11 DEF HelperInv, ResourceInv, Fresh
<1>15. NeutralInv(g)
    BY <1>9, <1>11 DEF HelperInv, NeutralInv
<1> QED
    BY <1>8, <1>12, <1>13, <1>14, <1>15 DEF HelperInv

(***************************************************************************)
(* AddExternalPackageReferenceFromManifest does as well.                   *)
(***************************************************************************)
LEMMA AddExternalInv ==
    ASSUME NEW h, HelperInv(h), NEW p \in Package, NEW isDefault \in BOOLEAN,
           NEW o, o = HelperAddExternal(h, p, isDefault)
    PROVE  HelperInv(o.helper)
<1> DEFINE hasMain == Check(h, p.main # <<>>)
           main == IF hasMain.ok THEN ValidateFamily(hasMain.helper, p.main[1]) ELSE hasMain
           oneMain == IF main.ok THEN Check(main.helper, Len(p.main) = 1) ELSE main
           bundle == IF oneMain.ok THEN Ok(OptionalBundleAdded(oneMain.helper, p.family)) ELSE oneMain
           type == IF bundle.ok THEN GetPayloadPackageType(bundle.helper, p) ELSE bundle
           counted == IF type.ok THEN ValidationAddPackage(type.helper, p) ELSE type
           apps == IF counted.ok THEN Check(counted.helper, p.kind = "application" => p.apps)
                   ELSE counted
           pushed == Ok(OptionalAdded(InfoAdded(apps.helper, p, isDefault), p))
<1>1. o = IF apps.ok THEN pushed ELSE apps
    BY DEF HelperAddExternal, Then
<1>2. p.main \in Seq(MainFamilies) /\ \A i \in 1..Len(p.main) : p.main[i] # Null
    BY PackageFacts
<1>3. hasMain.helper = h /\ (hasMain.ok <=> p.main # <<>>)
    BY DEF Check, Ok, Refused
<1> HIDE DEF hasMain
<1>4. HelperInv(main.helper) /\ (main.ok => hasMain.ok /\ main.helper.main = p.main[1])
  <2>1. CASE hasMain.ok
    <3>1. Len(p.main) \in Nat /\ Len(p.main) # 0
        BY <1>2, <1>3, <2>1, LenProperties, EmptySeq
    <3>2. 1 \in 1..Len(p.main)
        BY <3>1
    <3>3. p.main[1] \in MainFamilies /\ p.main[1] # Null
        BY <1>2, <3>2, ElementOfSeq
    <3> QED
        BY <1>3, <2>1, <3>3, FamilyStage
  <2>2. CASE ~hasMain.ok
      BY <1>3, <2>2
  <2> QED
      BY <2>1, <2>2
<1> HIDE DEF main
<1>5. /\ oneMain.helper = main.helper
      /\ oneMain.ok => p.main = <<oneMain.helper.main>> /\ oneMain.helper.main # Null
  <2>1. oneMain.helper = main.helper /\ (oneMain.ok => main.ok /\ Len(p.main) = 1)
      BY DEF Check, Ok, Refused
  <2>2. Len(p.main) = 1 => p.main = <<p.main[1]>> /\ p.main[1] # Null
      BY <1>2
  <2> HIDE DEF oneMain
  <2> QED
      BY <1>4, <2>1, <2>2
<1> HIDE DEF oneMain
<1>6. /\ HelperInv(bundle.helper)
      /\ bundle.ok => /\ p.family \in DOMAIN bundle.helper.optional
                      /\ p.main = <<bundle.helper.main>> /\ bundle.helper.main # Null
  <2>1. CASE oneMain.ok
    <3>1. bundle.helper = OptionalBundleAdded(oneMain.helper, p.family)
        BY <2>1 DEF Ok
    <3>2. p.family \in Families
        BY PackageFacts
    <3>3. /\ HelperInv(bundle.helper) /\ bundle.helper.main = oneMain.helper.main
          /\ p.family \in DOMAIN bundle.helper.optional
        BY <1>4, <1>5, <3>1, <3>2, BundleStage
    <3> QED
        BY <1>5, <2>1, <3>3
  <2>2. CASE ~oneMain.ok
      BY <1>4, <1>5, <2>2
  <2> QED
      BY <2>1, <2>2
<1> HIDE DEF bundle
<1>7. type.helper = bundle.helper /\ (type.ok => bundle.ok)
    BY DEF GetPayloadPackageType, Check, Ok, Refused
<1> HIDE DEF type
<1>8. /\ HelperInv(counted.helper)
      /\ counted.ok => /\ Fresh(counted.helper, p) /\ p.family \in DOMAIN counted.helper.optional
                       /\ p.main = <<counted.helper.main>> /\ counted.helper.main # Null
  <2>1. CASE type.ok
    <3>1. HelperInv(type.helper) /\ counted = ValidationAddPackage(type.helper, p)
        BY <1>6, <1>7, <2>1
    <3>2. /\ HelperInv(counted.helper) /\ (counted.ok => Fresh(counted.helper, p))
          /\ counted.helper.optional = type.helper.optional
          /\ counted.helper.main = type.helper.main
        BY <3>1, ValidationStage
    <3> QED
        BY <1>6, <1>7, <2>1, <3>2
  <2>2. CASE ~type.ok
      BY <1>6, <1>7, <2>2
  <2> QED
      BY <2>1, <2>2
<1> HIDE DEF counted
<1>9. apps.helper = counted.helper /\ (apps.ok => counted.ok)
    BY DEF Check, Ok, Refused
<1> HIDE DEF apps
<1>10. CASE apps.ok
  <2> DEFINE g == InfoAdded(apps.helper, p, isDefault)
  <2>1. HelperInv(g) /\ Keeps(apps.helper, g) /\ g.added = apps.helper.added
        /\ g.resourceIds = apps.helper.resourceIds
      BY <1>8, <1>9, InfoStage
  <2> HIDE DEF g
  <2>2. Accepted(g) = Accepted(apps.helper)
      BY <2>1 DEF Keeps, Payloads, Accepted, Optionals
  <2>3. Fresh(g, p) /\ p.family \in DOMAIN g.optional /\ p.main = <<g.main>> /\ g.main # Null
      BY <1>8, <1>9, <1>10, <2>1, <2>2 DEF Fresh, Keeps
  <2>4. o.helper = OptionalAdded(g, p)
      BY <1>1, <1>10 DEF Ok, g
  <2> QED
      BY <2>1, <2>3, <2>4, OptionalStage
<1>11. CASE ~apps.ok
    BY <1>1, <1>8, <1>9, <1>11
<1> QED
    BY <1>10, <1>11

-----------------------------------------------------------------------------
(***************************************************************************)
(* The manifest Close writes.                                              *)
(***************************************************************************)
InBundle == <<"Bundle">>
InPackages == <<"Bundle", "Packages">>

PackageElement == [in : {InBundle, InPackages}, package : Package]
OptionalElement == [in : {InBundle, InPackages}, family : Families, packages : Seq(Package)]
Manifest == [namespace : {"2013", "2016", "2017", "2018"}, identity : MainFamilies \cup {Null},
             packages : Seq(PackageElement), bundles : Seq(OptionalElement)]

\* What m lists so far is what the helper h has accepted.
Lists(h, m) ==
    /\ m.identity = h.main
    /\ NeutralAllowed(h)
    /\ h.neutral > 1 => m.namespace = "2018"
    /\ Len(m.packages) <= Len(h.payload)
    /\ \A i \in 1..Len(m.packages) :
           m.packages[i].in = InPackages /\ m.packages[i].package = h.payload[i]
    /\ \A i \in 1..Len(m.bundles) :
           /\ m.bundles[i].family \in DOMAIN h.optional
           /\ m.bundles[i].packages = h.optional[m.bundles[i].family]

AllPackages(h, m) == Len(m.packages) = Len(h.payload)
BesidePackages(m) == \A i \in 1..Len(m.bundles) : m.bundles[i].in = InBundle

\* How far the manifest writer is, and where the next element goes.
Progress(h, m, state, around) ==
    /\ state \in {"BundleManifestStarted", "PackagesAdded", "OptionalBundlesAdded",
                  "BundleManifestEnded"}
    /\ state \in {"BundleManifestStarted", "PackagesAdded"} =>
           m.bundles = <<>> /\ around = InPackages
    /\ state = "OptionalBundlesAdded" =>
           /\ AllPackages(h, m)
           /\ around = InPackages \/ (around = InBundle /\ BesidePackages(m))
    /\ state = "BundleManifestEnded" =>
           /\ AllPackages(h, m) /\ BesidePackages(m)
           /\ {m.bundles[i].family : i \in 1..Len(m.bundles)} = DOMAIN h.optional

ManifestInv(h, m, state, around) ==
    m \in Manifest /\ Lists(h, m) /\ Progress(h, m, state, around)

\* StartBundleManifest.
LEMMA ManifestStarts ==
    ASSUME NEW h, HelperInv(h), NeutralAllowed(h), NEW m,
           m = [namespace |-> TargetXmlNamespace(h), identity |-> h.main,
                packages |-> <<>>, bundles |-> <<>>]
    PROVE  ManifestInv(h, m, "BundleManifestStarted", InPackages)
<1>1. h \in Helper /\ h.neutral \in Nat /\ h.main \in MainFamilies \cup {Null}
      /\ Len(h.payload) \in Nat
    BY LenProperties DEF HelperInv, Helper
<1>2. /\ TargetXmlNamespace(h) \in {"2013", "2016", "2017", "2018"}
      /\ h.neutral > 1 => TargetXmlNamespace(h) = "2018"
    BY <1>1 DEF TargetXmlNamespace
<1>3. <<>> \in Seq(PackageElement) /\ <<>> \in Seq(OptionalElement) /\ Len(<<>>) = 0
    BY EmptySeq
<1>4. m \in Manifest
    BY <1>1, <1>2, <1>3 DEF Manifest
<1>5. m.identity = h.main /\ m.namespace = TargetXmlNamespace(h) /\ m.packages = <<>>
      /\ m.bundles = <<>>
    OBVIOUS
<1>6. Len(m.packages) = 0 /\ Len(m.bundles) = 0
    BY <1>3, <1>5
<1>7. Lists(h, m)
    BY <1>1, <1>2, <1>5, <1>6 DEF Lists
<1>8. Progress(h, m, "BundleManifestStarted", InPackages)
    BY <1>5 DEF Progress
<1> QED
    BY <1>4, <1>7, <1>8 DEF ManifestInv

\* AddPackage of the manifest writer.
LEMMA ManifestAddsPackage ==
    ASSUME NEW h, HelperInv(h), NEW m, NEW state, NEW around, ManifestInv(h, m, state, around),
           state # "BundleManifestEnded", Len(m.packages) < Len(h.payload), NEW n,
           n = [m EXCEPT !.packages =
                   Append(@, [in |-> around, package |-> h.payload[Len(m.packages) + 1]])]
    PROVE  ManifestInv(h, n, "PackagesAdded", around)
<1> DEFINE k == Len(m.packages)
           element == [in |-> around, package |-> h.payload[k + 1]]
           more == Append(m.packages, element)
<1>1. h.payload \in Seq(Package) /\ Len(h.payload) \in Nat
    BY LenProperties DEF HelperInv, Helper
<1>2. m \in Manifest /\ m.packages \in Seq(PackageElement) /\ k \in Nat
    BY LenProperties DEF ManifestInv, Manifest
<1>3. around = InPackages /\ m.bundles = <<>>
    BY <1>1, <1>2 DEF ManifestInv, Progress, AllPackages
<1>4. k + 1 \in 1..Len(h.payload)
    BY <1>1, <1>2
<1>5. element \in PackageElement /\ element.in = InPackages /\ element.package = h.payload[k + 1]
    BY <1>1, <1>3, <1>4, ElementOfSeq DEF PackageElement
<1> HIDE DEF element
<1>6. /\ more \in Seq(PackageElement) /\ Len(more) = k + 1
      /\ \A i \in 1..k : more[i] = m.packages[i]
      /\ more[k + 1] = element
    BY <1>2, <1>5, AppendProperties
<1>7. n = [m EXCEPT !.packages = more]
    BY DEF element
<1> HIDE DEF more
<1>8. n \in Manifest
    BY <1>2, <1>6, <1>7 DEF Manifest
<1>9. n.packages = more /\ n.bundles = m.bundles /\ n.identity = m.identity
      /\ n.namespace = m.namespace
    BY <1>2, <1>7 DEF Manifest
<1>10. \A i \in 1..Len(more) : more[i].in = InPackages /\ more[i].package = h.payload[i]
  <2> SUFFICES ASSUME NEW i \in 1..Len(more)
               PROVE  more[i].in = InPackages /\ more[i].package = h.payload[i]
      OBVIOUS
  <2>1. i \in 1..k \/ i = k + 1
      BY <1>2, <1>6
  <2> QED
      BY <1>5, <1>6, <2>1 DEF ManifestInv, Lists
<1>11. Lists(h, n)
    BY <1>1, <1>2, <1>6, <1>9, <1>10 DEF ManifestInv, Lists
<1>12. Progress(h, n, "PackagesAdded", around)
    BY <1>3, <1>9 DEF Progress
<1> QED
    BY <1>8, <1>11, <1>12 DEF ManifestInv

\* Closing Packages leaves Bundle open.
LEMMA OneUp == SubSeq(InPackages, 1, Len(InPackages) - 1) = InBundle /\ InBundle # <<>>
<1> DEFINE S == {"Bundle", "Packages"}
<1>1. Len(InPackages) = 2 /\ InPackages[1] = "Bundle"
    BY DEF InPackages
<1>2. InBundle \in Seq(S)
    BY DEF InBundle
<1>3. Len(InBundle) = 1 /\ InBundle[1] = "Bundle"
    BY DEF InBundle
<1>4. InBundle # <<>>
    BY DEF InBundle
<1> DEFINE up == SubSeq(InPackages, 1, 1)
<1>5. up \in Seq(S) /\ Len(up) = 1 /\ up[1] = "Bundle"
  <2>1. \A i \in 1..1 : InPackages[i] \in S
      BY <1>1
  <2> QED
      BY <1>1, <2>1, SubSeqProperties
<1> HIDE DEF up, S
<1>6. up = InBundle
    BY <1>2, <1>3, <1>5, SeqEqual
<1>7. Len(InPackages) - 1 = 1
    BY <1>1
<1> QED
    BY <1>4, <1>6, <1>7 DEF up

\* EndPackagesElementIfNecessary leaves Packages just when a package was written.
Around(state, around) ==
    IF state = "PackagesAdded" THEN SubSeq(around, 1, Len(around) - 1) ELSE around

\* An OptionalBundle is put into Packages only if no package was written.
LEMMA AroundFacts ==
    ASSUME NEW h, NEW m, NEW state, NEW around, Progress(h, m, state, around),
           state # "BundleManifestEnded"
    PROVE  \/ Around(state, around) = InPackages
           \/ Around(state, around) = InBundle /\ BesidePackages(m)
<1>1. CASE state = "PackagesAdded"
  <2>1. around = InPackages /\ m.bundles = <<>>
      BY <1>1 DEF Progress
  <2>2. SubSeq(InPackages, 1, Len(InPackages) - 1) = InBundle
      BY OneUp
  <2>3. Len(m.bundles) = 0
      BY <2>1
  <2> QED
      BY <1>1, <2>1, <2>2, <2>3 DEF Around, BesidePackages
<1>2. CASE state # "PackagesAdded"
    BY <1>2 DEF Around, Progress
<1> QED
    BY <1>1, <1>2

\* AddOptionalBundle of the manifest writer.
LEMMA ManifestAddsOptional ==
    ASSUME NEW h, HelperInv(h), NEW m, NEW state, NEW around, ManifestInv(h, m, state, around),
           state # "BundleManifestEnded", Len(m.packages) = Len(h.payload),
           NEW family \in DOMAIN h.optional, NEW n,
           n = [m EXCEPT !.bundles = Append(@, [in |-> Around(state, around), family |-> family,
                                                packages |-> h.optional[family]])]
    PROVE  ManifestInv(h, n, "OptionalBundlesAdded", Around(state, around))
<1> DEFINE now == Around(state, around)
           k == Len(m.bundles)
           element == [in |-> now, family |-> family, packages |-> h.optional[family]]
           more == Append(m.bundles, element)
<1>1. h.optional \in OptionalMaps
    BY DEF HelperInv, Helper
<1>2. family \in Families /\ h.optional[family] \in Seq(Package)
    BY <1>1 DEF OptionalMaps
<1>3. m \in Manifest /\ m.bundles \in Seq(OptionalElement) /\ k \in Nat
    BY LenProperties DEF ManifestInv, Manifest
<1>4. now = InPackages \/ (now = InBundle /\ BesidePackages(m))
    BY AroundFacts DEF ManifestInv
<1> HIDE DEF now
<1>5. /\ element \in OptionalElement /\ element.in = now /\ element.family = family
      /\ element.packages = h.optional[family]
    BY <1>2, <1>4 DEF OptionalElement
<1> HIDE DEF element
<1>6. /\ more \in Seq(OptionalElement) /\ Len(more) = k + 1
      /\ \A i \in 1..k : more[i] = m.bundles[i]
      /\ more[k + 1] = element
    BY <1>3, <1>5, AppendProperties
<1>7. n = [m EXCEPT !.bundles = more]
    BY DEF element, now
<1> HIDE DEF more
<1>8. n \in Manifest
    BY <1>3, <1>6, <1>7 DEF Manifest
<1>9. n.packages = m.packages /\ n.bundles = more /\ n.identity = m.identity
      /\ n.namespace = m.namespace
    BY <1>3, <1>7 DEF Manifest
<1>10. \A i \in 1..Len(more) : /\ more[i].family \in DOMAIN h.optional
                               /\ more[i].packages = h.optional[more[i].family]
  <2> SUFFICES ASSUME NEW i \in 1..Len(more)
               PROVE  /\ more[i].family \in DOMAIN h.optional
                      /\ more[i].packages = h.optional[more[i].family]
      OBVIOUS
  <2>1. i \in 1..k \/ i = k + 1
      BY <1>3, <1>6
  <2> QED
      BY <1>5, <1>6, <2>1 DEF ManifestInv, Lists
<1>11. Lists(h, n)
    BY <1>9, <1>10 DEF ManifestInv, Lists
<1>12. now = InPackages \/ (now = InBundle /\ BesidePackages(n))
  <2>1. ASSUME now = InBundle, BesidePackages(m), NEW i \in 1..Len(more) PROVE more[i].in = InBundle
    <3>1. i \in 1..k \/ i = k + 1
        BY <1>3, <1>6
    <3> QED
        BY <1>5, <1>6, <2>1, <3>1 DEF BesidePackages
  <2> QED
      BY <1>4, <1>9, <2>1 DEF BesidePackages
<1>13. Progress(h, n, "OptionalBundlesAdded", now)
    BY <1>9, <1>12 DEF Progress, AllPackages
<1> QED
    BY <1>8, <1>11, <1>13 DEF ManifestInv, now

\* EndBundleManifest, when it leaves no element open.
LEMMA ManifestEnds ==
    ASSUME NEW h, NEW m, NEW state, NEW around, ManifestInv(h, m, state, around),
           state # "BundleManifestEnded", Len(m.packages) = Len(h.payload),
           {m.bundles[i].family : i \in 1..Len(m.bundles)} = DOMAIN h.optional, NEW last,
           last = SubSeq(Around(state, around), 1, Len(Around(state, around)) - 1), last = <<>>
    PROVE  ManifestInv(h, m, "BundleManifestEnded", last)
<1>1. SubSeq(InPackages, 1, Len(InPackages) - 1) = InBundle /\ InBundle # <<>>
    BY OneUp
<1>2. BesidePackages(m)
    BY <1>1, AroundFacts DEF ManifestInv
<1>3. Progress(h, m, "BundleManifestEnded", last)
    BY <1>2 DEF Progress, AllPackages
<1> QED
    BY <1>3 DEF ManifestInv

-----------------------------------------------------------------------------
(***************************************************************************)
(* A complete manifest lists packages that go together.                    *)
(***************************************************************************)
InPackagesOf(m) == {m.packages[i].package : i \in 1..Len(m.packages)}

InBundlesOf(m) ==
    UNION {{m.bundles[i].packages[j] : j \in 1..Len(m.bundles[i].packages)} : i \in 1..Len(m.bundles)}

Compatible(m) ==
    /\ \A p \in InPackagesOf(m) : p.family = m.identity
    /\ \A p \in InBundlesOf(m) : p.main = <<m.identity>>
    /\ \A p, q \in InPackagesOf(m) \cup InBundlesOf(m) :
           p.kind = "resource" /\ q.kind = "resource" /\ p # q => p.resourceId # q.resourceId
    /\ \A p, q \in InPackagesOf(m) : Neutral(p) /\ Neutral(q) /\ p # q =>
           /\ TdfNames(p) \cap TdfNames(q) = {}
           /\ m.namespace = "2018"
           /\ \A r \in InPackagesOf(m) : r.kind = "application" =>
                 \A i \in 1..Len(r.tdfs) : ~r.tdfs[i].old

\* The manifest inherits the compatibility of what was accepted.
LEMMA ManifestCompatible ==
    ASSUME NEW h, HelperInv(h), NEW m, Lists(h, m), m \in Manifest
    PROVE  Compatible(m)
<1>1. Len(m.packages) \in Nat /\ Len(h.payload) \in Nat /\ Len(m.packages) <= Len(h.payload)
      /\ h.neutral \in Nat /\ h.targetsRs5OrLess \in BOOLEAN
    BY LenProperties DEF Manifest, HelperInv, Helper, Lists
<1>2. InPackagesOf(m) \subseteq Payloads(h)
  <2>1. \A i \in 1..Len(m.packages) : i \in 1..Len(h.payload) /\ m.packages[i].package = h.payload[i]
      BY <1>1 DEF Lists
  <2> QED
      BY <2>1 DEF InPackagesOf, Payloads
<1>3. InBundlesOf(m) \subseteq Optionals(h)
  <2> SUFFICES ASSUME NEW p \in InBundlesOf(m) PROVE p \in Optionals(h)
      OBVIOUS
  <2>1. PICK i \in 1..Len(m.bundles) :
            p \in {m.bundles[i].packages[j] : j \in 1..Len(m.bundles[i].packages)}
      BY DEF InBundlesOf
  <2>2. PICK f \in DOMAIN h.optional : m.bundles[i].packages = h.optional[f]
      BY DEF Lists
  <2> QED
      BY <2>1, <2>2 DEF Optionals
<1>4. \A p \in InPackagesOf(m) : p.family = m.identity
    BY <1>2 DEF HelperInv, FamilyInv, Lists
<1>5. \A p \in InBundlesOf(m) : p.main = <<m.identity>>
    BY <1>3 DEF HelperInv, FamilyInv, Lists
<1>6. \A p, q \in InPackagesOf(m) \cup InBundlesOf(m) :
           p.kind = "resource" /\ q.kind = "resource" /\ p # q => p.resourceId # q.resourceId
    BY <1>2, <1>3 DEF HelperInv, ResourceInv, Accepted
<1>7. ASSUME NEW p \in InPackagesOf(m), NEW q \in InPackagesOf(m), Neutral(p), Neutral(q), p # q
      PROVE  /\ TdfNames(p) \cap TdfNames(q) = {}
             /\ m.namespace = "2018"
             /\ \A r \in InPackagesOf(m) : r.kind = "application" =>
                   \A i \in 1..Len(r.tdfs) : ~r.tdfs[i].old
  <2>1. TdfNames(p) \cap TdfNames(q) = {} /\ h.neutral > 1
      BY <1>2, <1>7 DEF HelperInv, NeutralInv
  <2>2. ~h.targetsRs5OrLess
      BY <1>1, <2>1 DEF Lists, NeutralAllowed
  <2>3. \A r \in Payloads(h) : r.kind = "application" =>
            \A i \in 1..Len(r.tdfs) : r.tdfs[i].old => h.targetsRs5OrLess
      BY DEF HelperInv, NeutralInv
  <2>4. m.namespace = "2018"
      BY <2>1 DEF Lists
  <2> QED
      BY <1>2, <2>1, <2>2, <2>3, <2>4
<1> QED
    BY <1>4, <1>5, <1>6, <1>7 DEF Compatible

-----------------------------------------------------------------------------
(***************************************************************************)
(* The writer.                                                             *)
(***************************************************************************)
StateTypes ==
    /\ writerState \in {"Open", "Failed", "Closed"}
    /\ call \in {"none", "payload", "external", "close"}
    /\ batch \subseteq Package

CloseInv ==
    call = "close" => /\ writerState = "Open"
                      /\ ManifestInv(helper, manifest, manifestState, open)
                      /\ parts # <<>> => manifestState = "BundleManifestEnded"

\* Nothing is written before the last Close, and what is written then stays.
ArchiveInv ==
    /\ call # "close" /\ writerState = "Open" => parts = <<>>
    /\ writerState = "Closed" => Compatible(manifest)

BundleInv == StateTypes /\ HelperInv(helper) /\ CloseInv /\ ArchiveInv

\* The invariant holds of a new writer.
LEMMA InitInv == BundleInit => BundleInv
<1> SUFFICES ASSUME BundleInit PROVE BundleInv
    OBVIOUS
<1>1. /\ helper.added = 0 /\ helper.neutral = 0 /\ helper.neutralTdfs = {}
      /\ helper.targetsRs5OrLess = FALSE /\ helper.containsApp = FALSE /\ helper.fileNames = {}
      /\ helper.resourceIds = {} /\ helper.main = Null /\ helper.payload = <<>>
      /\ helper.optional = [f \in {} |-> <<>>]
    BY DEF BundleInit
<1>2. [f \in {} |-> <<>>] \in OptionalMaps
  <2>1. [f \in {} |-> <<>>] \in [{} -> Seq(Package)] /\ {} \in SUBSET Families
      OBVIOUS
  <2> QED
      BY <2>1 DEF OptionalMaps
<1>3. <<>> \in Seq(Package) /\ Len(<<>>) = 0
    BY EmptySeq
<1>4. helper \in Helper
    BY <1>2, <1>3 DEF BundleInit, Helper
<1>5. Counts(helper)
    BY <1>1, <1>3, BundleAssumption DEF Counts
<1>6. Payloads(helper) = {} /\ Optionals(helper) = {} /\ Accepted(helper) = {}
  <2>1. Payloads(helper) = {}
      BY <1>1, <1>3 DEF Payloads
  <2>2. DOMAIN helper.optional = {}
      BY <1>1
  <2>3. Optionals(helper) = {}
      BY <2>2 DEF Optionals
  <2> QED
      BY <2>1, <2>3 DEF Accepted
<1>7. HelperInv(helper)
    BY <1>4, <1>5, <1>6 DEF HelperInv, FamilyInv, ResourceInv, NeutralInv
<1> QED
    BY <1>7 DEF BundleInit, BundleInv, StateTypes, CloseInv, ArchiveInv

\* Everything outside Close: the manifest and the archive are left alone.
Outside ==
    /\ call # "close" /\ call' # "close"
    /\ writerState' # writerState => writerState' = "Failed"
    /\ UNCHANGED <<manifest, open, manifestState, parts>>

\* The calls that add packages keep the invariant if they keep that of the helper.
LEMMA OutsideInv ==
    ASSUME BundleInv, Outside, StateTypes', HelperInv(helper')
    PROVE  BundleInv'
<1>1. CloseInv'
    BY DEF Outside, CloseInv
<1>2. ArchiveInv'
    BY DEF BundleInv, ArchiveInv, Outside
<1> QED
    BY <1>1, <1>2 DEF BundleInv

\* Close fails: the writer is of no more use.
LEMMA FailInv ==
    ASSUME BundleInv, Fail
    PROVE  BundleInv'
<1>1. StateTypes' /\ CloseInv' /\ ArchiveInv'
    BY DEF Fail, BundleInv, StateTypes, CloseInv, ArchiveInv
<1> QED
    BY <1>1 DEF BundleInv, Fail

\* Every step of the writer keeps the invariant.
LEMMA StepInv ==
    ASSUME BundleInv, [BundleNext]_bundleVars
    PROVE  BundleInv'
<1> USE DEF BundleInv
<1>1. ASSUME NEW p \in Package, NEW isDefault \in BOOLEAN, AddPackageReference(p, isDefault)
      PROVE  BundleInv'
  <2>1. HelperInv(helper')
      BY <1>1, AddPackageInv DEF AddPackageReference
  <2>2. Outside /\ StateTypes'
      BY <1>1 DEF AddPackageReference, Idle, Outside, StateTypes
  <2> QED
      BY <2>1, <2>2, OutsideInv
<1>2. ASSUME NEW p \in Package, NEW isDefault \in BOOLEAN, AddExternalPackageReference(p, isDefault)
      PROVE  BundleInv'
  <2>1. HelperInv(helper')
      BY <1>2, AddExternalInv DEF AddExternalPackageReference
  <2>2. Outside /\ StateTypes'
      BY <1>2 DEF AddExternalPackageReference, Idle, Outside, StateTypes
  <2> QED
      BY <2>1, <2>2, OutsideInv
<1>3. ASSUME NEW files \in SUBSET Package,
             ProcessBundlePayload(files) \/ ProcessExternalPackages(files)
      PROVE  BundleInv'
  <2>1. Outside /\ StateTypes' /\ helper' = helper
      BY <1>3 DEF ProcessBundlePayload, ProcessExternalPackages, Idle, Outside, StateTypes
  <2> QED
      BY <2>1, OutsideInv
<1>4. ASSUME NEW p \in batch, ProcessNext(p)
      PROVE  BundleInv'
  <2>1. p \in Package
      BY DEF StateTypes
  <2>2. HelperInv(helper')
    <3>1. CASE call = "payload"
        BY <1>4, <2>1, <3>1, AddPackageInv DEF ProcessNext
    <3>2. CASE call # "payload"
        BY <1>4, <2>1, <3>2, AddExternalInv DEF ProcessNext
    <3> QED
        BY <3>1, <3>2
  <2>3. Outside /\ StateTypes'
    <3>1. /\ call \in {"payload", "external"} /\ call' \in {call, "none"}
          /\ batch' \subseteq batch
          /\ writerState' \in {writerState, "Failed"}
          /\ UNCHANGED <<manifest, open, manifestState, parts>>
        BY <1>4 DEF ProcessNext
    <3> QED
        BY <3>1 DEF Outside, StateTypes
  <2> QED
      BY <2>2, <2>3, OutsideInv
<1>5. CASE ProcessUnreadable \/ ProcessEnd
  <2>1. Outside /\ StateTypes' /\ helper' = helper
      BY <1>5 DEF ProcessUnreadable, ProcessEnd, Outside, StateTypes
  <2> QED
      BY <2>1, OutsideInv
<1>6. CASE Close
  <2>1. CASE helper.containsApp /\ NeutralAllowed(helper)
    <3>1. /\ call' = "close" /\ call = "none" /\ writerState = "Open" /\ writerState' = writerState
          /\ manifest' = [namespace |-> TargetXmlNamespace(helper), identity |-> helper.main,
                          packages |-> <<>>, bundles |-> <<>>]
          /\ open' = InPackages /\ manifestState' = "BundleManifestStarted"
          /\ UNCHANGED <<helper, batch, parts>>
        BY <1>6, <2>1 DEF Close, Idle, InPackages
    <3>2. ManifestInv(helper, manifest', "BundleManifestStarted", InPackages)
        BY <2>1, <3>1, ManifestStarts
    <3>3. CloseInv'
        BY <3>1, <3>2 DEF CloseInv, ArchiveInv
    <3>4. StateTypes' /\ ArchiveInv'
        BY <3>1 DEF StateTypes, ArchiveInv
    <3> QED
        BY <3>1, <3>3, <3>4
  <2>2. CASE ~(helper.containsApp /\ NeutralAllowed(helper))
      BY <1>6, <2>2, FailInv DEF Close
  <2> QED
      BY <2>1, <2>2
<1>7. CASE ManifestAddPackage
  <2>1. /\ call = "close" /\ manifestState # "BundleManifestEnded"
        /\ Len(manifest.packages) < Len(helper.payload)
        /\ manifest' = [manifest EXCEPT !.packages =
               Append(@, [in |-> open, package |-> helper.payload[Len(manifest.packages) + 1]])]
        /\ manifestState' = "PackagesAdded"
        /\ UNCHANGED <<writerState, helper, call, batch, open, parts>>
      BY <1>7 DEF ManifestAddPackage, WritingManifest, WritePackageElement
  <2>2. ManifestInv(helper, manifest, manifestState, open)
      BY <2>1 DEF CloseInv
  <2>3. ManifestInv(helper, manifest', "PackagesAdded", open)
      BY <2>1, <2>2, ManifestAddsPackage
  <2>4. CloseInv'
      BY <2>1, <2>3 DEF CloseInv
  <2>5. StateTypes' /\ ArchiveInv'
      BY <2>1 DEF StateTypes, ArchiveInv, CloseInv
  <2> QED
      BY <2>1, <2>4, <2>5
<1>8. ASSUME NEW family \in DOMAIN helper.optional, ManifestAddOptionalBundle(family)
      PROVE  BundleInv'
  <2>1. /\ call = "close" /\ manifestState # "BundleManifestEnded"
        /\ Len(manifest.packages) = Len(helper.payload)
        /\ open' = Around(manifestState, open)
        /\ manifest' = [manifest EXCEPT !.bundles =
               Append(@, [in |-> Around(manifestState, open), family |-> family,
                          packages |-> helper.optional[family]])]
        /\ manifestState' = "OptionalBundlesAdded"
        /\ UNCHANGED <<writerState, helper, call, batch, parts>>
      BY <1>8 DEF ManifestAddOptionalBundle, WritingManifest, WriteOptionalBundleElement,
                  EndPackagesElement, Around
  <2>2. ManifestInv(helper, manifest, manifestState, open)
      BY <2>1 DEF CloseInv
  <2>3. ManifestInv(helper, manifest', "OptionalBundlesAdded", Around(manifestState, open))
      BY <2>1, <2>2, ManifestAddsOptional
  <2>4. CloseInv'
      BY <2>1, <2>3 DEF CloseInv
  <2>5. StateTypes' /\ ArchiveInv'
      BY <2>1 DEF StateTypes, ArchiveInv, CloseInv
  <2> QED
      BY <2>1, <2>4, <2>5
<1>9. CASE ManifestEnd
  <2>1. /\ call = "close" /\ manifestState # "BundleManifestEnded"
        /\ Len(manifest.packages) = Len(helper.payload)
        /\ {manifest.bundles[i].family : i \in 1..Len(manifest.bundles)} = DOMAIN helper.optional
        /\ open' = SubSeq(Around(manifestState, open), 1, Len(Around(manifestState, open)) - 1)
        /\ manifestState' = "BundleManifestEnded" /\ manifest' = manifest
      BY <1>9 DEF ManifestEnd, WritingManifest, EndPackagesElement, Around, OptionalWritten
  <2>2. CASE open' = <<>>
    <3>1. UNCHANGED <<writerState, helper, call, batch, parts>>
        BY <1>9, <2>2 DEF ManifestEnd
    <3>2. ManifestInv(helper, manifest, manifestState, open)
        BY <2>1 DEF CloseInv
    <3>3. ManifestInv(helper, manifest, "BundleManifestEnded", open')
        BY <2>1, <2>2, <3>2, ManifestEnds
    <3>4. CloseInv'
        BY <2>1, <3>1, <3>3 DEF CloseInv
    <3>5. StateTypes' /\ ArchiveInv'
        BY <2>1, <3>1 DEF StateTypes, ArchiveInv, CloseInv
    <3> QED
        BY <3>1, <3>4, <3>5
  <2>3. CASE open' # <<>>
      BY <1>9, <2>3, FailInv DEF ManifestEnd
  <2> QED
      BY <2>2, <2>3
<1>10. CASE AddPart
  <2>1. CloseInv'
      BY <1>10 DEF AddPart, CloseInv
  <2>2. StateTypes' /\ ArchiveInv' /\ helper' = helper
      BY <1>10 DEF AddPart, StateTypes, ArchiveInv, CloseInv
  <2> QED
      BY <2>1, <2>2
<1>11. CASE CloseFails
    BY <1>11, FailInv DEF CloseFails
<1>12. CASE CloseEnd
  <2>1. parts # <<>>
      BY <1>12 DEF CloseEnd, Part
  <2>2. ManifestInv(helper, manifest, manifestState, open)
      BY <1>12 DEF CloseEnd, CloseInv
  <2>3. Compatible(manifest)
      BY <2>2, ManifestCompatible DEF ManifestInv
  <2>4. StateTypes' /\ CloseInv' /\ ArchiveInv' /\ helper' = helper
      BY <1>12, <2>3 DEF CloseEnd, StateTypes, CloseInv, ArchiveInv
  <2> QED
      BY <2>4
<1>13. CASE UNCHANGED bundleVars
    BY <1>13 DEF bundleVars, StateTypes, CloseInv, ArchiveInv
<1> QED
    BY <1>1, <1>2, <1>3, <1>4, <1>5, <1>6, <1>7, <1>8, <1>9, <1>10, <1>11, <1>12, <1>13
    DEF BundleNext

\* BundleInv holds of every state of the bundle writer.
THEOREM BundleInvariant == BundleSpec => []BundleInv
<1>1. BundleInit => BundleInv
    BY InitInv
<1>2. BundleInv /\ [BundleNext]_bundleVars => BundleInv'
    BY StepInv
<1> QED
    BY <1>1, <1>2, PTL DEF BundleSpec

(***************************************************************************)
(* The writer's variables keep their types, and its counters their order:  *)
(* no more packages than the limit, refused ones included, for every limit *)
(* (BundleValidationHelper::AddPackage).                                   *)
(***************************************************************************)
THEOREM BundleTypes == BundleSpec => []BundleTypeOK
<1>1. BundleInv => BundleTypeOK
  <2> SUFFICES ASSUME BundleInv PROVE BundleTypeOK
      OBVIOUS
  <2>1. helper.added \in Nat /\ helper.neutral \in Nat /\ helper.payload \in Seq(Package)
        /\ helper.added <= MaxNumberOfPackages /\ helper.neutral <= helper.added
        /\ Len(helper.payload) <= helper.added /\ MaxNumberOfPackages \in Nat
      BY BundleAssumption DEF BundleInv, HelperInv, Helper, Counts
  <2>2. \A i \in 1..Len(helper.payload) : helper.payload[i] \in Package
      BY <2>1, ElementOfSeq
  <2>3. helper.added \in 0..MaxNumberOfPackages /\ helper.neutral \in 0..helper.added
      BY <2>1
  <2> QED
      BY <2>1, <2>2, <2>3 DEF BundleInv, StateTypes, BundleTypeOK
<1> QED
    BY <1>1, BundleInvariant, PTL

(***************************************************************************)
(* A bundle that was closed holds compatible packages, whatever was added, *)
(* refused or failed before, and whatever is added after                   *)
(* (BundleWriterHelper, BundleValidationHelper).                           *)
(***************************************************************************)
THEOREM BundleCompatible == BundleSpec => []BundleValid
<1>1. BundleInv => BundleValid
  <2> SUFFICES ASSUME BundleInv, writerState = "Closed" PROVE BundleValid
      BY DEF BundleValid
  <2>1. Compatible(manifest)
      BY DEF BundleInv, ArchiveInv
  <2>2. ListedPackages = InPackagesOf(manifest) /\ ListedOptional = InBundlesOf(manifest)
      BY DEF ListedPackages, ListedOptional, InPackagesOf, InBundlesOf
  <2> QED
      BY <2>1, <2>2 DEF Compatible, BundleValid
<1> QED
    BY <1>1, BundleInvariant, PTL

(***************************************************************************)
(* The manifest that Close writes into the archive lists every package     *)
(* that was accepted, in order and in its place                            *)
(* (BundleManifestWriter, AppxBundleWriter::Close).                        *)
(***************************************************************************)
THEOREM BundleManifest == BundleSpec => []ManifestShape
<1>1. BundleInv => ManifestShape
  <2> SUFFICES ASSUME BundleInv, parts # <<>>, call = "close" PROVE ManifestShape
      BY DEF ManifestShape
  <2>1. /\ manifestState = "BundleManifestEnded" /\ manifest \in Manifest
        /\ Lists(helper, manifest) /\ Progress(helper, manifest, manifestState, open)
      BY DEF BundleInv, CloseInv, ManifestInv
  <2>2. /\ Len(manifest.packages) = Len(helper.payload) /\ BesidePackages(manifest)
        /\ OptionalWritten = DOMAIN helper.optional
      BY <2>1 DEF Progress, AllPackages, OptionalWritten
  <2>3. manifest.packages \in Seq(PackageElement) /\ Len(manifest.packages) \in Nat
      BY <2>1, LenProperties DEF Manifest
  <2>4. \A i \in 1..Len(manifest.packages) :
            manifest.packages[i] = [in |-> InPackages, package |-> helper.payload[i]]
    <3> SUFFICES ASSUME NEW i \in 1..Len(manifest.packages)
                 PROVE  manifest.packages[i] = [in |-> InPackages, package |-> helper.payload[i]]
        OBVIOUS
    <3>1. manifest.packages[i] \in PackageElement
        BY <2>3, ElementOfSeq
    <3>2. manifest.packages[i].in = InPackages /\ manifest.packages[i].package = helper.payload[i]
        BY <2>1 DEF Lists
    <3> QED
        BY <3>1, <3>2 DEF PackageElement
  <2>5. manifest.packages = [i \in 1..Len(manifest.packages) |-> manifest.packages[i]]
      BY <2>3
  <2>6. manifest.packages = [i \in 1..Len(helper.payload) |->
               [in |-> <<"Bundle", "Packages">>, package |-> helper.payload[i]]]
      BY <2>2, <2>4, <2>5 DEF InPackages
  <2>7. \A i \in 1..Len(manifest.bundles) :
              /\ manifest.bundles[i].in = <<"Bundle">>
              /\ manifest.bundles[i].packages = helper.optional[manifest.bundles[i].family]
      BY <2>1, <2>2 DEF BesidePackages, Lists, InBundle
  <2> QED
      BY <2>2, <2>6, <2>7 DEF ManifestShape
<1> QED
    BY <1>1, BundleInvariant, PTL
=============================================================================
