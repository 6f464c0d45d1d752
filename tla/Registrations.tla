--------------------------- MODULE Registrations ----------------------------
(***************************************************************************)
(* What MsixCore's handlers write into the machine's registry (and start   *)
(* menu, task scheduler and firewall) for a package.  An entry is a key    *)
(* with the package whose values it holds.  A handler writes its keys one  *)
(* after the other and may fail between two of them or in the middle of    *)
(* one: the entry is then not whole.                                       *)
(***************************************************************************)
EXTENDS PackageNames, Sequences

CONSTANTS Keys,       \* names of registry keys, links, tasks and rules
          RegKeys,    \* RegKeys[h][p]: the keys handler h writes for p, in order
          ProgId,     \* ProgId[p]: the ProgID key of p's file type association
          HiveKeys,   \* HiveKeys[p]: the keys in p's registry.dat, in order, without
                      \* the ones IsExcludeKey leaves out
          MayNotCreate,  \* those of them that Windows may refuse to create
          Tokenised,  \* those with a token ([{...}]) in a name of theirs
          NoOwner     \* nobody has the key

VARIABLE reg          \* reg[k]: who wrote key k, and whether to the end

(***************************************************************************)
(* The handlers of the add and remove sequences that only write and delete *)
(* such keys.                                                              *)
(***************************************************************************)
Registrars == {"StartMenuLink", "AddRemovePrograms", "Protocol", "ComInterface",
               "ComServer", "StartupTask", "FileTypeAssociation", "FirewallRules",
               "AutoPlay", "AppExecutionAlias"}

(***************************************************************************)
(* Protocol and AppExecutionAlias delete a key only when the executable it *)
(* names is the package's.                                                 *)
(***************************************************************************)
OwnerChecked == {"Protocol", "AppExecutionAlias"}

(***************************************************************************)
(* These stop at the first key that cannot be deleted.                     *)
(***************************************************************************)
StopAtMissing == {"StartupTask", "FirewallRules"}

ASSUME RegAssumption ==
    /\ RegKeys \in [Registrars -> [Packages -> Seq(Keys)]]
    /\ ProgId \in [Packages -> Keys]
    /\ HiveKeys \in [Packages -> Seq(Keys)]
    /\ NoOwner \notin Packages

Entry == [owner : Packages \cup {NoOwner}, whole : BOOLEAN]
NoEntry == [owner |-> NoOwner, whole |-> FALSE]

RegTypeOK == reg \in [Keys -> Entry]

RegInit == reg = [k \in Keys |-> NoEntry]

KeysOf(s) == {s[i] : i \in DOMAIN s}

(***************************************************************************)
(* RegistryDevirtualizer::HasFTA: the registry.dat has the key.            *)
(***************************************************************************)
HasFTA(p, k) == k \in KeysOf(HiveKeys[p])

(***************************************************************************)
(* The keys handler h goes through for p.  After its extensions            *)
(* FileTypeAssociation comes to the ProgID.                                *)
(***************************************************************************)
HandlerKeys(h, p) ==
    LET ks == RegKeys[h][p]
    IN  IF h = "FileTypeAssociation" /\ ks # <<>> THEN Append(ks, ProgId[p]) ELSE ks

(***************************************************************************)
(* FileTypeAssociation passes over an extension that registry.dat has too, *)
(* and over the ProgID when it passes over every extension.  It finds none *)
(* there when registry.dat is not mounted.                                 *)
(***************************************************************************)
PassesOver(h, p, mounted) ==
    LET all == KeysOf(RegKeys[h][p])
        had == {k \in all : HasFTA(p, k)}
    IN  IF h # "FileTypeAssociation" \/ ~mounted THEN {}
        ELSE IF had = all /\ all # {} THEN had \cup {ProgId[p]} ELSE had

(***************************************************************************)
(* The registry after handler h wrote key k for p, or failed halfway: a    *)
(* new key is left without its last values, and one that p wrote before is *)
(* as it was; of another's key that only its owner may delete, the values  *)
(* that name the executable are still the other's.                         *)
(***************************************************************************)
Written(p, k) == [reg EXCEPT ![k] = [owner |-> p, whole |-> TRUE]]

Torn(h, p, k) ==
    IF reg[k].owner = p \/ (h \in OwnerChecked /\ reg[k].owner # NoOwner)
      THEN reg
      ELSE [reg EXCEPT ![k] = [owner |-> p, whole |-> FALSE]]

(***************************************************************************)
(* CopyAndDevirtualizeRegistryTree writes a key of registry.dat, or passes *)
(* over it when it cannot be created (under a volatile key, or for any     *)
(* other reason).                                                          *)
(***************************************************************************)
DevirtualizeKey(p, k) ==
    \/ reg' = Written(p, k)
    \/ k \in MayNotCreate /\ UNCHANGED reg

(***************************************************************************)
(* The registry after handler h deleted p's keys ks.                       *)
(***************************************************************************)
Deletable(h, p, ks) ==
    CASE h \in OwnerChecked ->
             {k \in KeysOf(ks) : reg[k] = [owner |-> p, whole |-> TRUE]}
      [] h \in StopAtMissing ->
             {ks[i] : i \in {j \in DOMAIN ks :
                               \A m \in 1..j : reg[ks[m]] # NoEntry}}
      [] OTHER -> KeysOf(ks)

Deleted(S) == [k \in Keys |-> IF k \in S THEN NoEntry ELSE reg[k]]

(***************************************************************************)
(* AppExecutionAlias opens the key it may delete with CreateSubKey: an     *)
(* alias that is not there is left behind as an empty key.                 *)
(***************************************************************************)
Unregistered(h, p, ks, S) ==
    [k \in Keys |-> IF h = "AppExecutionAlias" /\ k \in KeysOf(ks) /\ reg[k] = NoEntry
                      THEN [owner |-> p, whole |-> FALSE]
                      ELSE Deleted(S)[k]]

(***************************************************************************)
(* RemoveDevirtualizeRegistryTree deletes what registry.dat lists, whoever *)
(* wrote it, and goes on past a key or a value that is not there.  The     *)
(* names in registry.dat are looked for as they are, whereas               *)
(* CopyAndDevirtualizeRegistryTree wrote them without their tokens; and a  *)
(* key stays that has more in it than registry.dat, as an extension has    *)
(* that FileTypeAssociation wrote too.                                     *)
(***************************************************************************)
HiveDeletable(p) == KeysOf(HiveKeys[p]) \ Tokenised

SurelyDeleted(p) == HiveDeletable(p) \ PassesOver("FileTypeAssociation", p, TRUE)

=============================================================================
