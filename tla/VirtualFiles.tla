---------------------------- MODULE VirtualFiles ----------------------------
(***************************************************************************)
(* MsixCore's VirtualFileHandler: the files of a package's VFS directory   *)
(* are copied to machine wide places and shared between packages (and with *)
(* programs MsixCore knows nothing of) through the reference counts of the *)
(* registry key SharedDLLs.  A count is read, and written back, in two     *)
(* calls: every file is handled in two steps here.                         *)
(*                                                                         *)
(* The content of a file is its version, as the MSI file rules see it:     *)
(* Missing, Unversioned or a number above it.  A count of 0 stands for "no *)
(* value in SharedDLLs".                                                   *)
(***************************************************************************)
EXTENDS PackageNames, Integers, FiniteSets

CONSTANTS Threads,      \* threads (or processes) that run requests
          Files,        \* machine wide paths that VFS directories map to
          Vfs,          \* Vfs[p]: the paths package p brings a file for
          FileVersion,  \* FileVersion[p][f]: the version p brings
          Foreign,      \* paths other programs have put a file at
          NoFile        \* no path is being handled

Missing == 0
Unversioned == 1

ASSUME VfsAssumption ==
    /\ Vfs \in [Packages -> SUBSET Files]
    /\ FileVersion \in [Packages -> [Files -> Nat \ {Missing}]]
    /\ Foreign \subseteq Files
    /\ NoFile \notin Files
    /\ IsFiniteSet(Packages)

VARIABLES target,   \* target[f]: the version of the file at path f
          shared,   \* shared[f]: its count in SharedDLLs
          vfs       \* vfs[t]: the handler's loop in thread t

vfsVars == <<target, shared, vfs>>

(***************************************************************************)
(* The handler in one thread: whether it is running (CreateHandler has     *)
(* opened SharedDLLs), the paths still to do, the one being done, and what *)
(* was read about it.                                                      *)
(***************************************************************************)
VfsClosed ==
    [open |-> FALSE, left |-> {}, file |-> NoFile, exists |-> FALSE, count |-> 0]

VfsOpened(left) == [VfsClosed EXCEPT !.open = TRUE, !.left = left]

VfsTypeOK ==
    /\ target \in [Files -> Nat]
    /\ shared \in [Files -> Nat]
    /\ vfs \in [Threads -> [open : BOOLEAN, left : SUBSET Files,
                            file : Files \cup {NoFile},
                            exists : BOOLEAN, count : Nat]]

VfsInit ==
    /\ target = [f \in Files |-> IF f \in Foreign THEN Unversioned ELSE Missing]
    /\ shared = [f \in Files |-> 0]
    /\ vfs = [t \in Threads |-> VfsClosed]

OpenVfs(t, files) ==
    /\ ~vfs[t].open
    /\ vfs' = [vfs EXCEPT ![t] = VfsOpened(files)]
    /\ UNCHANGED <<target, shared>>

VfsDone(t) == vfs[t].open /\ vfs[t].left = {} /\ vfs[t].file = NoFile

CloseVfs(t) == vfs' = [vfs EXCEPT ![t] = VfsClosed]

(***************************************************************************)
(* NeedToCopyFile and RemoveVfsFile read whether the file is there and its *)
(* count.                                                                  *)
(***************************************************************************)
ReadShared(t) ==
    /\ vfs[t].file = NoFile
    /\ \E f \in vfs[t].left :
          vfs' = [vfs EXCEPT ![t].left = @ \ {f},
                             ![t].file = f,
                             ![t].exists = target[f] # Missing,
                             ![t].count = shared[f]]
    /\ UNCHANGED <<target, shared>>

\* Mutant: a file that is there is always replaced.
MutOverwrites(source, present, modified) == present # Missing

(***************************************************************************)
(* The MSI rules for a file that is there already: a versioned file        *)
(* replaces an unversioned one, an unversioned one nobody modified is      *)
(* replaced, and otherwise the higher version stays.                       *)
(***************************************************************************)
Overwrites(source, present, modified) ==
    \/ present = Unversioned /\ source # Unversioned
    \/ present = Unversioned /\ ~modified
    \/ present < source

\* Mutant: a file without a value counts as no reference.
MutAddReference(count) == count + 1

(***************************************************************************)
(* The count an added reference leaves: a file that is there without a     *)
(* value counts as one reference.                                          *)
(***************************************************************************)
AddReference(count) == IF count > 0 THEN count + 1 ELSE 2

\* Mutant: a reinstall counts again.
MutCounted(t, reinstall) ==
    IF vfs[t].exists
      THEN [shared EXCEPT ![vfs[t].file] = AddReference(vfs[t].count)]
      ELSE shared

Counted(t, reinstall) ==
    IF vfs[t].exists /\ ~reinstall
      THEN [shared EXCEPT ![vfs[t].file] = AddReference(vfs[t].count)]
      ELSE shared

(***************************************************************************)
(* CopyVfsFileIfNecessary, after the reads: a file that was there gets a   *)
(* reference, unless the package is being reinstalled, and is overwritten  *)
(* or left as the rules say.  A copy that fails is only logged.            *)
(***************************************************************************)
CopyVfsFile(t, p, reinstall, copies) ==
    LET f == vfs[t].file
    IN  /\ f # NoFile
        /\ vfs[t].exists => target[f] # Missing
        /\ shared' = Counted(t, reinstall)
        /\ \E modified \in BOOLEAN :
              target' = IF /\ copies
                           /\ \/ ~vfs[t].exists
                              \/ Overwrites(FileVersion[p][f], target[f], modified)
                          THEN [target EXCEPT ![f] = FileVersion[p][f]]
                          ELSE target
        /\ vfs' = [vfs EXCEPT ![t] = VfsOpened(vfs[t].left)]

(***************************************************************************)
(* The handler fails at a file: its count could not be read or written, or *)
(* it was written and the file's version could not be read (the file was   *)
(* there when it was looked for and is gone).                              *)
(***************************************************************************)
Vanished(t) ==
    vfs[t].file # NoFile /\ vfs[t].exists /\ target[vfs[t].file] = Missing

FailVfsFile(t, reinstall) ==
    /\ vfs[t].file # NoFile
    /\ shared' = Counted(t, reinstall) \/ (~Vanished(t) /\ UNCHANGED shared)
    /\ CloseVfs(t)
    /\ UNCHANGED target

\* Mutant: a missing value is counted down too.
MutRemoveVfsFile(t, deletes) ==
    LET f == vfs[t].file
    IN  /\ f # NoFile
        /\ shared' = [shared EXCEPT ![f] = vfs[t].count - 1]
        /\ target' = IF vfs[t].count <= 1 /\ deletes THEN [target EXCEPT ![f] = Missing]
                                                    ELSE target
        /\ vfs' = [vfs EXCEPT ![t] = VfsOpened(vfs[t].left)]

(***************************************************************************)
(* RemoveVfsFile, after the reads: one reference of several is taken back, *)
(* the last one takes the value and the file with it.  A failure is only   *)
(* logged: a count that cannot be read or written stays, and the file with *)
(* it, and a file that cannot be deleted stays without its count.          *)
(***************************************************************************)
RemoveVfsFile(t, deletes) ==
    LET f == vfs[t].file
        last == vfs[t].count <= 1
    IN  /\ f # NoFile
        /\ \/ shared' = [shared EXCEPT ![f] = IF last THEN 0 ELSE vfs[t].count - 1]
           \/ ~deletes /\ UNCHANGED shared
        /\ target' = IF last /\ deletes THEN [target EXCEPT ![f] = Missing] ELSE target
        /\ vfs' = [vfs EXCEPT ![t] = VfsOpened(vfs[t].left)]

=============================================================================
