--------------------------- MODULE InstallUIProofs ---------------------------
(***************************************************************************)
(* The safety properties of InstallUI, for every number of looks at the    *)
(* cancel flag and whether or not the package opens.                       *)
(***************************************************************************)
EXTENDS InstallUI, TLAPS

\* The messages a request sends, with what its thread does next.
Message ==
    \/ worker.status = "started" /\ worker.next = "check"
    \/ worker.status = "extraction" /\ worker.next = "work"
    \/ worker.status = "completed" /\ worker.next = "delete" /\ pkg = "whole"
    \/ worker.status = "error" /\ worker.next \in {"delete", "rollback"}

\* The request is between its start and the message that says it is over.
Installs == worker.pc \in {"start", "check", "work", "late", "calling"}

(***************************************************************************)
(* Until the window's thread has read the response, the request cannot be  *)
(* past its first callback; while it installs, the flag is set and the     *)
(* window is open; once it is over the flag is reset, but after a cancel   *)
(* that came too late.                                                     *)
(***************************************************************************)
UIInv ==
    /\ UITypeOK
    /\ ~fault
    /\ worker.pc = "calling" => Message
    /\ ui \in {"opening", "crashed"} => worker.pc = "none"
    /\ ui = "reading" => \/ worker.pc = "start"
                         \/ worker.pc = "calling" /\ worker.status = "started"
    /\ ~response => worker.pc = "none" \/ ui = "reading"
    /\ response => worker.pc # "none"
    /\ button \in {"install", "reinstall"} =>
           worker.pc = "none" /\ ui \in {"loop", "exited"} /\ ~response /\ ~installing
    /\ ui = "opening" => installing
    /\ button = "launch" => worker.pc \in {"delete", "deleted"} /\ pkg = "whole"
    /\ launched # "no" => ui = "exited"
    /\ launched = "added" => pkg = "whole"
    /\ launched = "found" => worker.pc = "none"
    /\ Installs => installing /\ ui # "exited"
    /\ worker.pc = "rollback" => ~installing
    /\ worker.pc \in {"delete", "deleted"} /\ installing =>
           worker.cancelled /\ pkg = "whole"

-----------------------------------------------------------------------------
LEMMA UIInvInit == UIInit => UIInv
<1> SUFFICES ASSUME UIInit
             PROVE  UIInv
    OBVIOUS
<1>1. UITypeOK
  <2>1. Polls \in 0..Polls
      BY UIAssumption
  <2> QED
      BY <2>1 DEF UIInit, UITypeOK, WorkerPc
<1>2. worker.pc = "none"
    BY DEF UIInit
<1> QED
    BY <1>1, <1>2 DEF UIInit, UIInv, Installs

(***************************************************************************)
(* Every step of the window's thread and of the request's thread keeps the *)
(* invariant.                                                              *)
(***************************************************************************)
LEMMA UIInvNext == UIInv /\ [UINext]_uiVars => UIInv'
<1> SUFFICES ASSUME UIInv, [UINext]_uiVars
             PROVE  UIInv'
    OBVIOUS
<1> USE UIAssumption DEF UIInv, UITypeOK, WorkerPc, Installs, Message
<1>1. CASE ClickInstall
    BY <1>1 DEF ClickInstall
<1>2. CASE ClickCancel
    BY <1>2 DEF ClickCancel
<1>3. CASE ConfirmAppCancel
  <2>1. UITypeOK'
      BY <1>3 DEF ConfirmAppCancel
  <2> QED
      BY <1>3, <2>1 DEF ConfirmAppCancel
<1>4. CASE Close
  <2>1. CASE installing
      BY <1>4, <2>1 DEF Close
  <2>2. CASE ~installing
      BY <1>4, <2>2 DEF Close
  <2> QED
      BY <2>1, <2>2
<1>5. CASE ClickLaunch
  <2>1. UITypeOK'
      BY <1>5 DEF ClickLaunch
  <2> QED
      BY <1>5, <2>1 DEF ClickLaunch
<1>6. CASE AddPackageAsync
  <2>1. CASE worker' = [worker EXCEPT !.pc = "start"] /\ ui' = "reading"
      BY <1>6, <2>1 DEF AddPackageAsync
  <2>2. CASE UNCHANGED worker /\ ui' = "loop"
      BY <1>6, <2>2 DEF AddPackageAsync
  <2> QED
      BY <1>6, <2>1, <2>2 DEF AddPackageAsync
<1>7. CASE ReadResponse
    BY <1>7 DEF ReadResponse
<1>8. CASE Callback
  <2> USE DEF Callback, HandlesMessages
  <2>1. CASE worker.status = "completed"
      BY <1>8, <2>1 DEF InstallCompleteMsg
  <2>2. CASE worker.status = "error"
      BY <1>8, <2>2
  <2>3. CASE worker.status \notin {"completed", "error"}
      BY <1>8, <2>3
  <2> QED
      BY <2>1, <2>2, <2>3
<1>9. CASE Worker
  <2> USE DEF Runs, Calls
  <2> UNCHANGED <<ui, button, installing, response, fault, launched>>
      BY <1>9 DEF Worker
  <2>1. CASE Started
      BY <2>1 DEF Started
  <2>2. CASE Check
    <3>1. CASE worker' = [worker EXCEPT !.pc = "work"]
      <4>1. worker'.pc = "work" /\ worker'.cancelled = worker.cancelled
          BY <3>1
      <4>2. UITypeOK'
          BY <2>2, <3>1 DEF Check
      <4> QED
          BY <2>2, <4>1, <4>2 DEF Check
    <3>2. CASE Calls("error", "delete")
      <4>1. worker'.pc = "calling" /\ worker'.next = "delete" /\ worker'.status = "error"
          BY <3>2
      <4>2. UITypeOK'
          BY <2>2, <3>2 DEF Check
      <4> QED
          BY <2>2, <4>1, <4>2 DEF Check
    <3> QED
        BY <2>2, <3>1, <3>2 DEF Check
  <2>3. CASE Work
    <3>1. /\ UNCHANGED <<ui, button, installing, response, fault, launched>>
          /\ pkg' = "partial" /\ worker.pc = "work" /\ ui \notin {"exited", "crashed"}
        BY <2>3 DEF Work
    <3>2. CASE Calls("error", "rollback")
      <4>1. worker'.pc = "calling" /\ worker'.next = "rollback" /\ worker'.status = "error"
          BY <3>2
      <4>2. UITypeOK'
          BY <3>1, <3>2
      <4> QED
          BY <3>1, <4>1, <4>2
    <3>3. CASE /\ worker.polls > 1
               /\ worker' = [worker EXCEPT !.pc = "calling", !.next = "work",
                                           !.polls = @ - 1, !.status = "extraction"]
      <4>1. worker.polls - 1 \in 0..Polls
          BY <3>3
      <4>2. UITypeOK'
          BY <3>1, <3>3, <4>1
      <4>3. worker'.pc = "calling" /\ worker'.next = "work" /\ worker'.status = "extraction"
          BY <3>3
      <4> QED
          BY <3>1, <4>2, <4>3
    <3>4. CASE worker' = [worker EXCEPT !.pc = "late", !.polls = 0]
      <4>1. 0 \in 0..Polls
          OBVIOUS
      <4>2. UITypeOK'
          BY <3>1, <3>4, <4>1
      <4>3. worker'.pc = "late"
          BY <3>4
      <4> QED
          BY <3>1, <4>2, <4>3
    <3> QED
        BY <2>3, <3>2, <3>3, <3>4 DEF Work
  <2>4. CASE Complete
    <3>1. /\ UNCHANGED <<ui, button, installing, response, fault, launched>>
          /\ worker.pc = "late" /\ ui \notin {"exited", "crashed"}
        BY <2>4 DEF Complete
    <3>2. CASE /\ pkg' = "whole" /\ worker.cancelled
               /\ worker' = [worker EXCEPT !.pc = "delete"]
      <4>1. UITypeOK'
          BY <3>1, <3>2
      <4>2. worker'.pc = "delete" /\ worker'.cancelled
          BY <3>2
      <4> QED
          BY <3>1, <3>2, <4>1, <4>2
    <3>3. CASE pkg' = "whole" /\ Calls("completed", "delete")
      <4>1. UITypeOK'
          BY <3>1, <3>3
      <4>2. worker'.pc = "calling" /\ worker'.next = "delete" /\ worker'.status = "completed"
          BY <3>3
      <4> QED
          BY <3>1, <3>3, <4>1, <4>2
    <3>4. CASE UNCHANGED pkg /\ Calls("error", "rollback")
      <4>1. UITypeOK'
          BY <3>1, <3>4
      <4>2. worker'.pc = "calling" /\ worker'.next = "rollback" /\ worker'.status = "error"
          BY <3>4
      <4> QED
          BY <3>1, <3>4, <4>1, <4>2
    <3> QED
        BY <2>4, <3>2, <3>3, <3>4 DEF Complete
  <2>5. CASE Rollback
      BY <2>5 DEF Rollback
  <2>6. CASE Delete
      BY <2>6 DEF Delete
  <2> QED
      BY <1>9, <2>1, <2>2, <2>3, <2>4, <2>5, <2>6 DEF Worker
<1>10. CASE UNCHANGED uiVars
    BY <1>10 DEF uiVars
<1> QED
    BY <1>1, <1>2, <1>3, <1>4, <1>5, <1>6, <1>7, <1>8, <1>9, <1>10 DEF UINext, User

LEMMA UIInvariant == UISpec => []UIInv
  BY UIInvInit, UIInvNext, PTL DEF UISpec

-----------------------------------------------------------------------------
(***************************************************************************)
(* Every variable of the window and of its request keeps its type.         *)
(***************************************************************************)
THEOREM UITypes == UISpec => []UITypeOK
<1>1. UIInv => UITypeOK
    BY DEF UIInv
<1> QED
    BY UIInvariant, <1>1, PTL

(***************************************************************************)
(* AddPackageAsync never reads a request that its thread has deleted, and  *)
(* the window never crashes while a request runs.                          *)
(***************************************************************************)
THEOREM UIRequestAlive == UISpec => []NoUseAfterFree
<1>1. UIInv => NoUseAfterFree
    BY DEF UIInv, NoUseAfterFree
<1> QED
    BY UIInvariant, <1>1, PTL

(***************************************************************************)
(* The process never ends while its request is adding the package.         *)
(***************************************************************************)
THEOREM UICloseSafe == UISpec => []CloseSparesAdd
<1>1. UIInv => CloseSparesAdd
    BY DEF UIInv, UITypeOK, WorkerPc, Installs, CloseSparesAdd
<1> QED
    BY UIInvariant, <1>1, PTL

(***************************************************************************)
(* An app that was just added is started only when its package is all      *)
(* there, whatever there was of it before; one that was found at the start *)
(* only while no request is at work on it.                                 *)
(***************************************************************************)
THEOREM UILaunch == UISpec => []LaunchOnlyWhole
<1>1. UIInv => LaunchOnlyWhole
    BY DEF UIInv, LaunchOnlyWhole
<1> QED
    BY UIInvariant, <1>1, PTL

(***************************************************************************)
(* g_installing is set only while a package is being opened or added, but  *)
(* for a package that did not open and a cancel that came too late.        *)
(***************************************************************************)
THEOREM UIInstallingFlag == UISpec => []InstallingTrue
<1>1. UIInv => InstallingTrue
    BY DEF UIInv, UITypeOK, WorkerPc, Installs, InstallingTrue
<1> QED
    BY UIInvariant, <1>1, PTL

=============================================================================
