----------------------------- MODULE InstallUI ------------------------------
(***************************************************************************)
(* MsixCore's installer window and the request it runs on another thread.  *)
(* The window's thread handles the user's clicks and the messages that the *)
(* request's callback sends it; the callback waits until they are handled. *)
(* MessageBox (the "stop the installation?" popup) handles messages too.   *)
(* The request is the one of Deployment, with what the window can see of   *)
(* it: it checks, works and looks at the cancel flag now and then, no      *)
(* longer looks at it, completes, or fails and rolls back; then its thread *)
(* deletes it.                                                             *)
(***************************************************************************)
EXTENDS Integers

CONSTANTS Polls,        \* bound: how often the request looks at the cancel flag
          MayNotOpen    \* whether the package file may fail to open

ASSUME UIAssumption == Polls \in Nat \ {0} /\ MayNotOpen \in BOOLEAN

VARIABLES ui,          \* what the window's thread is doing
          button,      \* the button that is shown (Launch is shown beside Reinstall)
          installing,  \* g_installing
          response,    \* whether m_msixResponse is set
          fault,       \* the request was read after it was deleted
          launched,    \* whether the app was started, as found or as added
          worker,      \* the request and its thread
          pkg          \* the package on the machine

uiVars == <<ui, button, installing, response, fault, launched, worker, pkg>>

WorkerPc == {"none", "start", "check", "work", "late", "calling", "rollback",
             "delete", "deleted"}

UITypeOK ==
    /\ ui \in {"loop", "opening", "reading", "popup", "exited", "crashed"}
    /\ button \in {"install", "reinstall", "cancel", "launch", "none"}
    /\ installing \in BOOLEAN
    /\ response \in BOOLEAN
    /\ fault \in BOOLEAN
    /\ launched \in {"no", "found", "added"}
    /\ worker \in [pc : WorkerPc, next : WorkerPc, polls : 0..Polls, cancelled : BOOLEAN,
                   status : {"unknown", "started", "extraction", "completed", "error"}]
    /\ pkg \in {"absent", "partial", "whole"}

\* PreprocessRequest offers Reinstall and Launch when it finds the manifest of
\* the same package, however much of the package there is.
UIInit ==
    /\ ui = "loop"
    /\ pkg \in {"absent", "partial", "whole"}
    /\ button \in (IF pkg = "absent" THEN {"install"} ELSE {"install", "reinstall"})
    /\ installing = FALSE
    /\ response = FALSE
    /\ fault = FALSE
    /\ launched = "no"
    /\ worker = [pc |-> "none", next |-> "none", polls |-> Polls, cancelled |-> FALSE,
                 status |-> "unknown"]

-----------------------------------------------------------------------------
(***************************************************************************)
(* The window's thread.                                                    *)
(***************************************************************************)
ClickInstall ==
    /\ ui = "loop" /\ button \in {"install", "reinstall"}
    /\ ui' = "opening"
    /\ button' = "cancel"
    /\ installing' = TRUE
    /\ UNCHANGED <<response, fault, launched, worker, pkg>>

\* AddPackageAsync opens the package and starts the request's thread ...
AddPackageAsync ==
    /\ ui = "opening"
    /\ \/ ui' = "reading" /\ worker' = [worker EXCEPT !.pc = "start"]
       \/ MayNotOpen /\ ui' = "loop" /\ UNCHANGED worker
    /\ UNCHANGED <<button, installing, response, fault, launched, pkg>>

\* ... and then reads the response out of the request.
ReadResponse ==
    /\ ui = "reading"
    /\ ui' = "loop"
    /\ response' = TRUE
    /\ fault' = (worker.pc = "deleted")
    /\ UNCHANGED <<button, installing, launched, worker, pkg>>

ClickCancel ==
    /\ ui = "loop" /\ button = "cancel"
    /\ ui' = "popup"
    /\ UNCHANGED <<button, installing, response, fault, launched, worker, pkg>>

\* The answer is no, or yes; without a response the process then crashes.
ConfirmAppCancel ==
    /\ ui = "popup"
    /\ \/ ui' = "loop" /\ UNCHANGED worker
       \/ /\ response
          /\ ui' = "loop"
          /\ worker' = [worker EXCEPT !.cancelled = TRUE]
       \/ ~response /\ ui' = "crashed" /\ UNCHANGED worker
    /\ UNCHANGED <<button, installing, response, fault, launched, pkg>>

\* Mutant: the flag is not looked at.
MutClose ==
    /\ ui = "loop"
    /\ ui' = "exited"
    /\ UNCHANGED <<button, installing, response, fault, launched, worker, pkg>>

\* WM_CLOSE: destroying the window ends the process.
Close ==
    /\ ui = "loop"
    /\ ui' = IF installing THEN "popup" ELSE "exited"
    /\ UNCHANGED <<button, installing, response, fault, launched, worker, pkg>>

ClickLaunch ==
    /\ ui = "loop" /\ button \in {"launch", "reinstall"}
    /\ launched' = IF button = "launch" THEN "added" ELSE "found"
    /\ ui' = "exited"
    /\ UNCHANGED <<button, installing, response, fault, worker, pkg>>

-----------------------------------------------------------------------------
(***************************************************************************)
(* The callback's messages are handled, and the request goes on.           *)
(***************************************************************************)

\* Mutant: the callback does not wait for the window's thread.
MutHandlesAlways == ui \in {"loop", "popup", "reading"}

\* Mutant: messages are not handled while the popup is up.
MutHandlesInLoop == ui = "loop"

HandlesMessages == ui \in {"loop", "popup"}

\* WM_INSTALLCOMPLETE_MSG, with the launch box ticked or not.
InstallCompleteMsg ==
    /\ installing' = FALSE
    /\ \/ launched' = "added" /\ ui' = "exited" /\ UNCHANGED button
       \/ button' = "launch" /\ UNCHANGED <<launched, ui>>

\* Mutant: the flag stays after an error.
MutCallback ==
    /\ worker.pc = "calling"
    /\ HandlesMessages
    /\ worker' = [worker EXCEPT !.pc = worker.next, !.next = "none"]
    /\ CASE worker.status = "completed" -> InstallCompleteMsg
         [] worker.status = "error" -> button' = "none" /\ UNCHANGED <<installing, launched, ui>>
         [] OTHER -> UNCHANGED <<installing, button, launched, ui>>
    /\ UNCHANGED <<response, fault, pkg>>

Callback ==
    /\ worker.pc = "calling"
    /\ HandlesMessages
    /\ worker' = [worker EXCEPT !.pc = worker.next, !.next = "none"]
    /\ CASE worker.status = "completed" -> InstallCompleteMsg
         [] worker.status = "error" ->
                installing' = FALSE /\ button' = "none" /\ UNCHANGED <<launched, ui>>
         [] OTHER -> UNCHANGED <<installing, button, launched, ui>>
    /\ UNCHANGED <<response, fault, pkg>>

-----------------------------------------------------------------------------
(***************************************************************************)
(* The request's thread.                                                   *)
(***************************************************************************)
Runs(pc) == ui \notin {"exited", "crashed"} /\ worker.pc = pc

\* MsixResponse::Update and SetErrorStatus call back; next is what follows.
Calls(status, next) ==
    worker' = [worker EXCEPT !.pc = "calling", !.next = next, !.status = status]

Started == Runs("start") /\ Calls("started", "check") /\ UNCHANGED pkg

\* The handlers that come before Extractor: a failure ends the request.
Check ==
    /\ Runs("check")
    /\ \/ worker' = [worker EXCEPT !.pc = "work"]
       \/ Calls("error", "delete")
    /\ UNCHANGED pkg

\* Mutant: the work goes on after its last part.
MutWork ==
    /\ Runs("work")
    /\ pkg' = "partial"
    /\ \/ worker.cancelled /\ Calls("error", "rollback")
       \/ /\ ~worker.cancelled
          /\ worker' = [worker EXCEPT !.polls = @ - 1]

\* Then a failure, and a cancel that is noticed, are rolled back.
Work ==
    /\ Runs("work")
    /\ pkg' = "partial"
    /\ \/ worker.cancelled /\ Calls("error", "rollback")
       \/ /\ ~worker.cancelled /\ worker.polls > 1
          /\ worker' = [worker EXCEPT !.pc = "calling", !.next = "work",
                                      !.polls = @ - 1, !.status = "extraction"]
       \/ /\ ~worker.cancelled /\ worker.polls = 1
          /\ worker' = [worker EXCEPT !.pc = "late", !.polls = 0]
       \/ ~worker.cancelled /\ Calls("error", "rollback")

\* Mutant: completion is reported before the last handlers have run.
MutComplete ==
    /\ Runs("late")
    /\ UNCHANGED pkg
    /\ Calls("completed", "rollback")

\* The handlers after the last look at the flag, and InstallComplete.
Complete ==
    /\ Runs("late")
    /\ \/ /\ pkg' = "whole"
          /\ IF worker.cancelled
               THEN worker' = [worker EXCEPT !.pc = "delete"]
               ELSE Calls("completed", "delete")
       \/ UNCHANGED pkg /\ Calls("error", "rollback")

\* ErrorHandler's removal, which may fail or leave files behind.
Rollback ==
    /\ Runs("rollback")
    /\ pkg' \in {"absent", "partial"}
    /\ worker' = [worker EXCEPT !.pc = "delete"]

Delete ==
    /\ Runs("delete")
    /\ worker' = [worker EXCEPT !.pc = "deleted"]
    /\ UNCHANGED pkg

Worker ==
    /\ Started \/ Check \/ Work \/ Complete \/ Rollback \/ Delete
    /\ UNCHANGED <<ui, button, installing, response, fault, launched>>

-----------------------------------------------------------------------------
User == ClickInstall \/ ClickCancel \/ ConfirmAppCancel \/ Close \/ ClickLaunch

UINext == User \/ AddPackageAsync \/ ReadResponse \/ Callback \/ Worker

(***************************************************************************)
(* Both threads are scheduled, and the handlers that the request runs end  *)
(* (Deployment's ScriptsEnd: one waits for a script of the package).  The  *)
(* user need not do anything, not even answer the popup.                   *)
(***************************************************************************)
UISpec ==
    /\ UIInit /\ [][UINext]_uiVars
    /\ WF_uiVars(AddPackageAsync \/ ReadResponse)
    /\ WF_uiVars(Callback)
    /\ WF_uiVars(Worker)

-----------------------------------------------------------------------------
(***************************************************************************)
(* AddPackageAsync reads the response out of the request before the        *)
(* request's thread can have deleted it (the callback for "started" waits  *)
(* for the window's thread).  A window that crashes for want of a response *)
(* leaves no request behind.                                               *)
(***************************************************************************)
NoUseAfterFree == ~fault /\ (ui = "crashed" => worker.pc = "none")

(***************************************************************************)
(* Closing the window, which ends the process, never cuts off a request    *)
(* that is still adding its package (the g_installing test of WM_CLOSE).   *)
(***************************************************************************)
CloseSparesAdd ==
    ui = "exited" => \/ worker.pc \in {"none", "rollback", "delete", "deleted"}
                     \/ worker.pc = "calling" /\ worker.status = "error"

(***************************************************************************)
(* An app that was just added is started only when its package is all      *)
(* there, also when the user cancels at the last moment, the popup is up,  *)
(* or it was half there before.  The Launch button that is shown from the  *)
(* start says no more than that a manifest was found; it starts the app    *)
(* only as long as no request is at work on the package (WndProc and       *)
(* PreprocessRequest).                                                     *)
(***************************************************************************)
LaunchOnlyWhole ==
    /\ launched = "added" => pkg = "whole"
    /\ launched = "found" => worker.pc = "none"

(***************************************************************************)
(* The two threads never wait for each other for good: a request that was  *)
(* started is deleted, or the process ends, even if nobody answers the     *)
(* popup, as long as its handlers end.                                     *)
(***************************************************************************)
RequestEnds == worker.pc = "start" ~> (worker.pc = "deleted" \/ ui = "exited")

(***************************************************************************)
(* g_installing says that an installation is in progress, so that the      *)
(* popup that offers to stop one is not shown for one that is over.  It is *)
(* left set in two cases only: the package did not open, or a cancel came  *)
(* after the last look at the flag and InstallComplete, which then reports *)
(* nothing, leaves the window with a package that is all there.            *)
(***************************************************************************)
InstallingTrue ==
    installing => \/ ui \in {"opening", "reading"}
                  \/ worker.pc \notin {"none", "deleted"}
                  \/ worker.pc = "none" /\ ~response
                  \/ worker.pc = "deleted" /\ worker.cancelled /\ pkg = "whole"

=============================================================================
