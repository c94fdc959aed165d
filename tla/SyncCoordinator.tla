--------------------------- MODULE SyncCoordinator ---------------------------
(***************************************************************************)
(* One account of the TbSync host: src/modules/sync-coordinator.mjs, with  *)
(* the RPC handlers of src/background.mjs that write the same state.       *)
(*                                                                         *)
(* The host is one JavaScript thread.  A coroutine (a call of syncAccount  *)
(* or maintainAccount with the drain that follows it) runs without         *)
(* interruption from one `await` to the next, so an action is one such     *)
(* stretch and pc names what the coroutine awaits: the reply to a command, *)
(* a storage read or write, or a timer.  Everything else may run between   *)
(* two actions of a coroutine, which is where its checks go stale.         *)
(*                                                                         *)
(* A storage read takes effect when the coroutine resumes.  Storage writes *)
(* go through one FIFO chain (accounts.mjs and folders.mjs share it): a    *)
(* write takes effect, and its caller resumes, in the order of the calls.  *)
(*                                                                         *)
(* All transient state is keyed by account and no operation touches two,   *)
(* so one account is modelled: syncing is `syncingAccounts.has(accountId)` *)
(* and so on.  The event log, the broadcasts to the manager and the        *)
(* legacy-import flag (module LegacyMigration of the plan) are left out.   *)
(***************************************************************************)
EXTENDS Naturals, Sequences

CONSTANTS
  Tasks,       \* coroutines of the account that may be alive at once
  Windows,     \* manager windows that connect, disconnect, delete, sign in
  Folders,     \* folder ids the server may list
  Toggled,     \* the folders a user selects and deselects, one at a time
  Replies,     \* how the provider may answer: a subset of AnyReply
  Events,      \* what else may happen: a subset of AnyEvent
  MaxReruns,   \* MAX_ACCOUNT_RERUNS
  MaxFrames    \* bound: requests are deferred only above this nesting

(* What settles a command: a result of type success or warning ("ok"), of  *)
(* type error, ACCOUNT_RERUN; or a rejection, by its code.                 *)
AnyReply == {"ok", "error", "rerun", "auth", "cancelled", "fault"}
Rejections == {"auth", "cancelled", "fault"}

(* The port drops and reopens; the account is locked and unlocked for its  *)
(* setup; a folder list is pushed; maintenance falls due.                  *)
AnyEvent == {"port", "setup", "push", "maintain"}

All == "all"          \* the scope of an account sync; no folder id
Toggler == "toggle"   \* the owner of selectFolder's writes

ASSUME ConstantsAssumption ==
  /\ Toggled \subseteq Folders
  /\ Replies \subseteq AnyReply
  /\ Events \subseteq AnyEvent
  /\ MaxReruns \in Nat
  /\ MaxFrames \in Nat \ {0}
  /\ All \notin Folders
  /\ Tasks \cap Windows = {}
  /\ Toggler \notin Tasks \cup Windows

VARIABLES
  acc,                                \* the account record
  rows, selected, status,             \* its folder rows
  writes,                             \* storage writes not yet done, by owner
  syncing, maintaining, cancelling, settingUp, busyFolders, pendingWork,
  connected,                          \* router: the provider's port is open
  pc, job, frames, reply,             \* the coroutines
  window, toggle                      \* the manager's RPC handlers

folderRows == <<rows, selected, status>>
tasks == <<pc, job, frames, reply>>
vars == <<acc, folderRows, writes, syncing, maintaining, cancelling,
          settingUp, busyFolders, pendingWork, connected, tasks, window,
          toggle>>

Errors == {"none", "auth", "folder", "account"}
Statuses == {"none", "pending", "done", "error", "aborted"}
Outcomes == {"ran", "threw", "failed", "cancelled", "auth"}

(* lastSyncTime is abstracted to how the run that stamped it ended.  A     *)
(* removed account reads as disabled and blank.                            *)
Account == [exists : BOOLEAN, enabled : BOOLEAN, error : Errors,
            lastSync : Outcomes \cup {"never"}]
NoAccount == [exists |-> FALSE, enabled |-> FALSE, error |-> "none",
              lastSync |-> "never"]

NoWork == [full |-> FALSE, folderIds |-> {}]
Work == [full : BOOLEAN, folderIds : SUBSET Folders]

(* A coroutine holds the sync lock in its own eyes at these places: after  *)
(* syncingAccounts.add and before the delete in its finally.               *)
Holding == {"runnable", "backoff", "rerunnable", "SYNC_ACCOUNT",
            "GET_SORTED_FOLDERS", "replace", "list", "folder", "stamp",
            "SYNC_FOLDER", "record", "flag"}
Unwinding == {"residual", "downgrade", "settle", "stampAccount",
              "recompute", "recomputeRows", "writeError"}
Pcs == {"idle", "entry", "maintainEntry", "MAINTAIN", "spinning"}
       \cup Holding \cup Unwinding
SyncCommands == {"SYNC_ACCOUNT", "GET_SORTED_FOLDERS", "SYNC_FOLDER"}
Commands == SyncCommands \cup {"MAINTAIN"}
WritePcs == {"replace", "stamp", "record", "flag", "downgrade",
             "stampAccount", "writeError"}

(* scope: `only`; runs: accountRuns; todo: rows still to do, of toSync or  *)
(* of residual; cur: the folder in syncFolderOnce; next: the account error *)
(* read, then to be written.                                               *)
Job == [scope : Folders \cup {All}, runs : 0..MaxReruns + 1,
        todo : SUBSET Folders, cur : Folders \cup {All},
        outcome : Outcomes, next : Errors]
NewJob(scope) == [scope |-> scope, runs |-> 0, todo |-> {}, cur |-> All,
                  outcome |-> "ran", next |-> "none"]

(* Of a window: the command, write or deletion its handler awaits.         *)
TeardownPcs == {"ACCOUNT_DISABLED", "disable", "clear", "targets",
                "ACCOUNT_DELETED", "clearDeleted", "targetsDeleted", "remove"}
WindowPcs == TeardownPcs \cup
  {"idle", "ACCOUNT_ENABLED", "enable", "REAUTHENTICATE", "reauth",
   "REAUTHENTICATE_OFF", "reauthOff", "ENABLE_AGAIN", "enableAgain"}
WindowWrites == {"disable", "clear", "clearDeleted", "remove",
                 "enable", "reauth", "reauthOff", "enableAgain"}

TogglePcs == {"idle", "command", "select", "recompute", "recomputeRows",
              "writeError"}
ToggleWrites == {"select", "writeError"}
NoToggle == [pc |-> "idle", folder |-> All, on |-> FALSE, next |-> "none"]

TypeOK ==
  /\ acc \in Account
  /\ rows \in SUBSET Folders
  /\ selected \in SUBSET rows
  /\ status \in [Folders -> Statuses]
  /\ writes \in Seq(Tasks \cup Windows \cup {Toggler})
  /\ syncing \in BOOLEAN /\ maintaining \in BOOLEAN
  /\ cancelling \in BOOLEAN /\ settingUp \in BOOLEAN
  /\ busyFolders \in SUBSET Folders
  /\ pendingWork \in Work
  /\ connected \in BOOLEAN
  /\ pc \in [Tasks -> Pcs]
  /\ job \in [Tasks -> Job]
  /\ frames \in [Tasks -> Seq(SUBSET Folders)]
  /\ reply \in [Tasks -> AnyReply \cup {"none"}]
  /\ window \in [Windows -> WindowPcs]
  /\ toggle \in [pc : TogglePcs, folder : Folders \cup {All},
                 on : BOOLEAN, next : Errors]

(* A connected account, at rest, its folders listed and selected.          *)
Init ==
  /\ acc = [exists |-> TRUE, enabled |-> TRUE, error |-> "none",
            lastSync |-> "never"]
  /\ rows = Folders /\ selected = Folders
  /\ status = [f \in Folders |-> "none"]
  /\ writes = <<>>
  /\ syncing = FALSE /\ maintaining = FALSE
  /\ cancelling = FALSE /\ settingUp = FALSE
  /\ busyFolders = {} /\ pendingWork = NoWork
  /\ connected = TRUE
  /\ pc = [t \in Tasks |-> "idle"]
  /\ job = [t \in Tasks |-> NewJob(All)]
  /\ frames = [t \in Tasks |-> <<>>]
  /\ reply = [t \in Tasks |-> "none"]
  /\ window = [w \in Windows |-> "idle"]
  /\ toggle = NoToggle

(***************************************************************************)
(* The write queue: a handler at a write waits for its turn, and leaves    *)
(* the queue when it resumes, perhaps to join it again at once.            *)
(***************************************************************************)
Turn(x) == writes # <<>> /\ Head(writes) = x

Requeue(x, wrote, writesNext) ==
  writes' = (IF wrote THEN Tail(writes) ELSE writes)
            \o (IF writesNext THEN <<x>> ELSE <<>>)

(***************************************************************************)
(* Deferred work: one sync slot per account, joined, never replaced.       *)
(***************************************************************************)
Busy == syncing \/ maintaining
Refused == cancelling \/ settingUp

(* Mutant: the slot is overwritten by the newer request.                   *)
EnqueueReplacing(held, scope) ==
  [full |-> scope = All, folderIds |-> IF scope = All THEN {} ELSE {scope}]

enqueueWork(held, scope) ==
  LET full == held.full \/ scope = All
  IN [full |-> full,
      folderIds |-> IF full THEN {} ELSE held.folderIds \cup {scope}]

(* syncAccount, asked for while a sync or maintenance runs.  Bound: not    *)
(* while some drain is already MaxFrames deep.                             *)
Defer(scope) ==
  /\ Busy
  /\ \A t \in Tasks : Len(frames[t]) < MaxFrames
  /\ pendingWork' = enqueueWork(pendingWork, scope)
  /\ UNCHANGED <<acc, folderRows, writes, syncing, maintaining, cancelling,
                 settingUp, busyFolders, connected, tasks, window, toggle>>

(***************************************************************************)
(* The end of a call.  Calls nest: syncAccount drains, the drain calls     *)
(* syncAccount, and so on.  frames[t] is t's stack of open drains, topmost *)
(* first; a frame is the folder ids its slot still has to run.  An empty   *)
(* frame below another has nothing to do when it is returned to (the one   *)
(* above it ended because no work was left), so only the topmost is kept.  *)
(***************************************************************************)
OpenFrame(stack) ==
  IF stack # <<>> /\ Head(stack) = {} THEN stack ELSE <<{}>> \o stack

CallFrom(t, stack, scope) ==
  /\ pc' = [pc EXCEPT ![t] = "entry"]
  /\ job' = [job EXCEPT ![t] = NewJob(scope)]
  /\ frames' = [frames EXCEPT ![t] = stack]

Rest(t) ==
  /\ pc' = [pc EXCEPT ![t] = "idle"]
  /\ job' = [job EXCEPT ![t] = NewJob(All)]
  /\ frames' = [frames EXCEPT ![t] = <<>>]

(* drainPendingWork.  A refused call returns at once, and the loop goes on *)
(* to drop whatever else is there.  A call that finds the lock taken puts  *)
(* its work back and returns, and the loop takes the same work again: it   *)
(* never awaits anything but settled promises, so the thread never leaves  *)
(* it.  That is pc "spinning".  WORK.MAINTAIN is never enqueued.           *)
DrainFrom(t, open, lock) ==
  LET stack == IF open # <<>> /\ Head(open) = {} /\ pendingWork = NoWork
               THEN Tail(open) ELSE open
  IN \/ stack = <<>> /\ Rest(t) /\ UNCHANGED pendingWork
     \/ /\ stack # <<>> /\ ~lock /\ Refused
        /\ Rest(t)
        /\ pendingWork' = NoWork
     \/ /\ stack # <<>> /\ lock
        /\ pc' = [pc EXCEPT ![t] = "spinning"]
        /\ UNCHANGED <<job, frames, pendingWork>>
     \/ /\ stack # <<>> /\ ~lock /\ ~Refused
        /\ IF Head(stack) # {}
           THEN /\ \E f \in Head(stack) :
                     CallFrom(t, <<Head(stack) \ {f}>> \o Tail(stack), f)
                /\ UNCHANGED pendingWork
           ELSE /\ pendingWork' = NoWork
                /\ IF pendingWork.full
                   THEN CallFrom(t, stack, All)
                   ELSE \E f \in pendingWork.folderIds :
                          CallFrom(t, <<pendingWork.folderIds \ {f}>>
                                      \o Tail(stack), f)

ReturnWithoutDrain(t) == DrainFrom(t, frames[t], Busy)

ReturnAndDrain(t) == DrainFrom(t, OpenFrame(frames[t]), Busy)

(***************************************************************************)
(* Steps shared by the stretches of syncAccount.  Each of its actions says *)
(* what becomes of acc, the rows, syncing, pendingWork and the coroutine;  *)
(* SyncStep adds the write queue and what none of them touches.            *)
(***************************************************************************)
Goto(t, p) == pc' = [pc EXCEPT ![t] = p]
InCall == UNCHANGED <<frames, pendingWork>>

(* sendCmd: without a port the promise is rejected at once.                *)
Post(t, cmd) ==
  /\ Goto(t, cmd)
  /\ reply' = [reply EXCEPT ![t] = IF connected THEN "none" ELSE "fault"]

(* The coroutine takes the reply it awaited.                               *)
Taken(t) == reply' = [reply EXCEPT ![t] = "none"]

(* Mutant: the lock is not released.                                       *)
FinallyKeepingLock(t, outcome) ==
  /\ Goto(t, "residual")
  /\ UNCHANGED syncing
  /\ job' = [job EXCEPT ![t] = [NewJob(@.scope) EXCEPT !.outcome = outcome]]

(* The synchronous head of the finally: the lock goes, and a cancel mark   *)
(* that arrived meanwhile counts (a failed call is stamped regardless).    *)
Finally(t, outcome) ==
  /\ Goto(t, "residual")
  /\ syncing' = FALSE
  /\ job' = [job EXCEPT ![t] = [NewJob(@.scope) EXCEPT !.outcome =
       IF cancelling /\ outcome # "failed" THEN "cancelled" ELSE outcome]]

(* stillRunnable, up to its await.                                         *)
CheckMark(t, todo, p) ==
  IF cancelling THEN Finally(t, "cancelled")
  ELSE /\ Goto(t, p)
       /\ job' = [job EXCEPT ![t].todo = todo, ![t].cur = All]
       /\ UNCHANGED syncing

(* What the catch makes of a rejection.                                    *)
Catch(t, code) ==
  IF code = "auth"
  THEN /\ Goto(t, "flag")
       /\ job' = [job EXCEPT ![t].todo = {}, ![t].cur = All]
       /\ UNCHANGED syncing
  ELSE Finally(t, IF code = "cancelled" THEN "cancelled" ELSE "threw")

(* folders.update: a row that is gone stays gone.                          *)
SetStatus(f, value) ==
  status' = IF f \in rows THEN [status EXCEPT ![f] = value] ELSE status

(***************************************************************************)
(* syncAccount, from its call to the end of the folder loop                *)
(***************************************************************************)
StartSync(t, scope) ==
  /\ pc[t] = "idle" /\ ~Busy /\ ~Refused
  /\ CallFrom(t, <<>>, scope)
  /\ UNCHANGED <<acc, folderRows, writes, syncing, maintaining, cancelling,
                 settingUp, busyFolders, pendingWork, connected, reply,
                 window, toggle>>

(* accounts.get returned: the guards on the record, then the lock.  The    *)
(* guards on the sets were read before the await and are not read again.   *)
Enter(t) ==
  /\ pc[t] = "entry"
  /\ IF ~acc.enabled \/ acc.error = "auth" \/ ~connected
     THEN ReturnWithoutDrain(t) /\ UNCHANGED syncing
     ELSE /\ IF cancelling THEN Finally(t, "cancelled")
             ELSE Goto(t, "runnable") /\ syncing' = TRUE /\ UNCHANGED job
          /\ InCall
  /\ UNCHANGED <<acc, folderRows, reply>>

(* Mutant: one rerun too many.                                             *)
RunnableOffByOne(t) ==
  /\ pc[t] = "runnable"
  /\ \/ ~acc.enabled /\ Finally(t, "cancelled") /\ UNCHANGED reply
     \/ /\ acc.enabled /\ job[t].runs > MaxReruns + 1
        /\ Finally(t, "ran") /\ UNCHANGED reply
     \/ /\ acc.enabled /\ job[t].runs \in 1..MaxReruns + 1
        /\ Goto(t, "backoff") /\ UNCHANGED <<syncing, job, reply>>
     \/ /\ acc.enabled /\ job[t].runs = 0
        /\ Post(t, "SYNC_ACCOUNT")
        /\ job' = [job EXCEPT ![t].runs = @ + 1]
        /\ UNCHANGED syncing
  /\ InCall /\ UNCHANGED <<acc, folderRows>>

(* stillRunnable's re-read of the record; MAX_ACCOUNT_RERUNS; the first    *)
(* run goes straight to SYNC_ACCOUNT, a rerun through the back-off.        *)
Runnable(t) ==
  /\ pc[t] = "runnable"
  /\ \/ ~acc.enabled /\ Finally(t, "cancelled") /\ UNCHANGED reply
     \/ /\ acc.enabled /\ job[t].runs > MaxReruns
        /\ Finally(t, "ran") /\ UNCHANGED reply
     \/ /\ acc.enabled /\ job[t].runs \in 1..MaxReruns
        /\ Goto(t, "backoff") /\ UNCHANGED <<syncing, job, reply>>
     \/ /\ acc.enabled /\ job[t].runs = 0
        /\ Post(t, "SYNC_ACCOUNT")
        /\ job' = [job EXCEPT ![t].runs = @ + 1]
        /\ UNCHANGED syncing
  /\ InCall /\ UNCHANGED <<acc, folderRows>>

BackoffElapsed(t) ==
  /\ pc[t] = "backoff"
  /\ CheckMark(t, {}, "rerunnable")
  /\ InCall /\ UNCHANGED <<acc, folderRows, reply>>

(* Mutant: a rerun is not counted.                                         *)
RerunUncounted(t) ==
  /\ pc[t] = "rerunnable"
  /\ Post(t, "SYNC_ACCOUNT")
  /\ InCall /\ UNCHANGED <<acc, folderRows, syncing, job>>

Rerun(t) ==
  /\ pc[t] = "rerunnable"
  /\ IF acc.enabled
     THEN /\ Post(t, "SYNC_ACCOUNT")
          /\ job' = [job EXCEPT ![t].runs = @ + 1]
          /\ UNCHANGED syncing
     ELSE Finally(t, "cancelled") /\ UNCHANGED reply
  /\ InCall /\ UNCHANGED <<acc, folderRows>>

AccountSynced(t) ==
  /\ pc[t] = "SYNC_ACCOUNT" /\ reply[t] # "none"
  /\ \/ reply[t] = "error" /\ Finally(t, "failed") /\ Taken(t)
     \/ reply[t] \in Rejections /\ Catch(t, reply[t]) /\ Taken(t)
     \/ /\ reply[t] \in {"ok", "rerun"}
        /\ Post(t, "GET_SORTED_FOLDERS")
        /\ UNCHANGED <<syncing, job>>
  /\ InCall /\ UNCHANGED <<acc, folderRows>>

(* An empty list is not written.                                           *)
FoldersListed(t) ==
  /\ pc[t] = "GET_SORTED_FOLDERS" /\ reply[t] # "none"
  /\ Taken(t)
  /\ \/ reply[t] \in Rejections /\ Catch(t, reply[t])
     \/ /\ reply[t] \notin Rejections
        /\ Goto(t, "replace") \/ Goto(t, "list")
        /\ UNCHANGED <<syncing, job>>
  /\ InCall /\ UNCHANGED <<acc, folderRows>>

(* folders.replaceAccountFolders: known rows keep selection and status, a  *)
(* new one may come selected (cache or descriptor), the others are gone.   *)
ReplaceFolders(list, chosen) ==
  /\ rows' = list
  /\ selected' = (selected \cap list) \cup (chosen \ rows)
  /\ status' = [f \in Folders |-> IF f \in list THEN status[f] ELSE "none"]

Replaced(t) ==
  /\ pc[t] = "replace"
  /\ \E list \in SUBSET Folders \ {{}} : \E chosen \in SUBSET list :
       ReplaceFolders(list, chosen)
  /\ Goto(t, "list")
  /\ InCall /\ UNCHANGED <<acc, syncing, job, reply>>

(* The head of the folder loop: done, or stillRunnable for the next one.   *)
NextFolder(t, todo) ==
  IF todo = {} THEN Finally(t, "ran") ELSE CheckMark(t, todo, "folder")

ToSync(scope) ==
  {f \in selected \ busyFolders : scope \in {All, f}}

List(t) ==
  /\ pc[t] = "list"
  /\ NextFolder(t, ToSync(job[t].scope))
  /\ InCall /\ UNCHANGED <<acc, folderRows, reply>>

(* stillRunnable's re-read, then syncFolderOnce up to its first await.     *)
Folder(t) ==
  /\ pc[t] = "folder"
  /\ IF acc.enabled
     THEN /\ \E f \in job[t].todo :
               job' = [job EXCEPT ![t].todo = @ \ {f}, ![t].cur = f]
          /\ Goto(t, "stamp")
          /\ UNCHANGED syncing
     ELSE Finally(t, "cancelled")
  /\ InCall /\ UNCHANGED <<acc, folderRows, reply>>

(* "pending" is written, and the command goes out.  Nothing is checked in  *)
(* between.                                                                *)
Stamp(t) ==
  /\ pc[t] = "stamp"
  /\ SetStatus(job[t].cur, "pending")
  /\ Post(t, "SYNC_FOLDER")
  /\ InCall /\ UNCHANGED <<acc, rows, selected, syncing, job>>

FolderSynced(t) ==
  /\ pc[t] = "SYNC_FOLDER" /\ reply[t] # "none"
  /\ \/ reply[t] = "rerun" /\ CheckMark(t, {}, "runnable") /\ Taken(t)
     \/ reply[t] \in {"auth", "cancelled"} /\ Catch(t, reply[t]) /\ Taken(t)
     \/ /\ reply[t] \in {"ok", "error", "fault"}
        /\ Goto(t, "record")
        /\ UNCHANGED <<syncing, job, reply>>
  /\ InCall /\ UNCHANGED <<acc, folderRows>>

Recorded(t) ==
  /\ pc[t] = "record"
  /\ SetStatus(job[t].cur, IF reply[t] = "ok" THEN "done" ELSE "error")
  /\ NextFolder(t, job[t].todo)
  /\ Taken(t)
  /\ InCall /\ UNCHANGED <<acc, rows, selected>>

(* accounts.update: a record that is gone stays gone.                      *)
FlagAccountForReauth(t) ==
  /\ pc[t] = "flag"
  /\ acc' = IF acc.exists THEN [acc EXCEPT !.error = "auth"] ELSE acc
  /\ Finally(t, "auth")
  /\ InCall /\ UNCHANGED <<folderRows, reply>>

(***************************************************************************)
(* The rest of the finally, and what follows it.                           *)
(***************************************************************************)
Settle(t) ==
  \/ job[t].outcome = "cancelled" /\ ReturnWithoutDrain(t)
  \/ job[t].outcome = "auth" /\ ReturnAndDrain(t)
  \/ job[t].outcome = "failed" /\ Goto(t, "settle") /\ UNCHANGED job /\ InCall
  \/ /\ job[t].outcome \in {"ran", "threw"}
     /\ Goto(t, "stampAccount") /\ UNCHANGED job /\ InCall

(* Mutant: the rows left "pending" are not looked for.                     *)
ResidualSkipped(t) ==
  /\ pc[t] = "residual"
  /\ Settle(t)
  /\ UNCHANGED <<acc, folderRows, syncing, reply>>

(* The rows still "pending" are listed, all of the account's.              *)
Residual(t) ==
  LET pending == {f \in rows : status[f] = "pending"}
  IN /\ pc[t] = "residual"
     /\ IF pending = {} THEN Settle(t)
        ELSE /\ Goto(t, "downgrade")
             /\ job' = [job EXCEPT ![t].todo = pending]
             /\ InCall
     /\ UNCHANGED <<acc, folderRows, syncing, reply>>

(* ... and each is written "aborted", whatever it holds by then.           *)
Downgrade(t) ==
  /\ pc[t] = "downgrade"
  /\ \E f \in job[t].todo :
       /\ SetStatus(f, "aborted")
       /\ IF job[t].todo = {f} THEN Settle(t)
          ELSE /\ job' = [job EXCEPT ![t].todo = @ \ {f}]
               /\ UNCHANGED pc /\ InCall
  /\ UNCHANGED <<acc, rows, selected, syncing, reply>>

(* A failed call: it returned from inside the try and never drains.        *)
SettleFailed(t) ==
  /\ pc[t] = "settle"
  /\ IF acc.exists /\ acc.error \notin {"auth", "account"}
     THEN /\ Goto(t, "writeError")
          /\ job' = [job EXCEPT ![t].next = "account"]
          /\ InCall
     ELSE ReturnWithoutDrain(t)
  /\ UNCHANGED <<acc, folderRows, syncing, reply>>

(* Mutant: the error is not aggregated again.                              *)
StampWithoutRecompute(t) ==
  /\ pc[t] = "stampAccount"
  /\ acc' = IF acc.exists THEN [acc EXCEPT !.lastSync = job[t].outcome] ELSE acc
  /\ ReturnAndDrain(t)
  /\ UNCHANGED <<folderRows, syncing, reply>>

StampAccount(t) ==
  /\ pc[t] = "stampAccount"
  /\ acc' = IF acc.exists THEN [acc EXCEPT !.lastSync = job[t].outcome] ELSE acc
  /\ Goto(t, "recompute")
  /\ InCall /\ UNCHANGED <<folderRows, syncing, job, reply>>

(* recomputeAccountError reads the account, then the rows, then writes.    *)
FolderError ==
  IF \E f \in selected : status[f] = "error" THEN "folder" ELSE "none"

Recompute(t) ==
  /\ pc[t] = "recompute"
  /\ IF ~acc.exists \/ acc.error = "auth" THEN ReturnAndDrain(t)
     ELSE /\ Goto(t, "recomputeRows")
          /\ job' = [job EXCEPT ![t].next = acc.error]
          /\ InCall
  /\ UNCHANGED <<acc, folderRows, syncing, reply>>

RecomputeRows(t) ==
  /\ pc[t] = "recomputeRows"
  /\ IF job[t].next = FolderError THEN ReturnAndDrain(t)
     ELSE /\ Goto(t, "writeError")
          /\ job' = [job EXCEPT ![t].next = FolderError]
          /\ InCall
  /\ UNCHANGED <<acc, folderRows, syncing, reply>>

WriteError(t) ==
  /\ pc[t] = "writeError"
  /\ acc' = IF acc.exists THEN [acc EXCEPT !.error = job[t].next] ELSE acc
  /\ IF job[t].outcome = "failed" THEN ReturnWithoutDrain(t)
     ELSE ReturnAndDrain(t)
  /\ UNCHANGED <<folderRows, syncing, reply>>

SyncStep(t) ==
  /\ pc[t] \in WritePcs => Turn(t)
  /\ \/ Enter(t) \/ Runnable(t) \/ BackoffElapsed(t) \/ Rerun(t)
     \/ AccountSynced(t) \/ FoldersListed(t) \/ Replaced(t) \/ List(t)
     \/ Folder(t) \/ Stamp(t) \/ FolderSynced(t) \/ Recorded(t)
     \/ FlagAccountForReauth(t) \/ Residual(t) \/ Downgrade(t)
     \/ SettleFailed(t) \/ StampAccount(t) \/ Recompute(t)
     \/ RecomputeRows(t) \/ WriteError(t)
  /\ Requeue(t, pc[t] \in WritePcs, pc'[t] \in WritePcs)
  /\ UNCHANGED <<maintaining, cancelling, settingUp, busyFolders, connected,
                 window, toggle>>

(***************************************************************************)
(* maintainAccount                                                         *)
(***************************************************************************)
StartMaintain(t) ==
  /\ "maintain" \in Events
  /\ pc[t] = "idle" /\ ~Busy /\ ~Refused
  /\ Goto(t, "maintainEntry")
  /\ UNCHANGED <<acc, folderRows, writes, syncing, maintaining, cancelling,
                 settingUp, busyFolders, pendingWork, connected, job, frames,
                 reply, window, toggle>>

(* Mutant: the account is not read again.                                  *)
MaintainUnchecked(t) ==
  /\ pc[t] = "maintainEntry"
  /\ maintaining' = TRUE /\ Post(t, "MAINTAIN")
  /\ InCall /\ UNCHANGED job

MaintainEnter(t) ==
  /\ pc[t] = "maintainEntry"
  /\ IF ~acc.enabled \/ acc.error = "auth"
     THEN Goto(t, "idle") /\ UNCHANGED <<maintaining, reply>>
     ELSE maintaining' = TRUE /\ Post(t, "MAINTAIN")
  /\ InCall /\ UNCHANGED job

Maintained(t) ==
  /\ pc[t] = "MAINTAIN" /\ reply[t] # "none"
  /\ Taken(t)
  /\ maintaining' = FALSE
  /\ DrainFrom(t, <<{}>>, syncing)

MaintainStep(t) ==
  /\ MaintainEnter(t) \/ Maintained(t)
  /\ UNCHANGED <<acc, folderRows, writes, syncing, cancelling, settingUp,
                 busyFolders, connected, window, toggle>>

(***************************************************************************)
(* The provider and its port.  A reply is only recorded here: the awaiting *)
(* coroutine resumes later.                                                *)
(***************************************************************************)
Waiting(t) == pc[t] \in Commands /\ reply[t] = "none"

Answer(t) ==
  /\ Waiting(t)
  /\ \E r \in Replies : reply' = [reply EXCEPT ![t] = r]
  /\ UNCHANGED <<acc, folderRows, writes, syncing, maintaining, cancelling,
                 settingUp, busyFolders, pendingWork, connected, pc, job,
                 frames, window, toggle>>

(* Of a coroutine's commands only GET_SORTED_FOLDERS has a timeout.        *)
Timeout(t) ==
  /\ Waiting(t) /\ pc[t] = "GET_SORTED_FOLDERS"
  /\ reply' = [reply EXCEPT ![t] = "fault"]
  /\ UNCHANGED <<acc, folderRows, writes, syncing, maintaining, cancelling,
                 settingUp, busyFolders, pendingWork, connected, pc, job,
                 frames, window, toggle>>

(* rejectPending: every command of the given kinds that still waits.       *)
Reject(cmds, code) ==
  reply' = [t \in Tasks |->
              IF Waiting(t) /\ pc[t] \in cmds THEN code ELSE reply[t]]

PortLost ==
  /\ "port" \in Events /\ connected
  /\ connected' = FALSE
  /\ Reject(Commands, "fault")
  /\ UNCHANGED <<acc, folderRows, writes, syncing, maintaining, cancelling,
                 settingUp, busyFolders, pendingWork, pc, job, frames, window,
                 toggle>>

PortOpened ==
  /\ ~connected
  /\ connected' = TRUE
  /\ UNCHANGED <<acc, folderRows, writes, syncing, maintaining, cancelling,
                 settingUp, busyFolders, pendingWork, tasks, window, toggle>>

SetAccountSetupLock ==
  /\ "setup" \in Events /\ acc.exists
  /\ settingUp' = ~settingUp
  /\ UNCHANGED <<acc, folderRows, writes, syncing, maintaining, cancelling,
                 busyFolders, pendingWork, connected, tasks, window, toggle>>

(* The provider's own write, wherever it fell in the queue.                *)
PushFolderList ==
  /\ "push" \in Events /\ acc.exists
  /\ \E list \in SUBSET Folders : \E chosen \in SUBSET list :
       ReplaceFolders(list, chosen)
  /\ UNCHANGED <<acc, writes, syncing, maintaining, cancelling, settingUp,
                 busyFolders, pendingWork, connected, tasks, window, toggle>>

(***************************************************************************)
(* The manager's handlers: setAccountEnabled, deleteAccount and            *)
(* authenticateAccount.                                                    *)
(***************************************************************************)
Move(w, from, to) ==
  /\ window[w] = from
  /\ window' = [window EXCEPT ![w] = to]

(* abortAccountSync, at the head of a disconnect or a removal: the mark,   *)
(* the sweep of what is in flight, the deferred work.                      *)
AbortAccountSync(w) ==
  /\ acc.exists
  /\ Move(w, "idle", "ACCOUNT_DISABLED") \/ Move(w, "idle", "ACCOUNT_DELETED")
  /\ cancelling' = TRUE
  /\ pendingWork' = NoWork
  /\ IF connected THEN Reject(SyncCommands, "cancelled") ELSE UNCHANGED reply
  /\ UNCHANGED <<acc, folderRows, writes, syncing, maintaining, settingUp,
                 busyFolders, connected, pc, job, frames, toggle>>

(* The provider answered, failed or timed out: all the same.  A removal    *)
(* clears the rows before the record goes; its targets are deleted between.*)
TeardownCommandSettled(w) ==
  /\ \/ Move(w, "ACCOUNT_DISABLED", "disable")
     \/ Move(w, "ACCOUNT_DELETED", "clearDeleted")
  /\ UNCHANGED <<acc, folderRows, cancelling>>

(* Mutant: the teardown is taken to be over once the record says disabled. *)
DisableAccountEndingCancel(w) ==
  /\ Move(w, "disable", "clear")
  /\ acc' = IF acc.exists
            THEN [acc EXCEPT !.enabled = FALSE, !.error = "none",
                             !.lastSync = "never"]
            ELSE acc
  /\ cancelling' = FALSE
  /\ UNCHANGED folderRows

DisableAccount(w) ==
  /\ Move(w, "disable", "clear")
  /\ acc' = IF acc.exists
            THEN [acc EXCEPT !.enabled = FALSE, !.error = "none",
                             !.lastSync = "never"]
            ELSE acc
  /\ UNCHANGED <<folderRows, cancelling>>

ClearAccount(w) ==
  /\ \/ Move(w, "clear", "targets")
     \/ Move(w, "clearDeleted", "targetsDeleted")
  /\ rows' = {} /\ selected' = {}
  /\ status' = [f \in Folders |-> "none"]
  /\ UNCHANGED <<acc, cancelling>>

(* deleteTargetsBestEffort is over: endAccountCancel, or on to the record. *)
TargetsDeleted(w) ==
  /\ \/ Move(w, "targets", "idle") /\ cancelling' = FALSE
     \/ Move(w, "targetsDeleted", "remove") /\ UNCHANGED cancelling
  /\ UNCHANGED <<acc, folderRows>>

RemoveAccount(w) ==
  /\ Move(w, "remove", "idle")
  /\ acc' = NoAccount
  /\ cancelling' = FALSE
  /\ UNCHANGED folderRows

Connect(w) ==
  /\ acc.exists /\ ~settingUp /\ connected
  /\ Move(w, "idle", "ACCOUNT_ENABLED")
  /\ UNCHANGED <<acc, folderRows, writes, syncing, maintaining, cancelling,
                 settingUp, busyFolders, pendingWork, connected, tasks, toggle>>

(* Whether the account has to be enabled again is decided on the record as *)
(* it was before the sign-in popup opened.  The sync that follows is a     *)
(* StartSync or a Defer like any other.                                    *)
Authenticate(w) ==
  /\ acc.exists /\ ~settingUp /\ connected
  /\ Move(w, "idle", IF acc.enabled THEN "REAUTHENTICATE"
                     ELSE "REAUTHENTICATE_OFF")
  /\ UNCHANGED <<acc, folderRows, writes, syncing, maintaining, cancelling,
                 settingUp, busyFolders, pendingWork, connected, tasks, toggle>>

(* The command succeeded and its write is queued, or it failed.            *)
ConnectCommandSettled(w) ==
  /\ \/ Move(w, "ACCOUNT_ENABLED", "enable")
     \/ Move(w, "REAUTHENTICATE", "reauth")
     \/ Move(w, "REAUTHENTICATE_OFF", "reauthOff")
     \/ Move(w, "ENABLE_AGAIN", "enableAgain")
     \/ \E p \in {"ACCOUNT_ENABLED", "REAUTHENTICATE", "REAUTHENTICATE_OFF",
                  "ENABLE_AGAIN"} : Move(w, p, "idle")
  /\ UNCHANGED <<acc, folderRows, cancelling>>

(* The lastSyncTime a connect writes back is taken to be the current one.  *)
ConnectWritten(w) ==
  /\ \/ Move(w, "enable", "idle") \/ Move(w, "reauth", "idle")
     \/ Move(w, "reauthOff", "ENABLE_AGAIN") \/ Move(w, "enableAgain", "idle")
  /\ acc' = IF acc.exists
            THEN [acc EXCEPT
                    !.enabled = @ \/ window[w] \in {"enable", "enableAgain"},
                    !.error = IF window[w] = "enableAgain" THEN @ ELSE "none"]
            ELSE acc
  /\ UNCHANGED <<folderRows, cancelling>>

WindowStep(w) ==
  /\ window[w] \in WindowWrites => Turn(w)
  /\ \/ TeardownCommandSettled(w) \/ DisableAccount(w) \/ ClearAccount(w)
     \/ TargetsDeleted(w) \/ RemoveAccount(w)
     \/ ConnectCommandSettled(w) \/ ConnectWritten(w)
  /\ Requeue(w, window[w] \in WindowWrites, window'[w] \in WindowWrites)
  /\ UNCHANGED <<syncing, maintaining, settingUp, busyFolders, pendingWork,
                 connected, tasks, toggle>>

(***************************************************************************)
(* setFolderSelected and selectFolder: the provider is told, the row is    *)
(* written, the account's error is recomputed.                             *)
(***************************************************************************)
SelectFolder ==
  /\ acc.exists /\ ~settingUp /\ connected
  /\ toggle.pc = "idle"
  /\ \E f \in (rows \cap Toggled) \ busyFolders : \E on \in BOOLEAN :
       /\ busyFolders' = busyFolders \cup {f}
       /\ toggle' = [pc |-> "command", folder |-> f, on |-> on, next |-> "none"]
  /\ UNCHANGED <<acc, folderRows, writes, syncing, maintaining, cancelling,
                 settingUp, pendingWork, connected, tasks, window>>

(* Mutant: the folder stays busy.                                          *)
EndToggleStayingBusy ==
  /\ UNCHANGED busyFolders
  /\ toggle' = NoToggle

EndToggle ==
  /\ busyFolders' = busyFolders \ {toggle.folder}
  /\ toggle' = NoToggle

(* FOLDER_ENABLED or FOLDER_DISABLED succeeded, or it failed.              *)
ToggleCommandSettled ==
  /\ toggle.pc = "command"
  /\ \/ EndToggle
     \/ toggle' = [toggle EXCEPT !.pc = "select"] /\ UNCHANGED busyFolders
  /\ UNCHANGED <<acc, folderRows>>

ToggleWritten ==
  LET f == toggle.folder
  IN /\ toggle.pc = "select"
     /\ toggle' = [toggle EXCEPT !.pc = "recompute"]
     /\ IF toggle.on
        THEN selected' = selected \cup ({f} \cap rows) /\ UNCHANGED status
        ELSE selected' = selected \ {f} /\ SetStatus(f, "none")
     /\ UNCHANGED <<acc, rows, busyFolders>>

ToggleRecompute ==
  /\ toggle.pc = "recompute"
  /\ IF ~acc.exists \/ acc.error = "auth" THEN EndToggle
     ELSE /\ toggle' = [toggle EXCEPT !.pc = "recomputeRows",
                                      !.next = acc.error]
          /\ UNCHANGED busyFolders
  /\ UNCHANGED <<acc, folderRows>>

ToggleRecomputeRows ==
  /\ toggle.pc = "recomputeRows"
  /\ IF toggle.next = FolderError THEN EndToggle
     ELSE /\ toggle' = [toggle EXCEPT !.pc = "writeError", !.next = FolderError]
          /\ UNCHANGED busyFolders
  /\ UNCHANGED <<acc, folderRows>>

ToggleWriteError ==
  /\ toggle.pc = "writeError"
  /\ acc' = IF acc.exists THEN [acc EXCEPT !.error = toggle.next] ELSE acc
  /\ EndToggle
  /\ UNCHANGED folderRows

ToggleStep ==
  /\ toggle.pc \in ToggleWrites => Turn(Toggler)
  /\ \/ ToggleCommandSettled \/ ToggleWritten \/ ToggleRecompute
     \/ ToggleRecomputeRows \/ ToggleWriteError
  /\ Requeue(Toggler, toggle.pc \in ToggleWrites, toggle'.pc \in ToggleWrites)
  /\ UNCHANGED <<syncing, maintaining, cancelling, settingUp, pendingWork,
                 connected, tasks, window>>

(***************************************************************************)
(* The specification.  A spinning coroutine never gives the thread back.   *)
(***************************************************************************)
Hung == \E t \in Tasks : pc[t] = "spinning"

Requests ==
  \/ \E scope \in Folders \cup {All} :
       Defer(scope) \/ \E t \in Tasks : StartSync(t, scope)
  \/ \E t \in Tasks : StartMaintain(t)
  \/ \E w \in Windows : AbortAccountSync(w) \/ Connect(w) \/ Authenticate(w)
  \/ SelectFolder

Provider ==
  \/ \E t \in Tasks : Answer(t) \/ Timeout(t)
  \/ PortLost \/ PortOpened \/ SetAccountSetupLock \/ PushFolderList

Step ==
  \/ \E t \in Tasks : SyncStep(t) \/ MaintainStep(t)
  \/ \E w \in Windows : WindowStep(w)
  \/ ToggleStep \/ Requests \/ Provider

Spin == Hung /\ UNCHANGED vars

Next == (~Hung /\ Step) \/ Spin

Spec == Init /\ [][Next]_vars

(* The event loop runs every continuation, timers fire, and the manager's  *)
(* own commands have timeouts; nothing is assumed of the user.             *)
HostFairness ==
  /\ \A t \in Tasks : /\ WF_vars(~Hung /\ SyncStep(t))
                      /\ WF_vars(~Hung /\ MaintainStep(t))
                      /\ WF_vars(~Hung /\ Timeout(t))
  /\ \A w \in Windows : WF_vars(~Hung /\ WindowStep(w))
  /\ WF_vars(~Hung /\ ToggleStep)

(* A live provider answers what it is asked.                               *)
ProviderFairness == \A t \in Tasks : WF_vars(~Hung /\ Answer(t))

FairSpec == Spec /\ HostFairness
ServedSpec == FairSpec /\ ProviderFairness

-----------------------------------------------------------------------------
(***************************************************************************)
(* Properties that hold.                                                   *)
(***************************************************************************)

(* A lock, a cancel mark or a busy folder always has someone on the way to *)
(* releasing it: no path through syncAccount's try/catch/finally, through  *)
(* maintainAccount, a teardown or a toggle leaves one behind for the life  *)
(* of the background page, whatever the other coroutines do.               *)
LocksHaveOwners ==
  /\ syncing => \E t \in Tasks : pc[t] \in Holding
  /\ maintaining => \E t \in Tasks : pc[t] = "MAINTAIN"
  /\ cancelling => \E w \in Windows : window[w] \in TeardownPcs
  /\ busyFolders \subseteq {toggle.folder}
  /\ busyFolders # {} => toggle.pc # "idle"

(* A row that reads "pending" (the manager paints "Synchronizing...") has  *)
(* a coroutine that will still write or downgrade it: after any mixture of *)
(* syncs, aborts, reruns and list replacements no row is stranded.         *)
PendingHasWriter ==
  \A f \in Folders : status[f] = "pending" =>
    \E t \in Tasks :
      \/ pc[t] \in Holding \cup {"residual"}
      \/ pc[t] = "downgrade" /\ f \in job[t].todo

(* A deferred request leaves the slot only by being run, at once or as a   *)
(* folder still to run in the same drain, or because the account is being  *)
(* torn down or set up: a merge never loses it.                            *)
Covered(f) == pendingWork.full \/ f \in pendingWork.folderIds
TakenBy(t, f) ==
  /\ pc[t] = "entry"
  /\ job[t].scope \in {All, f} \/ (frames[t] # <<>> /\ f \in Head(frames[t]))
RequestsKept ==
  [][\A f \in Folders : Covered(f) =>
       \/ Covered(f)' \/ cancelling' \/ settingUp
       \/ \E t \in Tasks : TakenBy(t, f)']_vars

(* One teardown at a time: the cancel mark stands from the abort until the *)
(* teardown has finished with the record and the rows (endAccountCancel).  *)
MarkHeldThroughTeardown ==
  \A w \in Windows : window[w] \in TeardownPcs => cancelling

(* Between syncs account.error says what the rows say, unless it holds an  *)
(* error of the account itself: the badge never misses a failed folder and *)
(* never keeps one that recovered (recomputeAccountError).  It holds of    *)
(* one coroutine at a time; a folder toggled while a sync settles breaks   *)
(* it, as README.md tells.                                                 *)
AtRest == toggle.pc = "idle" /\ \A t \in Tasks : pc[t] = "idle"
ErrorReflectsRows ==
  AtRest => acc.error \in {"auth", "account", FolderError}

(* What was deferred is eventually taken up.                               *)
DeferredRuns == (pendingWork # NoWork) ~> (pendingWork = NoWork)

(* A sync ends, reruns included.                                           *)
SyncEnds == syncing ~> ~syncing

(* An account that is disconnected for good falls quiet: whatever was under*)
(* way unwinds, and no later request, tick or drain takes a lock again.    *)
DisconnectQuiets == <>[]~acc.enabled => <>[]~Busy

-----------------------------------------------------------------------------
(***************************************************************************)
(* Claims of the code's own comments that the code does not keep.  Each is *)
(* refuted by a run of its own; README.md tells the stories.               *)
(***************************************************************************)

(* background.mjs, onAutosyncTick: "syncAccount() returns early if the     *)
(* account is already in flight", and protocol.mjs, MAINTAIN: "this never  *)
(* overlaps a sync of the same account".                                   *)
Driving == Holding \cup {"MAINTAIN"}
OneDriver ==
  \A t, u \in Tasks : pc[t] \in Driving /\ pc[u] \in Driving => t = u

(* sync-coordinator.mjs, drainPendingWork: "so a deferred run starts from  *)
(* a settled account: the lock is clear".                                  *)
DrainFindsLockClear == ~Hung

(* sync-coordinator.mjs, abortAccountSync: the mark makes "the sync loop   *)
(* [unwind] at its next await" and no step of the abort "may depend on the *)
(* provider being healthy".                                                *)
AbortFreesAccount ==
  \A t \in Tasks : (cancelling /\ pc[t] \in Holding) ~> pc[t] \notin Holding

(* sync-coordinator.mjs, recomputeAccountError: "The auth-failed path is   *)
(* preserved verbatim": only a sign-in, a connect or a disconnect clears it*)
AuthSticks ==
  [][acc.error = "auth" /\ acc'.error # "auth" =>
       \E w \in Windows : window[w] # window'[w]]_vars

(* sync-coordinator.mjs: "Folders being toggled right now skip this pass". *)
ToggledFoldersSkip ==
  [][\A t \in Tasks :
       pc[t] = "stamp" /\ pc'[t] # "stamp" => job[t].cur \notin busyFolders]_vars

(* sync-coordinator.mjs: a sync whose account-level call failed must not   *)
(* "finish looking freshly synced".                                        *)
FreshMeansSynced == acc.lastSync \in {"never", "ran"}

=============================================================================
