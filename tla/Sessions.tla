-------------------------------- MODULE Sessions --------------------------------
(***************************************************************************)
(* The life of a binding: a folder row at the host (folders.mjs) names a   *)
(* local resource and a session, the provider files what the user does to  *)
(* the resource under the session it last saw (change-queue.mjs), and who  *)
(* ends a binding only mints a new session.  The provider finds out by not *)
(* finding its session any more and sweeps.                                *)
(*                                                                         *)
(* One account.  The manager window, the provider's sync, the provider's   *)
(* observers, the server's folder list and the host's handlers of what the *)
(* provider reports interleave; each action is what one does between two   *)
(* awaits.  External: the user, and the provider's sync, as far as it      *)
(* reads rows, binds a resource, sweeps and pushes.                        *)
(***************************************************************************)
EXTENDS Changelog, FiniteSets

CONSTANTS
  Folders, Items,
  Overlap,        \* whether a binding may be ended under a sync of the folder
  MaxSessions,    \* bound: sessions minted
  MaxTargets,     \* bound: resources created
  MaxEdits,       \* bound: edits of the user
  MaxHooks,       \* bound: events in their handlers
  MaxPushes,      \* bound: changed folder lists from the server
  MaxOps          \* bound: operations of the manager

Sessions == 1..MaxSessions
Targets == 1..MaxTargets
NoTarget == 0
NotBound == <<>>
Versions == {"old", "new", "gone"}

ASSUME SessionsAssumption ==
  /\ Overlap \in BOOLEAN
  /\ IsFiniteSet(Folders) /\ Folders # {} /\ Items # {}
  /\ {MaxSessions, MaxTargets, MaxEdits, MaxHooks, MaxPushes, MaxOps}
       \subseteq Nat
  /\ MaxSessions >= Cardinality(Folders)

VARIABLES
  account,      \* "enabled", "disabled", "removed"
  rows,         \* the folder rows
  cache,        \* the account's deletedFolderCache
  minted, made, \* sessions minted, resources made so far
  contents,     \* what each local resource holds; NotBound: it does not exist
  marked,       \* the resources marked as orphaned
  queues,       \* per session: the rows of its bag
  bindings,     \* the provider's map from resource to folder and session
  hooks,        \* events of items in their handlers
  reports,      \* removals of resources on their way to the host
  mgr,          \* what the manager asked for and is under way
  push,         \* a PUSH_FOLDER_LIST between its check and its write
  doomed,       \* resources of folders the server dropped, to be deleted
  sync,         \* the provider's sync of a folder
  server,       \* the server's copy of each folder
  edits, pushes, ops,
  gone          \* history: the row of a folder the server dropped, while the
                \* account stays connected

vars == <<account, rows, cache, minted, made, contents, marked, queues, bindings,
          hooks, reports, mgr, push, doomed, sync, server, edits, pushes, ops, gone>>

Resources == {t \in Targets : contents[t] # NotBound}
NewRow(session) ==
  [selected |-> FALSE, downloadOnly |-> FALSE, target |-> NoTarget, session |-> session]
NoRow == NewRow(0)

(* What the cache keeps of a folder the server dropped while it was in use.*)
NoBag == "no bag"
Bag(row) == IF row.downloadOnly THEN "download only" ELSE "plain"

NoBinding == [folder |-> CHOOSE f \in Folders : TRUE, session |-> 0]
IdleMgr == [at |-> "idle", op |-> "none", folder |-> NoBinding.folder, targets |-> {}]
IdlePush == [at |-> "idle", listed |-> {}]
IdleSync == [at |-> "idle", folder |-> NoBinding.folder, seen |-> <<>>,
             target |-> NoTarget, item |-> CHOOSE i \in Items : TRUE, done |-> {}]

Id(t, i) == [parent |-> t, item |-> i, kind |-> "contact"]
Named(table) == {table[f].target : f \in {g \in Folders : table[g] # NoRow}} \ {NoTarget}
SessionsOf(table) == {table[f].session : f \in {g \in Folders : table[g] # NoRow}}

(* A binding may be ended under the sync of its folder, or not.            *)
InSync(f) == sync.at # "idle" /\ sync.folder = f
Quiet(f) == Overlap \/ ~InSync(f)

-----------------------------------------------------------------------------
(* The server's folders have been listed once, and selected.               *)
Init ==
  /\ account = "enabled"
  /\ \E first \in [Folders -> 1..Cardinality(Folders)] :
       /\ \A f, g \in Folders : first[f] = first[g] => f = g
       /\ rows = [f \in Folders |-> [NewRow(first[f]) EXCEPT !.selected = TRUE]]
  /\ minted = Cardinality(Folders) /\ made = 0
  /\ cache = [f \in Folders |-> NoBag]
  /\ contents = [t \in Targets |-> NotBound]
  /\ marked = {}
  /\ queues = [s \in Sessions |-> <<>>]
  /\ bindings = [t \in Targets |-> NoBinding]
  /\ hooks = {} /\ reports = {} /\ doomed = {}
  /\ mgr = IdleMgr /\ push = IdlePush /\ sync = IdleSync
  /\ server = [f \in Folders |-> [i \in Items |-> "old"]]
  /\ edits = 0 /\ pushes = 0 /\ ops = 0
  /\ gone = [f \in Folders |-> NoRow]

-----------------------------------------------------------------------------
(* Folder rows                                                             *)

(* Mutant: a row that lost its resource keeps its session.                 *)
KeepingSession(f) == [rows[f] EXCEPT !.selected = FALSE, !.target = NoTarget]

(* clearTarget: what is left of a row whose resource is gone.              *)
Cleared(f) ==
  [rows[f] EXCEPT !.selected = FALSE, !.target = NoTarget, !.session = minted + 1]

clearTarget(f) ==
  IF rows[f] = NoRow \/ (rows[f].target = NoTarget /\ ~rows[f].selected)
  THEN UNCHANGED <<rows, minted>>
  ELSE /\ minted < MaxSessions
       /\ rows' = [rows EXCEPT ![f] = Cleared(f)]
       /\ minted' = minted + 1

(* The sessions of the rows that are new, each its own.                    *)
Minting(fresh) ==
  CHOOSE mint \in [fresh -> (minted + 1)..(minted + Cardinality(fresh))] :
    \A f, g \in fresh : mint[f] = mint[g] => f = g

(* Mutant: the row that is restored has no session.                        *)
RestoredWithoutSession(f, session) ==
  [NewRow(0) EXCEPT !.selected = (cache[f] # NoBag)]

(* Mutant: what the user chose is forgotten.                               *)
RestoreNothing(f, session) == NewRow(session)

(* A row that was not there: the user's customisations come back.          *)
Restored(f, session) ==
  IF cache[f] = NoBag THEN NewRow(session)
  ELSE [NewRow(session) EXCEPT !.selected = TRUE,
                               !.downloadOnly = (cache[f] = "download only")]

(* replaceAccountFolders: rows that stay are kept, new ones are restored   *)
(* or made, and of the others the selected ones are remembered in the      *)
(* cache of the account, if there still is one.                            *)
replaceAccountFolders(listed) ==
  LET fresh == {f \in listed : rows[f] = NoRow}
      mint == Minting(fresh)
      dropped == {f \in Folders \ listed : rows[f] # NoRow}
      kept == {f \in dropped : rows[f].selected /\ account # "removed"}
  IN /\ minted + Cardinality(fresh) <= MaxSessions
     /\ minted' = minted + Cardinality(fresh)
     /\ rows' = [f \in Folders |->
          CASE f \in fresh            -> Restored(f, mint[f])
            [] f \in listed \ fresh   -> rows[f]
            [] f \notin listed        -> NoRow]
     /\ cache' = IF account = "removed" THEN cache
                 ELSE [f \in Folders |-> IF f \in fresh THEN NoBag
                                        ELSE IF f \in kept THEN Bag(rows[f])
                                        ELSE cache[f]]
     /\ doomed' = doomed \cup (Named(rows) \ Named(rows'))
     /\ gone' = [f \in Folders |-> IF f \in fresh THEN NoRow
                                  ELSE IF f \in kept THEN rows[f]
                                  ELSE gone[f]]

(* PUSH_FOLDER_LIST: the account is looked up, then the rows are written.  *)
PushFolderList(listed) ==
  /\ push.at = "idle"
  /\ pushes < MaxPushes
  /\ account = "enabled"
  /\ \A f \in Folders \ listed : Quiet(f)
  /\ push' = [at |-> "replace", listed |-> listed]
  /\ pushes' = pushes + 1
  /\ UNCHANGED <<account, rows, cache, minted, made, contents, marked, queues,
                 bindings, hooks, reports, mgr, doomed, sync, server, edits, ops, gone>>

ReplaceFolders ==
  /\ push.at = "replace"
  /\ replaceAccountFolders(push.listed)
  /\ push' = IdlePush
  /\ UNCHANGED <<account, made, contents, marked, queues, bindings, hooks, reports,
                 mgr, sync, server, edits, pushes, ops>>

-----------------------------------------------------------------------------
(* Local resources: whoever deletes one, its events reach the observers,   *)
(* a "cascade" with the contacts' own deletions among them; handleRemoved  *)
(* reports the removal if it knows the binding.                            *)
Delete(t) ==
  /\ contents' = [contents EXCEPT ![t] = NotBound]
  /\ IF contents[t] = NotBound THEN UNCHANGED <<hooks, reports>>
     ELSE /\ reports' = reports \cup
               IF bindings[t] = NoBinding THEN {}
               ELSE {[at |-> "host", target |-> t, folder |-> bindings[t].folder]}
          /\ hooks' = hooks \cup {[at |-> "event", target |-> t, item |-> i,
                                    op |-> "deleted", session |-> 0] :
                                      i \in {j \in Items : contents[t][j] # "gone"}}

(* The server dropped the folder: deleteLocalTargetBestEffort.             *)
DeleteDoomed(t) ==
  /\ t \in doomed
  /\ doomed' = doomed \ {t}
  /\ Delete(t)
  /\ UNCHANGED <<account, rows, cache, minted, made, marked, queues, bindings, mgr,
                 push, sync, server, edits, pushes, ops, gone>>

UserDeletes(t) ==
  /\ t \in Resources
  /\ Overlap \/ \A f \in Folders : InSync(f) => sync.target # t
  /\ Delete(t)
  /\ UNCHANGED <<account, rows, cache, minted, made, marked, queues, bindings, mgr,
                 push, doomed, sync, server, edits, pushes, ops, gone>>

(* FOLDER_TARGET_REMOVED: the row is found by its target, then cleared.    *)
Report(r) ==
  /\ r \in reports
  /\ \/ /\ r.at = "host"
        /\ reports' = (reports \ {r}) \cup
             {[at |-> "clear", target |-> r.target, folder |-> f] :
                f \in {g \in Folders : rows[g] # NoRow /\ rows[g].target = r.target}}
        /\ UNCHANGED <<rows, minted>>
     \/ /\ r.at = "clear"
        /\ clearTarget(r.folder)
        /\ reports' = reports \ {r}
  /\ UNCHANGED <<account, cache, made, contents, marked, queues, bindings, hooks, mgr,
                 push, doomed, sync, server, edits, pushes, ops, gone>>

(* The provider or the host goes down on the way: the report is lost.      *)
LoseReport(r) ==
  /\ r \in reports
  /\ r.at # "clear"
  /\ reports' = reports \ {r}
  /\ UNCHANGED <<account, rows, cache, minted, made, contents, marked, queues, bindings,
                 hooks, mgr, push, doomed, sync, server, edits, pushes, ops, gone>>

-----------------------------------------------------------------------------
(* The user's edits, and the observers                                     *)

(* The user edits what the sync has bound; an edit of the item that is     *)
(* being pushed, or whose last event is in its handler, is left to         *)
(* ContactsObserver.                                                       *)
UserEdit(t, i, v) ==
  /\ edits < MaxEdits
  /\ t \in Resources /\ bindings[t] # NoBinding
  /\ contents[t][i] \notin {v, "gone"}
  /\ v # "old"
  /\ Cardinality(hooks) < MaxHooks
  /\ \A h \in hooks : h.target = t => h.item # i
  /\ ~(sync.at = "settle" /\ sync.target = t /\ sync.item = i)
  /\ contents' = [contents EXCEPT ![t][i] = v]
  /\ hooks' = hooks \cup {[at |-> "event", target |-> t, item |-> i, session |-> 0,
                           op |-> IF v = "gone" THEN "deleted" ELSE "updated"]}
  /\ edits' = edits + 1
  /\ UNCHANGED <<account, rows, cache, minted, made, marked, queues, bindings, reports,
                 mgr, push, doomed, sync, server, pushes, ops, gone>>

(* lookupBinding: the session is the one last remembered.                  *)
lookupBinding(h) ==
  /\ h \in hooks /\ h.at = "event"
  /\ hooks' = (hooks \ {h}) \cup
       IF bindings[h.target] = NoBinding THEN {}
       ELSE {[h EXCEPT !.at = "record", !.session = bindings[h.target].session]}
  /\ UNCHANGED <<account, rows, cache, minted, made, contents, marked, queues, bindings,
                 reports, mgr, push, doomed, sync, server, edits, pushes, ops, gone>>

record(h) ==
  /\ h \in hooks /\ h.at = "record"
  /\ queues' = [queues EXCEPT ![h.session] =
                  applyEvent(@, Id(h.target, h.item), h.item, h.op)]
  /\ hooks' = hooks \ {h}
  /\ UNCHANGED <<account, rows, cache, minted, made, contents, marked, bindings, reports,
                 mgr, push, doomed, sync, server, edits, pushes, ops, gone>>

-----------------------------------------------------------------------------
(* The manager: setFolderSelected, setFolderDownloadOnly, setAccountEnabled *)
(* and deleteAccount                                                       *)

Ask(op, f, targets) ==
  mgr' = [at |-> "told", op |-> op, folder |-> f, targets |-> targets]

selectFolder(f, selected) ==
  /\ mgr.at = "idle" /\ account = "enabled" /\ ops < MaxOps /\ rows[f] # NoRow
  /\ Quiet(f)
  /\ Ask(IF selected THEN "select" ELSE "deselect", f, {rows[f].target} \ {NoTarget})
  /\ ops' = ops + 1
  /\ UNCHANGED <<account, rows, cache, minted, made, contents, marked, queues, bindings,
                 hooks, reports, push, doomed, sync, server, edits, pushes, gone>>

setFolderDownloadOnly(f) ==
  /\ mgr.at = "idle" /\ account = "enabled" /\ ops < MaxOps /\ rows[f] # NoRow
  /\ ~rows[f].downloadOnly
  /\ rows' = [rows EXCEPT ![f].downloadOnly = TRUE]
  /\ ops' = ops + 1
  /\ UNCHANGED <<account, cache, minted, made, contents, marked, queues, bindings,
                 hooks, reports, mgr, push, doomed, sync, server, edits, pushes, gone>>

Teardown(op) ==
  /\ mgr.at = "idle" /\ account = "enabled" /\ ops < MaxOps
  /\ \A f \in Folders : Quiet(f)
  /\ Ask(op, NoBinding.folder, Named(rows))
  /\ ops' = ops + 1
  /\ UNCHANGED <<account, rows, cache, minted, made, contents, marked, queues, bindings,
                 hooks, reports, push, doomed, sync, server, edits, pushes, gone>>

Connect ==
  /\ mgr.at = "idle" /\ account = "disabled" /\ ops < MaxOps
  /\ ops' = ops + 1
  /\ account' = "enabled"
  /\ UNCHANGED <<rows, cache, minted, made, contents, marked, queues, bindings, hooks,
                 reports, mgr, push, doomed, sync, server, edits, pushes, gone>>

(* The provider has been told, and was there or not.  FOLDER_DISABLED may  *)
(* clear the target; without the provider a toggle fails, a teardown does  *)
(* not.                                                                    *)
Told ==
  /\ mgr.at = "told"
  /\ \/ /\ mgr.op \in {"select", "deselect"}
        /\ mgr' = IdleMgr
        /\ UNCHANGED <<account, rows, cache, gone>>
     \/ /\ mgr.op = "select"
        /\ mgr' = [mgr EXCEPT !.at = "update"]
        /\ UNCHANGED <<account, rows, cache, gone>>
     \/ /\ mgr.op = "deselect"
        /\ mgr' = [mgr EXCEPT !.at = "delete"]
        /\ \/ UNCHANGED rows
           \/ /\ rows[mgr.folder] # NoRow
              /\ rows' = [rows EXCEPT ![mgr.folder].target = NoTarget]
        /\ UNCHANGED <<account, cache, gone>>
     \/ /\ mgr.op = "disconnect"
        /\ account' = "disabled"
        /\ cache' = [f \in Folders |-> NoBag]
        /\ gone' = [f \in Folders |-> NoRow]
        /\ mgr' = [mgr EXCEPT !.at = "clear"]
        /\ UNCHANGED rows
     \/ /\ mgr.op = "remove"
        /\ mgr' = [mgr EXCEPT !.at = "clear"]
        /\ UNCHANGED <<account, rows, cache, gone>>
  /\ UNCHANGED <<minted, made, contents, marked, queues, bindings, hooks, reports, push,
                 doomed, sync, server, edits, pushes, ops>>

clearAccount ==
  /\ mgr.at = "clear"
  /\ rows' = [f \in Folders |-> NoRow]
  /\ mgr' = [mgr EXCEPT !.at = "delete"]
  /\ UNCHANGED <<account, cache, minted, made, contents, marked, queues, bindings, hooks,
                 reports, push, doomed, sync, server, edits, pushes, ops, gone>>

deleteTargetsBestEffort(t) ==
  /\ mgr.at = "delete" /\ t \in mgr.targets
  /\ mgr' = [mgr EXCEPT !.targets = @ \ {t}]
  /\ Delete(t)
  /\ UNCHANGED <<account, rows, cache, minted, made, marked, queues, bindings, push,
                 doomed, sync, server, edits, pushes, ops, gone>>

(* What is left of a row when its folder is deselected.                    *)
Deselected(f) == [rows[f] EXCEPT !.selected = FALSE, !.session = minted + 1]

Finished ==
  /\ mgr.at \in {"delete", "update"} /\ (mgr.at = "delete" => mgr.targets = {})
  /\ mgr' = IdleMgr
  /\ LET f == mgr.folder
     IN \/ /\ mgr.op = "select"
           /\ rows' = IF rows[f] = NoRow THEN rows ELSE [rows EXCEPT ![f].selected = TRUE]
           /\ UNCHANGED <<account, cache, minted, gone>>
        \/ /\ mgr.op = "deselect"
           /\ minted < MaxSessions /\ minted' = minted + 1
           /\ rows' = IF rows[f] = NoRow THEN rows ELSE [rows EXCEPT ![f] = Deselected(f)]
           /\ UNCHANGED <<account, cache, gone>>
        \/ /\ mgr.op = "disconnect"
           /\ UNCHANGED <<account, rows, cache, minted, gone>>
        \/ /\ mgr.op = "remove"
           /\ account' = "removed"
           /\ cache' = [g \in Folders |-> NoBag] /\ gone' = [g \in Folders |-> NoRow]
           /\ UNCHANGED <<rows, minted>>
  /\ UNCHANGED <<made, contents, marked, queues, bindings, hooks, reports, push, doomed,
                 sync, server, edits, pushes, ops>>

-----------------------------------------------------------------------------
(* The provider's sync                                                     *)

SyncUnchanged == UNCHANGED <<account, cache, minted, hooks, reports, mgr, push, doomed,
                             edits, pushes, ops, gone>>

(* SYNC_FOLDER comes for a selected folder nobody is toggling; the rows    *)
(* are read from the host.  The host's own storage writes for a report     *)
(* take less time than a toggle and the round trips of a sync.             *)
SyncStart(f) ==
  /\ sync.at = "idle" /\ account = "enabled"
  /\ rows[f] # NoRow /\ rows[f].selected
  /\ Overlap \/ push.at = "idle"
  /\ \A r \in reports : ~(r.at = "clear" /\ r.folder = f)
  /\ mgr.at = "idle" \/ (mgr.op \in {"select", "deselect"} /\ mgr.folder # f)
  /\ sync' = [IdleSync EXCEPT !.at = "remember", !.folder = f, !.seen = rows,
                              !.target = rows[f].target]
  /\ UNCHANGED <<rows, made, contents, marked, queues, bindings, server>> /\ SyncUnchanged

(* rememberBindings                                                        *)
rememberBindings(table) ==
  [t \in Targets |->
     IF t \in Named(table)
     THEN LET f == CHOOSE g \in Folders : table[g] # NoRow /\ table[g].target = t
          IN [folder |-> f, session |-> table[f].session]
     ELSE bindings[t]]

SyncRemember ==
  /\ sync.at = "remember"
  /\ bindings' = rememberBindings(sync.seen)
  /\ sync' = [sync EXCEPT !.at = "sweep"]
  /\ UNCHANGED <<rows, made, contents, marked, queues, server>> /\ SyncUnchanged

(* Mutant: the folder at work is forgotten.                                *)
ClaimedByOthers(table) == {table[f].session : f \in Folders \ {sync.folder}}

(* The sessions the rows name.                                             *)
Claimed(table) == SessionsOf(table)

(* Mutant: only the rows of other folders count.                           *)
OrphanedByOthers(table) ==
  {t \in Targets : bindings[t] # NoBinding}
    \ {table[f].target : f \in Folders \ {sync.folder}}

(* The remembered resources no row points at.                              *)
Orphaned(table) == {t \in Targets : bindings[t] # NoBinding} \ Named(table)

(* sweep, and REPORT_ORPHANED_TARGETS for what it finds: a resource is     *)
(* judged by whether a row points at it.                                   *)
sweep ==
  LET orphans == Orphaned(sync.seen)
  IN /\ sync.at = "sweep"
     /\ queues' = [s \in Sessions |-> IF s \in Claimed(sync.seen) THEN queues[s] ELSE <<>>]
     /\ bindings' = [t \in Targets |-> IF t \in orphans THEN NoBinding ELSE bindings[t]]
     /\ marked' = marked \cup (orphans \cap Resources)
     /\ sync' = [sync EXCEPT !.at = "bind"]
     /\ UNCHANGED <<rows, made, contents, server>> /\ SyncUnchanged

(* The folder is bound to a resource of its own, made if there is none;    *)
(* with the row or the resource gone the sync fails.                       *)
SyncCreate ==
  LET f == sync.folder
  IN /\ sync.at = "bind" /\ sync.target = NoTarget
     /\ made < MaxTargets
     /\ made' = made + 1
     /\ contents' = [contents EXCEPT ![made + 1] = server[f]]
     /\ sync' = [sync EXCEPT !.at = "updateFolder", !.target = made + 1]
     /\ UNCHANGED <<rows, marked, queues, bindings, server>> /\ SyncUnchanged

SyncUpdateFolder ==
  LET f == sync.folder
      bound == rows[f] # NoRow
  IN /\ sync.at = "updateFolder"
     /\ rows' = IF bound THEN [rows EXCEPT ![f].target = sync.target] ELSE rows
     /\ bindings' = IF bound
                    THEN [bindings EXCEPT ![sync.target] =
                            [folder |-> f, session |-> sync.seen[f].session]]
                    ELSE bindings
     /\ sync' = IF bound THEN [sync EXCEPT !.at = "push"] ELSE IdleSync
     /\ UNCHANGED <<made, contents, marked, queues, server>> /\ SyncUnchanged

SyncBound ==
  /\ sync.at = "bind" /\ sync.target # NoTarget
  /\ sync' = IF sync.target \in Resources THEN [sync EXCEPT !.at = "push"] ELSE IdleSync
  /\ UNCHANGED <<rows, made, contents, marked, queues, bindings, server>> /\ SyncUnchanged

Pending == LET s == sync.seen[sync.folder].session
               ready(row) == isUserEntry(row) /\ row.item \notin sync.done
           IN Keeping(queues[s], {k \in DOMAIN queues[s] : ready(queues[s][k])})

(* A deletion is sent as such, an edit as what the resource holds when it  *)
(* is sent.                                                                *)
SyncSend ==
  /\ sync.at = "push" /\ Pending # <<>>
  /\ LET i == Pending[1].item
         now == IF Pending[1].status = "deleted_by_user" \/ contents[sync.target] = NotBound
                THEN "gone" ELSE contents[sync.target][i]
     IN \/ /\ server' = [server EXCEPT ![sync.folder][i] = now]
           /\ sync' = [sync EXCEPT !.at = "settle", !.item = i, !.done = @ \cup {i}]
        \/ /\ UNCHANGED server
           /\ sync' = [sync EXCEPT !.at = "failed", !.item = i, !.done = @ \cup {i}]
  /\ UNCHANGED <<rows, made, contents, marked, queues, bindings>> /\ SyncUnchanged

SyncSettle ==
  LET s == sync.seen[sync.folder].session
      id == Id(sync.target, sync.item)
  IN /\ sync.at \in {"settle", "failed"}
     /\ queues' = [queues EXCEPT ![s] = IF sync.at = "settle" THEN removeEntryUpdater(@, id)
                                        ELSE moveToTailUpdater(@, {id})]
     /\ sync' = [sync EXCEPT !.at = "push"]
     /\ UNCHANGED <<rows, made, contents, marked, bindings, server>> /\ SyncUnchanged

SyncEnd ==
  /\ sync.at = "push" /\ Pending = <<>>
  /\ sync' = IdleSync
  /\ UNCHANGED <<rows, made, contents, marked, queues, bindings, server>> /\ SyncUnchanged

-----------------------------------------------------------------------------
Next ==
  \/ \E listed \in SUBSET Folders : PushFolderList(listed)
  \/ ReplaceFolders
  \/ \E t \in Targets : DeleteDoomed(t) \/ UserDeletes(t) \/ deleteTargetsBestEffort(t)
  \/ \E r \in reports : Report(r) \/ LoseReport(r)
  \/ \E t \in Targets, i \in Items, v \in Versions : UserEdit(t, i, v)
  \/ \E h \in hooks : lookupBinding(h) \/ record(h)
  \/ \E f \in Folders : \/ \E selected \in BOOLEAN : selectFolder(f, selected)
                        \/ setFolderDownloadOnly(f)
  \/ \E op \in {"disconnect", "remove"} : Teardown(op)
  \/ Connect \/ Told \/ clearAccount \/ Finished
  \/ \E f \in Folders : SyncStart(f)
  \/ SyncRemember \/ sweep \/ SyncCreate \/ SyncUpdateFolder \/ SyncBound
  \/ SyncSend \/ SyncSettle \/ SyncEnd

Spec == Init /\ [][Next]_vars

-----------------------------------------------------------------------------
(* Properties                                                              *)

TypeOK ==
  /\ account \in {"enabled", "disabled", "removed"}
  /\ rows \in [Folders -> {NoRow} \cup
                 [selected : BOOLEAN, downloadOnly : BOOLEAN,
                  target : Targets \cup {NoTarget}, session : Sessions]]
  /\ cache \in [Folders -> {NoBag, "download only", "plain"}]
  /\ minted \in 0..MaxSessions /\ made \in 0..MaxTargets
  /\ contents \in [Targets -> {NotBound} \cup [Items -> Versions]]
  /\ {marked, doomed, mgr.targets} \subseteq SUBSET Targets
  /\ \A s \in Sessions : \A k \in DOMAIN queues[s] :
       queues[s][k].parent \in Targets /\ queues[s][k].item \in Items
  /\ bindings \in [Targets -> [folder : Folders, session : 0..MaxSessions]]
  /\ server \in [Folders -> [Items -> Versions]]

(* What the user did, and only that, reaches the server: Ledger.           *)
LocalCopy(f) ==
  IF rows[f] = NoRow \/ rows[f].target \notin Resources THEN NotBound
  ELSE contents[rows[f].target]
OwedItems(f) ==
  IF LocalCopy(f) = NotBound THEN {}
  ELSE {i \in Items :
          \/ UserStatus(queues[rows[f].session], Id(rows[f].target, i)) # NoStatus
          \/ \E h \in hooks : h.target = rows[f].target /\ h.item = i}
Owed == INSTANCE Ledger WITH
  Unbound <- NotBound,
  local <- [f \in Folders |-> LocalCopy(f)],
  remote <- server,
  owed <- [f \in Folders |-> OwedItems(f)]
ImplementsLedger == Owed!Spec

(* A sweep never takes a queue that a row names.                           *)
NamedQueuesKept ==
  [][\A f \in Folders :
       (rows[f] # NoRow /\ sync.at = "sweep" /\ sync'.at = "bind")
         => queues'[rows[f].session] = queues[rows[f].session]]_vars

(* Nothing a folder row points at is marked as orphaned.                   *)
OrphansUnnamed == marked \cap Named(rows) = {}

(* A folder the server drops and lists again comes back as the user left   *)
(* it, unless the account was disconnected in between.                     *)
CustomisationKept ==
  [][\A f \in Folders :
       (gone[f] # NoRow /\ rows[f] = NoRow /\ rows'[f] # NoRow)
         => rows'[f].selected /\ rows'[f].downloadOnly = gone[f].downloadOnly]_vars
=============================================================================
