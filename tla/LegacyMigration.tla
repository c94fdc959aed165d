---------------------------- MODULE LegacyMigration ----------------------------
(***************************************************************************)
(* An account carried over from the old version, from the boot that        *)
(* imports it to the moment it is let go: the import of                    *)
(* legacy-migration-runner.mjs, the freeze and the rescue of the boot in   *)
(* background.mjs, the migration window, the rebuild, the replay, the      *)
(* lift of the lock, and the two ways round it, disconnecting and          *)
(* removing.                                                               *)
(*                                                                         *)
(* What the old version queued and never sent lives nowhere but in the     *)
(* local books, which are about to be replaced.  The host may stop between *)
(* any two steps; what it keeps in storage and what Thunderbird keeps      *)
(* stays.  External: the server, the provider's part, the user.            *)
(***************************************************************************)
EXTENDS LegacyRescue

CONSTANTS
  Histories,     \* for each card, what the old changelog may hold about it
  BootMayDie,    \* whether boot may fail in the middle of the conversion
  PullMayFail,   \* whether the pull of a rebuilt folder may fail
  MaxMishaps     \* bound: restarts, refused commands, closed windows

(* The user adds what is not there, and changes or deletes what is.        *)
Lawful(h) ==
  /\ h \in Seq([at : Nat, op : Ops, by : {"user", "server"}])
  /\ \A k \in Edits(h) :
       EarlierThan(h, k) # {} =>
         (h[k].op = "added" <=> h[LastOf(h, EarlierThan(h, k))].op = "deleted")

ASSUME MigrationAssumption ==
  /\ \A c \in Cards : \A h \in Histories[c] : Lawful(h)
  /\ {BootMayDie, PullMayFail} \subseteq BOOLEAN
  /\ MaxMishaps \in Nat

VARIABLES
  rows,        \* the old changelog, for each card
  server,      \* the cards the server still has
  disk,        \* which of tbsync.accounts, .folders and .migration is written
  acc,         \* the account record: exists, enabled, imported, replay
  listed, selected, bound,  \* its folder rows, those selected, and those with a targetID
  res,         \* the books: "original", "gone", "empty", "pulled"
  local,       \* what they hold of each card
  lists,       \* the mailing lists they hold
  frozen,      \* the books that are read-only
  rescue,      \* tbsync.legacyRescue: the entries kept, or NoRescue
  host,        \* where boot stands, "up" in the end
  job,         \* the call that rebuilds or replays, under migratingAccounts
  dialog,      \* the migration window
  offer,       \* what it offers to put back
  teardown,    \* the call that disconnects or removes
  taken,       \* what the user chose, once the account was let go
  mishaps

bookVars == <<res, local, lists, frozen>>
rowVars == <<listed, selected, bound>>
callVars == <<job, dialog, offer, teardown>>
vars == <<rows, server, disk, acc, rowVars, bookVars, rescue, host, callVars, taken, mishaps>>

NoRescue == {Entry(None, None, {})}     \* an absent record is not an empty one
NotYet == {None}
NoJob == [at |-> "idle", left |-> {}, f |-> None, take |-> {}]

-----------------------------------------------------------------------------
(* The past                                                                *)

Owed == [c \in Cards |-> parseLegacyChangelog(rows[c])]

Mine(c) == {k \in DOMAIN rows[c] : rows[c][k].by = "user"}
Earliest(c) == rows[c][FirstOf(rows[c], Mine(c))]
Latest(c) == rows[c][LastOf(rows[c], Mine(c))]
Edited(c) == Mine(c) # {}
Known(c) == ~Edited(c) \/ Earliest(c).op # "added"
Present(c) == ~Edited(c) \/ Latest(c).op # "deleted"

(* What the server has to be told, in terms of what was and what is.       *)
Net(c) == CASE ~Edited(c) \/ (~Known(c) /\ ~Present(c)) -> None
            [] Known(c) /\ ~Present(c) -> "deleted"
            [] Edited(c) /\ Known(c) /\ Present(c) -> "modified"
            [] ~Known(c) /\ Present(c) -> "added"

(* A card in its book: the server's copy, whether in the user's version,   *)
(* and copies without a stamp.                                             *)
Card(held, mine, made) == [held |-> held, mine |-> mine, made |-> made]
Nothing == Card(FALSE, FALSE, 0)
Original(c) == Card(Known(c) /\ Present(c), Edited(c) /\ Known(c) /\ Present(c),
                    IF ~Known(c) /\ Present(c) THEN 1 ELSE 0)
There(c) == local[c].held \/ local[c].made > 0
InFolder(f) == {c \in Cards : In[c] = f}

Init ==
  /\ rows \in {h \in [Cards -> UNION {Histories[c] : c \in Cards}] :
                \A c \in Cards : h[c] \in Histories[c]}
  /\ server \in SUBSET {c \in Cards : Known(c)}
  /\ disk = [accounts |-> FALSE, folders |-> FALSE, done |-> FALSE]
  /\ acc = [exists |-> FALSE, enabled |-> FALSE, imported |-> FALSE, replay |-> FALSE]
  /\ listed = {} /\ selected = {} /\ bound = {}
  /\ res = [f \in Folders |-> "original"]
  /\ local = [c \in Cards |-> Original(c)]
  /\ lists = {[of |-> l, members |-> {c \in Members[l] : Present(c)}] : l \in Lists}
  /\ frozen = {}
  /\ rescue = NoRescue
  /\ host = "off"
  /\ job = NoJob /\ dialog = "closed" /\ offer = {} /\ teardown = "idle"
  /\ taken = NotYet
  /\ mishaps = 0

Mishap == mishaps < MaxMishaps /\ mishaps' = mishaps + 1

-----------------------------------------------------------------------------
(* Boot                                                                    *)

BootUnchanged == UNCHANGED <<rows, server, selected, res, local, lists, callVars, taken>>

(* runIfNeeded: a marker, or accounts of any origin, end it; else the      *)
(* accounts are written, and then the folders.                             *)
runIfNeeded ==
  /\ host = "off"
  /\ IF disk.done \/ disk.accounts
     THEN /\ host' = "freeze"
          /\ disk' = [disk EXCEPT !.done = TRUE]
          /\ UNCHANGED acc
     ELSE /\ host' = "folders"
          /\ disk' = [disk EXCEPT !.accounts = TRUE]
          /\ acc' = [exists |-> TRUE, enabled |-> TRUE, imported |-> TRUE, replay |-> TRUE]
  /\ UNCHANGED <<rows, server, rowVars, bookVars, rescue, callVars, taken, mishaps>>

migrateFolders ==
  /\ host = "folders"
  /\ host' = "freeze"
  /\ \/ /\ disk' = [disk EXCEPT !.folders = TRUE]
        /\ listed' = Folders /\ selected' = Folders /\ bound' = Folders
        /\ UNCHANGED mishaps
     \/ /\ BootMayDie /\ Mishap
        /\ UNCHANGED <<disk, rowVars>>
  /\ UNCHANGED <<rows, server, acc, bookVars, rescue, callVars, taken>>

(* Mutant: every book is frozen, whoever it belongs to.                    *)
FreezeAll(a) == TRUE

MustFreeze(a) == a.imported

freezeLegacyTargets ==
  /\ host = "freeze"
  /\ host' = "rescue"
  /\ frozen' = IF acc.exists /\ MustFreeze(acc) THEN frozen \cup bound ELSE frozen
  /\ BootUnchanged /\ UNCHANGED <<disk, acc, listed, bound, rescue, mishaps>>

(* Mutant: every boot takes the reading again.                             *)
Reread(kept) == acc.imported

NotYetRead(kept) == acc.imported /\ kept = NoRescue

(* rescueLegacyEdits: one write of all entries; if none is owed, the hold  *)
(* on the disconnect comes off after it.                                   *)
rescueLegacyEdits ==
  /\ host = "rescue"
  /\ IF ~(acc.exists /\ NotYetRead(rescue))
     THEN /\ host' = "up"
          /\ UNCHANGED rescue
     ELSE LET nodes == {c \in Cards : There(c)}
          IN /\ rescue' = UNION {Rescued(Owed, f, nodes \cap InFolder(f)) : f \in bound}
             /\ host' = IF countHeld(rescue') = 0 THEN "release" ELSE "up"
  /\ BootUnchanged /\ UNCHANGED <<disk, acc, listed, bound, frozen, mishaps>>

(* Mutant: finding nothing does not end the hold.                          *)
HoldOn == acc

Released == [acc EXCEPT !.replay = FALSE]

releaseHold ==
  /\ host = "release"
  /\ host' = "up"
  /\ acc' = Released
  /\ BootUnchanged /\ UNCHANGED <<disk, listed, bound, frozen, rescue, mishaps>>

(* All that is only in memory is gone.                                     *)
Restart ==
  /\ host \in IF BootMayDie THEN {"folders", "freeze", "rescue", "release", "up"}
                            ELSE {"freeze", "rescue", "up"}
  /\ Mishap
  /\ host' = "off"
  /\ job' = NoJob /\ dialog' = "closed" /\ offer' = {} /\ teardown' = "idle"
  /\ UNCHANGED <<rows, server, disk, acc, rowVars, bookVars, rescue, taken>>

Boot == \/ runIfNeeded \/ migrateFolders \/ freezeLegacyTargets \/ rescueLegacyEdits
        \/ releaseHold

-----------------------------------------------------------------------------
(* The window and the rebuild                                              *)

Held == IF rescue = NoRescue THEN 0 ELSE countHeld(rescue)
canMigrate == acc.exists /\ acc.enabled /\ acc.imported /\ Held > 0 /\ teardown = "idle"
canDisconnect == acc.exists /\ acc.enabled /\ ~acc.replay

WindowUnchanged == UNCHANGED <<rows, server, disk, acc, rowVars, bookVars, rescue, host,
                               teardown, taken>>

openMigrationDialog ==
  /\ host = "up" /\ dialog = "closed" /\ canMigrate
  /\ dialog' = "intro"
  /\ UNCHANGED <<job, offer, mishaps>> /\ WindowUnchanged

CloseWindow ==
  /\ dialog # "closed"
  /\ dialog' = "closed" /\ offer' = {}
  /\ IF dialog = "done" THEN UNCHANGED mishaps ELSE Mishap
  /\ UNCHANGED job /\ WindowUnchanged

(* startMigration: the rows that are selected and bound, as they are now.  *)
startMigration ==
  /\ host = "up" /\ dialog = "intro" /\ job.at = "idle"
  /\ acc.exists /\ acc.imported
  /\ job' = [NoJob EXCEPT !.at = "next", !.left = selected \cap bound]
  /\ dialog' = "running"
  /\ UNCHANGED <<offer, mishaps>> /\ WindowUnchanged

JobUnchanged == UNCHANGED <<rows, server, disk, host, teardown>>
JobAt(at) == job' = [job EXCEPT !.at = at]
JobOver(to) == /\ job' = NoJob
               /\ dialog' = IF dialog = "closed" THEN dialog ELSE to

(* A step that throws ends the job; the window is back at the start.       *)
JobFails ==
  /\ job.at \in {"next", "enable"} /\ job.left # {}
  /\ Mishap
  /\ JobOver("intro")
  /\ UNCHANGED <<acc, rowVars, bookVars, rescue, offer, taken>> /\ JobUnchanged

(* thawLegacyTargets, then FOLDER_DISABLED, in which the provider clears   *)
(* the binding; a row that has gone throws.                                *)
thawLegacyTargets == frozen' = frozen \ bound

disableFolder(f) ==
  /\ job.at = "next" /\ f \in job.left
  /\ IF f \notin listed
     THEN /\ JobOver("intro")
          /\ UNCHANGED <<bound, frozen>>
     ELSE /\ thawLegacyTargets
          /\ bound' = bound \ {f}
          /\ job' = [job EXCEPT !.at = "delete", !.f = f]
          /\ UNCHANGED dialog
  /\ UNCHANGED <<acc, listed, selected, res, local, lists, rescue, offer, taken, mishaps>>
  /\ JobUnchanged

(* The book of f goes, and all that is in it.                              *)
Emptied(fs) ==
  /\ local' = [c \in Cards |-> IF In[c] \in fs THEN Nothing ELSE local[c]]
  /\ lists' = {l \in lists : In[l.of] \notin fs}
  /\ frozen' = frozen \ fs

deleteTarget ==
  /\ job.at = "delete"
  /\ res' = [res EXCEPT ![job.f] = "gone"]
  /\ Emptied({job.f})
  /\ JobAt("deselect")
  /\ UNCHANGED <<acc, rowVars, rescue, dialog, offer, taken, mishaps>> /\ JobUnchanged

deselectFolder ==
  /\ job.at = "deselect"
  /\ selected' = selected \ {job.f}
  /\ JobAt("enable")
  /\ UNCHANGED <<acc, listed, bound, bookVars, rescue, dialog, offer, taken, mishaps>>
  /\ JobUnchanged

(* FOLDER_ENABLED, and the row again.                                      *)
enableFolder ==
  /\ job.at = "enable"
  /\ IF job.f \notin listed
     THEN JobOver("intro") /\ UNCHANGED selected
     ELSE /\ selected' = selected \cup {job.f}
          /\ JobAt("sync") /\ UNCHANGED dialog
  /\ UNCHANGED <<acc, listed, bound, bookVars, rescue, offer, taken, mishaps>>
  /\ JobUnchanged

(* syncAccount of the one folder: it binds a new book and pulls all the    *)
(* server has.  It reports nothing: an account that cannot be synced, or a *)
(* pull that breaks off, leaves the folder unbound or its book empty.      *)
Pulled(c) == Card(c \in server, FALSE, 0)

syncFolder ==
  LET f == job.f
      next == [job EXCEPT !.at = "next", !.left = @ \ {f}]
  IN /\ job.at = "sync"
     /\ job' = next
     /\ \/ /\ teardown = "idle" /\ f \in listed
           /\ bound' = bound \cup {f}
           /\ res' = [res EXCEPT ![f] = "pulled"]
           /\ local' = [c \in Cards |-> IF In[c] = f THEN Pulled(c) ELSE local[c]]
           /\ UNCHANGED mishaps
        \/ /\ PullMayFail /\ Mishap
           /\ teardown = "idle" /\ f \in listed
           /\ bound' = bound \cup {f}
           /\ res' = [res EXCEPT ![f] = "empty"]
           /\ UNCHANGED local
        \/ /\ teardown # "idle" \/ f \notin listed
           /\ UNCHANGED <<bound, res, local, mishaps>>
     /\ UNCHANGED <<acc, listed, selected, lists, frozen, rescue, dialog, offer, taken>>
     /\ JobUnchanged

(* describeLegacyReplay: what each entry of a bound folder can still do.   *)
Kept == IF rescue = NoRescue THEN {} ELSE rescue
HeldCards == {c \in Cards : local[c].held}

getRescueBackup(f) == backupFiles(Kept, f)

describeLegacyReplay ==
  /\ job.at = "next" /\ job.left = {}
  /\ JobOver("replay")
  /\ offer' = IF dialog = "closed" THEN {}
              ELSE {e.of : e \in {k \in Kept : /\ In[k.of] \in bound
                                               /\ k.op # "context"
                                               /\ effectiveOp(k, HeldCards) # None}}
  /\ UNCHANGED <<acc, rowVars, bookVars, rescue, taken, mishaps>> /\ JobUnchanged

-----------------------------------------------------------------------------
(* The replay                                                              *)

applyMigration ==
  /\ dialog = "replay" /\ job.at = "idle" /\ acc.exists
  /\ \E take \in SUBSET offer :
       job' = [at |-> "replay", left |-> {In[e.of] : e \in Kept}, f |-> None, take |-> take]
  /\ dialog' = "applying"
  /\ UNCHANGED <<offer, mishaps>> /\ WindowUnchanged

(* What an update leaves alone, and what a creation takes off: the card    *)
(* keeps its stamp and its place, or is a copy without any.                *)
transplantIdentity(old) == [old EXCEPT !.mine = old.held]
stripIdentity(old) == [old EXCEPT !.made = @ + 1]
deleteContact(old) == [old EXCEPT !.held = FALSE, !.mine = FALSE]

(* Mutant: a change is written as it was recorded.                         *)
ReplayAsRecorded(e) ==
  CASE e.op = "added" -> stripIdentity(local[e.of])
    [] e.op = "modified" -> transplantIdentity(local[e.of])
    [] OTHER -> deleteContact(local[e.of])

(* replayOne, on a card.                                                   *)
replayOne(e) ==
  LET op == effectiveOp(e, HeldCards)
  IN CASE op = "added" -> stripIdentity(local[e.of])
       [] op = "modified" -> transplantIdentity(local[e.of])
       [] op = "deleted" -> deleteContact(local[e.of])
       [] op = None -> local[e.of]

(* Mutant: a list is put back before the cards it names.                   *)
FoundBefore(names, after) == {n.card : n \in {k \in names : k.card \in HeldCards}}

(* restoreMailingLists, after the cards: a member goes by the server's id  *)
(* or by the entry that re-creates it, found in byServerId and createdIds. *)
Found(names, after) ==
  {n.card : n \in {k \in names : after[k.card].held \/ after[k.card].made > 0}}

applyLegacyReplay(f) ==
  LET mine == {e \in Kept : In[e.of] = f /\ e.of \in job.take /\ e.op # "context"}
      after == [c \in Cards |->
                  IF \E e \in mine : e.of = c
                  THEN replayOne(CHOOSE e \in mine : e.of = c) ELSE local[c]]
  IN /\ job.at = "replay" /\ f \in job.left
     /\ job' = [job EXCEPT !.left = @ \ {f}]
     /\ IF f \notin bound THEN UNCHANGED <<local, lists>>
        ELSE /\ local' = after
             /\ lists' = lists \cup {[of |-> e.of, members |-> Found(e.names, after)] :
                                       e \in {k \in mine : k.of \in Lists}}
     /\ UNCHANGED <<acc, rowVars, res, frozen, rescue, dialog, offer, taken, mishaps>>
     /\ JobUnchanged

(* liftLegacyLock: the books are writable again, the flags go, and then    *)
(* dropLegacyRescue.                                                       *)
liftThaw ==
  /\ job.at = "replay" /\ job.left = {}
  /\ thawLegacyTargets
  /\ JobAt("flags")
  /\ UNCHANGED <<acc, rowVars, res, local, lists, rescue, dialog, offer, taken, mishaps>>
  /\ JobUnchanged

Unlocked == [acc EXCEPT !.imported = FALSE, !.replay = FALSE]

liftFlags ==
  /\ job.at = "flags"
  /\ acc' = Unlocked
  /\ taken' = IF acc.exists THEN job.take ELSE taken
  /\ JobAt("drop")
  /\ UNCHANGED <<rowVars, bookVars, rescue, dialog, offer, mishaps>> /\ JobUnchanged

dropLegacyRescue ==
  /\ job.at = "drop"
  /\ rescue' = NoRescue
  /\ JobOver("done")
  /\ UNCHANGED <<acc, rowVars, bookVars, offer, taken, mishaps>> /\ JobUnchanged

Job == \/ \E f \in job.left : disableFolder(f) \/ applyLegacyReplay(f)
       \/ deleteTarget \/ deselectFolder \/ enableFolder \/ syncFolder
       \/ describeLegacyReplay \/ liftThaw \/ liftFlags \/ dropLegacyRescue

-----------------------------------------------------------------------------
(* The two ways round it                                                   *)

TeardownUnchanged == UNCHANGED <<rows, server, disk, host, job, dialog, offer, taken, mishaps>>

(* setAccountEnabled(false) refuses while something is owed; deleteAccount *)
(* refuses nothing.                                                        *)
setAccountEnabled ==
  /\ host = "up" /\ teardown = "idle" /\ canDisconnect
  /\ teardown' = "disable"
  /\ UNCHANGED <<acc, rowVars, bookVars, rescue>> /\ TeardownUnchanged

(* Connecting again, after a disconnect that was cut short.                *)
ConnectAgain ==
  /\ host = "up" /\ teardown = "idle"
  /\ acc.exists /\ acc.imported /\ ~acc.enabled
  /\ acc' = [acc EXCEPT !.enabled = TRUE]
  /\ UNCHANGED <<rowVars, bookVars, rescue, teardown>> /\ TeardownUnchanged

deleteAccount ==
  /\ host = "up" /\ teardown = "idle" /\ acc.exists
  /\ teardown' = "clearRemove"
  /\ UNCHANGED <<acc, rowVars, bookVars, rescue>> /\ TeardownUnchanged

(* The lift on the way: thaw, flags, rescue, if anything was to lift.      *)
TeardownDisable ==
  /\ teardown = "disable"
  /\ acc' = [acc EXCEPT !.enabled = FALSE]
  /\ teardown' = IF acc.imported \/ acc.replay THEN "flags" ELSE "clear"
  /\ IF teardown' = "flags" THEN thawLegacyTargets ELSE UNCHANGED frozen
  /\ UNCHANGED <<rowVars, res, local, lists, rescue>> /\ TeardownUnchanged

TeardownFlags ==
  /\ teardown = "flags"
  /\ acc' = Unlocked
  /\ teardown' = "drop"
  /\ UNCHANGED <<rowVars, bookVars, rescue>> /\ TeardownUnchanged

TeardownDrop ==
  /\ teardown \in {"drop", "dropRemove"}
  /\ rescue' = NoRescue
  /\ teardown' = IF teardown = "drop" THEN "clear" ELSE "remove"
  /\ UNCHANGED <<acc, rowVars, bookVars>> /\ TeardownUnchanged

(* clearAccount, and then the books the rows named.                        *)
TeardownClear ==
  /\ teardown \in {"clear", "clearRemove"}
  /\ listed' = {} /\ selected' = {} /\ bound' = {}
  /\ res' = [f \in Folders |-> IF f \in bound THEN "gone" ELSE res[f]]
  /\ Emptied(bound)
  /\ teardown' = IF teardown = "clear" THEN "idle" ELSE "dropRemove"
  /\ UNCHANGED <<acc, rescue>> /\ TeardownUnchanged

TeardownRemove ==
  /\ teardown = "remove"
  /\ acc' = [acc EXCEPT !.exists = FALSE, !.enabled = FALSE, !.imported = FALSE,
                        !.replay = FALSE]
  /\ teardown' = "idle"
  /\ UNCHANGED <<rowVars, bookVars, rescue>> /\ TeardownUnchanged

Teardown == TeardownDisable \/ TeardownFlags \/ TeardownDrop \/ TeardownClear \/ TeardownRemove

-----------------------------------------------------------------------------
User == openMigrationDialog \/ startMigration \/ applyMigration

Next == \/ Boot \/ Restart \/ User \/ CloseWindow \/ Job \/ JobFails
        \/ setAccountEnabled \/ ConnectAgain \/ deleteAccount \/ Teardown

Spec == Init /\ [][Next]_vars

(* Boot and the calls run on; a user who is offered a way out takes it.    *)
FairSpec == /\ Spec
            /\ WF_vars(Boot) /\ WF_vars(Job) /\ WF_vars(Teardown)
            /\ WF_vars(User) /\ WF_vars(ConnectAgain)
            /\ WF_vars(acc.imported /\ setAccountEnabled)

-----------------------------------------------------------------------------
(* Properties                                                              *)

Copies == [held : BOOLEAN, mine : BOOLEAN, made : 0..1]

TypeOK ==
  /\ disk \in [accounts : BOOLEAN, folders : BOOLEAN, done : BOOLEAN]
  /\ acc \in [exists : BOOLEAN, enabled : BOOLEAN, imported : BOOLEAN, replay : BOOLEAN]
  /\ {listed, selected, bound, frozen} \subseteq SUBSET Folders
  /\ res \in [Folders -> {"original", "gone", "empty", "pulled"}]
  /\ local \in [Cards -> Copies]
  /\ \A l \in lists : l.of \in Lists /\ l.members \subseteq Cards
  /\ rescue # NoRescue => \A e \in rescue : /\ e.op \in Ops \cup {"context"}
                                             /\ \A d \in rescue : e.of = d.of => e = d
  /\ host \in {"off", "folders", "freeze", "rescue", "release", "up"}
  /\ job.at \in {"idle", "next", "delete", "deselect", "enable", "sync", "replay", "flags",
                 "drop"}
  /\ dialog \in {"closed", "intro", "running", "replay", "applying", "done"}
  /\ offer \subseteq Cards \cup Lists

(* Until the user has the account disconnected or removed, or is through   *)
(* with the migration, everything the old version owed the server can      *)
(* still be given back: it is in the rescue as what it amounts to, or the  *)
(* books are as the old version left them.                                 *)
Carried == acc.imported /\ teardown = "idle" /\ listed = Folders

EditsKept ==
  Carried => \A c \in Cards : Net(c) # None =>
    \/ \E e \in Kept : e.of = c /\ e.op = Net(c)
    \/ /\ rescue = NoRescue /\ res[In[c]] = "original"
       /\ local[c] = Original(c)

(* Once the account is let go, each rebuilt book holds what the user chose:*)
(* of a change put back exactly one copy, in the user's version and never  *)
(* twice; of one that was not taken, nothing but the server's version.     *)
Settled == taken # NotYet /\ teardown = "idle" /\ listed = Folders

Versions(c) == local[c].made + (IF local[c].held /\ local[c].mine THEN 1 ELSE 0)

RestoredAsChosen ==
  Settled => \A c \in Cards : In[c] \in bound =>
    IF c \in taken /\ Net(c) # "deleted"
    THEN Versions(c) = 1 /\ (local[c].made > 0 => ~local[c].held)
    ELSE Versions(c) = 0 /\ (c \in taken => ~local[c].held)

(* And everything that can still be put back was offered: nothing but a    *)
(* deletion that has happened by itself falls away.                        *)
EverythingOffered ==
  dialog = "replay" /\ teardown = "idle" /\ listed = Folders =>
    \A c \in Cards : In[c] \in bound /\ Net(c) # None =>
      c \in offer \/ (Net(c) = "deleted" /\ c \notin server)

(* A mailing list that was put back names just those of its cards that are *)
(* in the book again; in the backup it names every card it had.            *)
ListsWhole ==
  /\ Settled => \A l \in Lists \cap taken :
       [of |-> l, members |-> {c \in Members[l] : Present(c) /\ There(c)}] \in lists
  /\ \A f \in Folders : \A b \in getRescueBackup(f) :
       b.of \in Lists => b.members = {c \in Members[b.of] : Present(c)}

(* A carried-over account is let go in the end, through the migration, or  *)
(* by the disconnect if nothing was owed; and none of its books is left    *)
(* read-only by a lock that is off, not after a restart.                   *)
LetGo == <>[](~acc.imported /\ (acc.exists => frozen \cap bound = {}))

(* "All of them are kept, not only the ones somebody edited"               *)
(* (rescueMailingLists): no book with a mailing list is replaced unless    *)
(* the list is in the rescue.                                              *)
ListsKept ==
  Carried => \A l \in Lists :
    (\E e \in Kept : e.of = l) \/ res[In[l]] = "original"

(* "Your resources have been rebuilt from the server": what the window     *)
(* offers, it offers against books that were pulled.                       *)
OfferedOnPulled ==
  dialog = "replay" => \A x \in offer : res[In[x]] = "pulled"

(* "A run that dies half way is retried on the next boot rather than       *)
(* remembered as done" (runIfNeeded).                                      *)
ImportRetried == disk.done => disk.folders
=============================================================================
