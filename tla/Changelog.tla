------------------------------- MODULE Changelog -------------------------------
(***************************************************************************)
(* The changelog of one folder, src/common/protocol/changelog-core.mjs: a  *)
(* sequence of rows, each a pending fact about one item, and the pure      *)
(* functions from changelog to changelog that the host and every provider  *)
(* share.  There is no state here; Sessions and ContactsObserver keep      *)
(* changelogs and change them with these operators.                        *)
(*                                                                         *)
(* An item is known by id == [parent, item, kind].  A row is such an id    *)
(* with a status, the detail of the edit, and "fresh": whether the row is  *)
(* younger than FREEZE_MS.  Only pre-tags are ever asked for their age, so *)
(* every other row is born not fresh.                                      *)
(***************************************************************************)
EXTENDS Naturals, Sequences, SequencesExt

BY_USER == "by_user"
BY_SERVER == "by_server"
FOR_SENDMAIL == "for_sendMail"

UserStatuses == {"added_by_user", "modified_by_user", "deleted_by_user"}
SERVER_TAG_STATUSES ==
  {"added_by_server", "modified_by_server", "deleted_by_server"}
SENDMAIL_STATUSES == {"added_for_sendMail", "modified_for_sendMail"}
Statuses == UserStatuses \cup SERVER_TAG_STATUSES \cup SENDMAIL_STATUSES

Ops == {"created", "updated", "deleted"}

OP_FOR_TAG == [added_by_server    |-> "created",
               modified_by_server |-> "updated",
               deleted_by_server  |-> "deleted"]

(* The detail of a row that has none, and the status of no row.            *)
NoDetail == "none"
NoStatus == "none"

familyOf(status) ==
  CASE status \in UserStatuses        -> BY_USER
    [] status \in SERVER_TAG_STATUSES -> BY_SERVER
    [] status \in SENDMAIL_STATUSES   -> FOR_SENDMAIL

isUserEntry(row) == familyOf(row.status) = BY_USER

Row(id, status, fresh, detail) ==
  [parent |-> id.parent, item |-> id.item, kind |-> id.kind,
   status |-> status, fresh |-> fresh, detail |-> detail]

sameRow(row, id, family) ==
  /\ row.parent = id.parent
  /\ row.item = id.item
  /\ row.kind = id.kind
  /\ familyOf(row.status) = family

(* Where the row of the item in the family is; 0: nowhere.                 *)
IndexOfRow(entries, id, family) ==
  SelectInSeq(entries, LAMBDA r : sameRow(r, id, family))

(* The entries at these places, in the order they have.  It is SelectSeq   *)
(* as a function, which proofs can be made about.                          *)
Keeping(entries, places) ==
  LET kept[k \in 0..Len(entries)] ==
        IF k = 0 THEN <<>>
        ELSE IF k \in places THEN Append(kept[k - 1], entries[k]) ELSE kept[k - 1]
  IN kept[Len(entries)]

Drop(entries, id, family) ==
  Keeping(entries, {k \in DOMAIN entries : ~sameRow(entries[k], id, family)})

UserEntries(entries) == Keeping(entries, {k \in DOMAIN entries : isUserEntry(entries[k])})

-----------------------------------------------------------------------------
(* The user-edit state machine                                             *)

(* The next status of an item's user row; "skip" leaves the row alone,     *)
(* "drop" removes it.                                                      *)
decideUserStatus(op, prior) ==
  CASE op = "created" /\ prior = "added_by_user"    -> "skip"
    [] op = "created" /\ prior = "deleted_by_user"  -> "modified_by_user"
    [] op = "created" /\ prior \notin {"added_by_user", "deleted_by_user"}
                                                    -> "added_by_user"
    [] op = "updated" /\ prior \in {"added_by_user", "modified_by_user"}
                                                    -> "skip"
    [] op = "updated" /\ prior \notin {"added_by_user", "modified_by_user"}
                                                    -> "modified_by_user"
    [] op = "deleted" /\ prior = "added_by_user"    -> "drop"
    [] op = "deleted" /\ prior = "deleted_by_user"  -> "skip"
    [] op = "deleted" /\ prior \notin {"added_by_user", "deleted_by_user"}
                                                    -> "deleted_by_user"

UserStatus(entries, id) ==
  LET i == IndexOfRow(entries, id, BY_USER)
  IN IF i = 0 THEN NoStatus ELSE entries[i].status

removeSendMailUpdater(entries, id) == Drop(entries, id, FOR_SENDMAIL)

dropSendMailOnDelete(entries, id, op) ==
  IF op = "deleted" THEN removeSendMailUpdater(entries, id) ELSE entries

(* Put the item's user row, with its next status, at the tail.             *)
Restated(entries, id, op, next, detail) ==
  LET without == dropSendMailOnDelete(Drop(entries, id, BY_USER), id, op)
  IN IF next = "drop" THEN without
                      ELSE Append(without, Row(id, next, FALSE, detail))

applyUserTransition(entries, id, op, prior) ==
  LET next == decideUserStatus(op, prior)
  IN IF next = "skip" THEN entries
                      ELSE Restated(entries, id, op, next, NoDetail)

(* Whether the row announces the list that was just created: its id was    *)
(* not known, so it was announced by name.                                 *)
AnnouncedByName(row, id, name) ==
  /\ row.parent = id.parent
  /\ row.kind = "list-by-name"
  /\ row.item = name
  /\ familyOf(row.status) = BY_SERVER
  /\ row.fresh

(* Mutant: a pre-tag is consumed however old it is.                        *)
ConsumingStale(entries, id, name, op) ==
  LET exact == IndexOfRow(entries, id, BY_SERVER)
  IN IF exact # 0 /\ OP_FOR_TAG[entries[exact].status] = op
     THEN RemoveAt(entries, exact)
     ELSE applyUserTransition(entries, id, op, UserStatus(entries, id))

(* An observed event: consume the pre-tag that announced it, ignore it     *)
(* while a pre-tag announces something else, or record it as the user's.   *)
applyEvent(entries, id, name, op) ==
  LET exact == IndexOfRow(entries, id, BY_SERVER)
      prior == UserStatus(entries, id)
      named == IF id.kind = "list" /\ op = "created"
               THEN SelectInSeq(entries, LAMBDA r : AnnouncedByName(r, id, name))
               ELSE 0
  IN CASE exact # 0 /\ entries[exact].fresh ->
            IF OP_FOR_TAG[entries[exact].status] = op
            THEN RemoveAt(entries, exact) ELSE entries
       [] exact # 0 /\ ~entries[exact].fresh ->
            applyUserTransition(RemoveAt(entries, exact), id, op, prior)
       [] exact = 0 /\ named # 0 -> RemoveAt(entries, named)
       [] exact = 0 /\ named = 0 -> applyUserTransition(entries, id, op, prior)

(* What the user sees of a changelog; a badge is repainted when it differs.*)
UserFacing(entries) ==
  LET rows == UserEntries(entries)
  IN [i \in DOMAIN rows |-> [parent |-> rows[i].parent, item |-> rows[i].item,
                             kind |-> rows[i].kind, status |-> rows[i].status]]
userFacingDiffers(before, after) == UserFacing(before) # UserFacing(after)

findConsumableServerTag(entries, id, op) ==
  SelectInSeq(entries, LAMBDA r : /\ sameRow(r, id, BY_SERVER)
                                  /\ OP_FOR_TAG[r.status] = op)

-----------------------------------------------------------------------------
(* Updaters                                                                *)

(* Fold an edit into what is queued; the detail of the earliest edit since *)
(* the last push stands.                                                   *)
recordUserEditUpdater(entries, id, op, detail) ==
  LET i == IndexOfRow(entries, id, BY_USER)
      next == decideUserStatus(op, UserStatus(entries, id))
      known == IF i = 0 THEN NoDetail ELSE entries[i].detail
      kept == IF known # NoDetail THEN known ELSE detail
  IN CASE next = "skip" /\ i = 0 -> entries
       [] next = "skip" /\ i # 0 -> [entries EXCEPT ![i].detail = kept]
       [] OTHER -> Restated(entries, id, op, next, kept)

(* Note that the item owes a message; the first note stands.               *)
recordSendMailUpdater(entries, id, status, detail) ==
  IF IndexOfRow(entries, id, FOR_SENDMAIL) # 0 THEN entries
  ELSE Append(entries, Row(id, status, FALSE, detail))

(* Mutant: an announcement is put on top of an earlier one.                *)
MarkStacking(entries, id, status) ==
  Append(Drop(entries, id, BY_USER), Row(id, status, TRUE, NoDetail))

(* Announce a write of the sync; what the user queued about the item goes. *)
markServerWriteUpdater(entries, id, status) ==
  Append(Drop(Drop(entries, id, BY_USER), id, BY_SERVER),
         Row(id, status, TRUE, NoDetail))

removeEntryUpdater(entries, id) == Drop(entries, id, BY_USER)

(* The user rows of the items go behind the rest, in the order they have.  *)
moveToTailUpdater(entries, ids) ==
  LET failed == {k \in DOMAIN entries : \E id \in ids : sameRow(entries[k], id, BY_USER)}
  IN Keeping(entries, DOMAIN entries \ failed) \o Keeping(entries, failed)

=============================================================================
