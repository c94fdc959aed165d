----------------------------- MODULE LegacyRescue -----------------------------
(***************************************************************************)
(* legacy-rescue.mjs and its callers in background.mjs: what is read out   *)
(* of a carried-over book before it is replaced, and what can be done with *)
(* it afterwards.  No state of its own.                                    *)
(*                                                                         *)
(* A card stands for every key it is known by (keysOf): its own id and the *)
(* stamp the server's id is kept in.  Its text is abstracted to whose      *)
(* version it is.                                                          *)
(***************************************************************************)
EXTENDS Naturals, Sequences, FiniteSets

CONSTANTS
  Cards,      \* the items of the account that matter here
  Lists,      \* mailing lists, which no server knows
  Folders,
  In,         \* the folder of a card or a list
  Members     \* the cards the user put into a list

Ops == {"added", "modified", "deleted"}
None == "none"

ASSUME RescueAssumption ==
  /\ IsFiniteSet(Cards) /\ IsFiniteSet(Lists)
  /\ Cards \cap Lists = {} /\ None \notin Cards \cup Lists
  /\ In \in [Cards \cup Lists -> Folders]
  /\ Members \in [Lists -> SUBSET Cards]
  /\ \A l \in Lists : \A c \in Members[l] : In[c] = In[l]

-----------------------------------------------------------------------------
(* The old changelog                                                       *)

(* A row of the changelog: when, what, and whether the user did it.  The   *)
(* rows of a server, and rows of no known status, are not edits.           *)
OPS(row) == IF row.by = "user" THEN row.op ELSE None

(* How two pending edits to one item combine.                              *)
MERGE(prior, op) ==
  CASE prior = None -> op
    [] prior = "added" /\ op = "deleted" -> None
    [] prior = "added" /\ op # "deleted" -> "added"
    [] prior = "modified" -> op
    [] prior = "deleted" -> IF op = "deleted" THEN "deleted" ELSE "modified"

(* The edits of a changelog, and the order they were made in; those of one *)
(* moment stay in the order of the file.                                   *)
Edits(rows) == {k \in DOMAIN rows : OPS(rows[k]) # None}
Before(rows, j, k) ==
  rows[j].at < rows[k].at \/ (rows[j].at = rows[k].at /\ j < k)
EarlierThan(rows, k) == {j \in Edits(rows) : Before(rows, j, k)}
FirstOf(rows, edits) == CHOOSE k \in edits : \A j \in edits \ {k} : Before(rows, k, j)
LastOf(rows, edits) == CHOOSE k \in edits : \A j \in edits \ {k} : Before(rows, j, k)

(* What is owed for one item: each edit is merged into what those before   *)
(* it left.                                                                *)
parseLegacyChangelog(rows) ==
  LET owed[k \in Edits(rows)] ==
        LET earlier == EarlierThan(rows, k)
        IN MERGE(IF earlier = {} THEN None ELSE owed[LastOf(rows, earlier)], OPS(rows[k]))
  IN IF Edits(rows) = {} THEN None ELSE owed[LastOf(rows, Edits(rows))]

-----------------------------------------------------------------------------
(* What is kept                                                            *)

(* An entry of a rescue: the card or list, what is owed, and for a list    *)
(* its members, each with the name it goes by: the server's, or the entry  *)
(* of a card the server never had.                                         *)
Entry(x, op, names) == [of |-> x, op |-> op, names |-> names]

(* resolveTarget: a deletion needs nothing, the others the card itself.    *)
resolveTarget(owed, f, nodes) ==
  {Entry(c, owed[c], {}) :
     c \in {x \in Cards : In[x] = f /\ \/ owed[x] = "deleted"
                                       \/ owed[x] \in {"added", "modified"} /\ x \in nodes}}

createdBy(items) == {e.of : e \in {i \in items : i.op = "added"}}

(* Mutant: a member that is also an edit is carried twice.                 *)
AllNamed(items, named) == {Entry(c, "context", {}) : c \in named}

(* Members the record would otherwise not hold.                            *)
Context(items, named) ==
  {Entry(c, "context", {}) : c \in named \ {e.of : e \in items}}

(* A list names a member by the server's id, or by the entry of a card the *)
(* server never had.                                                       *)
listToGroupVCard(l, members, created) ==
  Entry(l, "added", {[card |-> c, by |-> IF c \in created THEN "rescueId" ELSE "serverId"] :
                       c \in members})

(* rescueMailingLists: every list of the book.                             *)
rescueMailingLists(items, f, nodes) ==
  LET lists == {l \in Lists : In[l] = f}
      members(l) == Members[l] \cap nodes
  IN {listToGroupVCard(l, members(l), createdBy(items)) : l \in lists}
       \cup Context(items, UNION {members(l) : l \in lists})

(* The part of rescueLegacyEdits that makes the record of one folder: a    *)
(* resource the changelog does not name yields nothing.                    *)
Rescued(owed, f, nodes) ==
  IF \A c \in Cards : In[c] = f => owed[c] = None THEN {}
  ELSE LET items == resolveTarget(owed, f, nodes)
       IN items \cup rescueMailingLists(items, f, nodes)

(* countHeld                                                               *)
countHeld(rescue) == Cardinality({e \in rescue : e.op # "context"})

-----------------------------------------------------------------------------
(* What becomes of it                                                      *)

(* Mutant: a change whose item is gone is dropped.                         *)
DropUnfound(entry, present) ==
  IF entry.op = "added" \/ entry.of \in present THEN entry.op ELSE None

(* effectiveOp: a change whose item the server no longer has becomes a     *)
(* creation, a deletion of such an item nothing.                           *)
effectiveOp(entry, present) ==
  IF entry.op = "added" \/ entry.of \in present THEN entry.op
  ELSE IF entry.op = "modified" THEN "added" ELSE None

(* backupFiles: one file per folder, of everything that has a text; a list *)
(* names the members that are in the same file.                            *)
backupFiles(rescue, f) ==
  LET here == {e \in rescue : In[e.of] = f /\ e.op # "deleted"}
      file == {e.of : e \in here}
  IN {[of |-> e.of, members |-> {n.card : n \in e.names} \cap file] : e \in here}
=============================================================================
