--------------------------- MODULE MCLegacyMigration ---------------------------
(* LegacyMigration for TLC: two cards and a mailing list of both in one      *)
(* book, and one card in another.                                            *)
EXTENDS LegacyMigration

Row(at, op, by) == [at |-> at, op |-> op, by |-> by]

MCIn == [x \in Cards \cup Lists |-> IF x = "far" THEN "f2" ELSE "f1"]
MCMembers == [l \in Lists |-> {c \in Cards : MCIn[c] = "f1"}]

(* What one card may have gone through, in the order of the file, which is   *)
(* not always the order it happened in.                                      *)
All == {<<Row(1, "modified", "user")>>,
        <<Row(1, "added", "server"), Row(2, "deleted", "user")>>,
        <<Row(1, "added", "user"), Row(2, "modified", "user")>>,
        <<Row(2, "deleted", "user"), Row(1, "added", "user")>>,
        <<Row(2, "added", "user"), Row(1, "deleted", "user")>>}

MCHistories ==
  [c \in Cards |-> CASE c = "near" -> All
                     [] c = "next" -> {<<>>, <<Row(1, "added", "user")>>}
                     [] OTHER -> {<<>>}]

(* Nothing was edited in the book that has the mailing list.                 *)
MCFarOnly ==
  [c \in Cards |-> IF c = "far" THEN {<<Row(1, "modified", "user")>>} ELSE {<<>>}]
===============================================================================
