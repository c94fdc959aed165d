-------------------------- MODULE MCContactsObserver --------------------------
(* ContactsObserver for TLC, and the updaters a calendar's queue uses,      *)
(* checked against what they are for over every short history.              *)
EXTENDS ContactsObserver

CONSTANTS l1, c1
ListAndContact == {<<l1, c1>>}
BookSymmetry == Permutations(Cards)

(* The book is new, or has contacts and lists, in step with the server, but *)
(* nobody is a member yet.                                                 *)
NewOrStocked ==
  {[i \in Items |-> IF i \in Memberships THEN NoCard ELSE card] :
     card \in Cards \cup {NoCard}}

-----------------------------------------------------------------------------
Event == [parent |-> "calendar", item |-> "event", kind |-> "event"]
Histories == UNION {[1..n -> Ops] : n \in 0..5}
Present(start, h) == IF h = <<>> THEN start ELSE Last(h) # "deleted"
Legal(start, h) ==
  \A k \in DOMAIN h : (h[k] = "created") = ~Present(start, SubSeq(h, 1, k - 1))
Details(h) == [k \in DOMAIN h |-> [op |-> h[k], detail |-> <<"edit", k>>]]
Queued(h, start) ==
  FoldLeft(LAMBDA q, e : recordUserEditUpdater(q, Event, e.op, e.detail), start, Details(h))

(* A history of edits queues its net effect, in one row, with the detail of *)
(* the earliest edit of the row; a note of a message owed stands until the  *)
(* item is deleted, and the first note counts.                              *)
ASSUME EditsFold ==
  \A start \in BOOLEAN : \A h \in {g \in Histories : Legal(start, g)} :
    LET q == Queued(h, <<>>)
        noted == recordSendMailUpdater(<<>>, Event, "added_for_sendMail", "first")
        again == recordSendMailUpdater(Queued(h, noted), Event,
                                       "modified_for_sendMail", "second")
    IN /\ UserStatus(q, Event) =
            CASE h = <<>> \/ (~start /\ ~Present(start, h)) -> NoStatus
              [] start /\ ~Present(start, h)                -> "deleted_by_user"
              [] h # <<>> /\ start /\ Present(start, h)     -> "modified_by_user"
              [] ~start /\ Present(start, h)                -> "added_by_user"
       /\ Len(q) <= 1
       /\ start /\ h # <<>> => q[1].detail = <<"edit", 1>>
       /\ Len(SelectSeq(again, LAMBDA r : r.status \in SENDMAIL_STATUSES)) = 1
       /\ (\A k \in DOMAIN h : h[k] # "deleted")
            => again[IndexOfRow(again, Event, FOR_SENDMAIL)].detail = "first"
       /\ moveToTailUpdater(again, {Event})
            = SelectSeq(again, LAMBDA r : ~isUserEntry(r)) \o UserEntries(again)
=============================================================================
