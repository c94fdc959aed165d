---------------------------- MODULE ContactsObserver ----------------------------
(***************************************************************************)
(* How a provider learns what the user did to an address book: the         *)
(* observer of src/common/protocol/address-book.mjs, which hears of every  *)
(* write to the book, the provider's own included, and keeps the user's in *)
(* the change queue of the book's session (change-queue.mjs).              *)
(*                                                                         *)
(* One book is modelled, with its contacts, mailing lists and memberships. *)
(* Every event starts a handler, and handlers overlap: each step below is  *)
(* what one does from an await to the next.  Queue and hashes change in    *)
(* the order in which the changes were asked for (storage-queue.mjs).      *)
(*                                                                         *)
(* Who writes the book is external: the user, Thunderbird (a "ghost" is an *)
(* update event without a change of content), and the provider's sync,     *)
(* which announces what it writes and takes the rows it has pushed, as     *)
(* address-book.mjs and change-queue.mjs ask of it.                        *)
(***************************************************************************)
EXTENDS Changelog, FiniteSets

CONSTANTS
  Contacts, Lists,     \* the ids of contacts and of mailing lists
  Memberships,         \* the pairs <<list, contact>> that may be members
  Cards,               \* contents of an item, as the hash tells them apart
  EditsWhen,           \* when the user may touch an item: a subset of Moments
  Starts,              \* what a book holds when the observer starts to watch it
  MayFail,             \* whether Thunderbird may refuse a write of the sync
  MaxHandlers,         \* bound: handlers alive at once
  MaxEdits,            \* bound: edits of the user, and ghosts
  MaxServerEdits       \* bound: changes on the server

Book == "book"
NoCard == "nothing"
Member == "member"
Items == Contacts \cup Lists \cup Memberships

(* What may be going on about an item when the user touches it: nothing,   *)
(* an earlier event is in its handler, a write of the sync is announced,   *)
(* the sync is at work on it.                                              *)
Moments == {"rest", "handled", "announced", "synced"}

(* What may become of an item: a membership is there or not.               *)
Contents(i) == (IF i \in Memberships THEN {Member} ELSE Cards) \cup {NoCard}

(* Whose members are there.                                                *)
Closed(store) ==
  \A i \in Memberships : store[i] # NoCard => store[i[1]] # NoCard /\ store[i[2]] # NoCard

ASSUME ObserverAssumption ==
  /\ Items # {} /\ Contacts \cap Lists = {}
  /\ Memberships \cap (Contacts \cup Lists) = {}
  /\ Memberships \subseteq Lists \X Contacts
  /\ EditsWhen \subseteq Moments
  /\ \A b \in Starts : /\ b \in [Items -> Cards \cup {NoCard, Member}] /\ Closed(b)
                       /\ \A i \in Items : b[i] \in Contents(i)
  /\ MayFail \in BOOLEAN
  /\ NoCard \notin Cards /\ Member \notin Cards
  /\ {MaxHandlers, MaxEdits, MaxServerEdits} \subseteq Nat

VARIABLES
  book, server,      \* what the book and the server hold of each item
  base,              \* what the sync last saw both agree on
  queue, hashes,     \* the bag of the session: rows, hash of each contact
  writes,            \* who waits for a turn in the storage queue, in order
  handler,           \* the handlers of events
  sync,              \* the provider's sync
  badge,             \* localChanges of the folder's row at the host
  edits, serverEdits,  \* how many there have been
  born,              \* history: the lists the book has had; an id is not used again
  mine,              \* history: items the user touched since base was set
  excused            \* history: what came too close to be told apart

vars == <<book, server, base, queue, hashes, writes, handler, sync, badge,
          edits, serverEdits, born, mine, excused>>

Slots == 1..MaxHandlers
SyncWriter == 0
NoItem == CHOOSE i \in Items : TRUE
Idle == [at |-> "idle", op |-> "created", item |-> NoItem, seen |-> NoCard]
NoSync == [at |-> "idle", op |-> "created", item |-> NoItem, card |-> NoCard,
           covers |-> FALSE]

Id(i) ==
  CASE i \in Contacts    -> [parent |-> Book, item |-> i, kind |-> "contact"]
    [] i \in Lists       -> [parent |-> Book, item |-> i, kind |-> "list"]
    [] i \in Memberships -> [parent |-> i[1], item |-> i[2], kind |-> "membership"]

(* How the sync names what it announces: a list about to be created has no *)
(* id yet and is announced by its name, here the list itself.              *)
TagId(i, op) ==
  IF i \in Lists /\ op = "created"
  THEN [parent |-> Book, item |-> i, kind |-> "list-by-name"] ELSE Id(i)

OpOf(before, after) ==
  CASE after = NoCard                      -> "deleted"
    [] after # NoCard /\ before = NoCard   -> "created"
    [] after # NoCard /\ before # NoCard   -> "updated"
TagFor(op) == CHOOSE s \in SERVER_TAG_STATUSES : OP_FOR_TAG[s] = op

Live == {h \in Slots : handler[h].at # "idle"}
Handled(i) == \E h \in Live : handler[h].item = i
Synced(i) == sync.at # "idle" /\ sync.item = i
Announced(i) ==
  \E k \in DOMAIN queue : \E op \in Ops :
    queue[k].fresh /\ sameRow(queue[k], TagId(i, op), BY_SERVER)
Moment(i) ==
  CASE Synced(i)                                    -> "synced"
    [] ~Synced(i) /\ Announced(i)                   -> "announced"
    [] ~Synced(i) /\ ~Announced(i) /\ Handled(i)    -> "handled"
    [] ~Synced(i) /\ ~Announced(i) /\ ~Handled(i)   -> "rest"

(* What begins before what came earlier about the item is over.            *)
Overlaps(items) == excused' = excused \cup {i \in items : Moment(i) # "rest"}

Turn(x) == writes # <<>> /\ Head(writes) = x
Done == Tail(writes)
Ask(x) == writes' = Append(writes, x)

-----------------------------------------------------------------------------
(* The book is new, or in step with the server and all events of it over.  *)
Init ==
  /\ book \in Starts
  /\ server = book /\ base = book
  /\ queue = <<>>
  /\ hashes = [i \in Contacts |-> book[i]]
  /\ writes = <<>>
  /\ handler = [h \in Slots |-> Idle]
  /\ sync = NoSync
  /\ badge = 0
  /\ edits = 0 /\ serverEdits = 0
  /\ born = {i \in Lists : book[i] # NoCard}
  /\ mine = {} /\ excused = {}

-----------------------------------------------------------------------------
(* The observer                                                            *)

(* Thunderbird tells of these events: a handler is started for each.       *)
Fire(events) ==
  /\ Cardinality(Slots \ Live) >= Cardinality(events)
  /\ \E start \in [events -> Slots \ Live] :
       /\ \A e, f \in events : start[e] = start[f] => e = f
       /\ \A e \in events : \A h \in Slots \ Live :
            h < start[e] => \E f \in events : start[f] = h
       /\ handler' = [h \in Slots |->
            IF \E e \in events : start[e] = h
            THEN LET e == CHOOSE e \in events : start[e] = h
                 IN [at |-> "start", op |-> e.op, item |-> e.item, seen |-> NoCard]
            ELSE handler[h]]

Goto(h, at) == handler' = [handler EXCEPT ![h].at = at]
Ends(h) == handler' = [handler EXCEPT ![h] = Idle]

(* handle, handleMembership: the binding is looked up, a contact read; a   *)
(* membership of a list that is gone is dropped.                           *)
handle(h) ==
  LET i == handler[h].item
      op == handler[h].op
      gone == i \in Memberships /\ book[i[1]] = NoCard
      gated == i \in Contacts /\ op # "deleted" /\ book[i] # NoCard
  IN /\ handler[h].at = "start"
     /\ \/ /\ gone /\ Ends(h) /\ UNCHANGED writes
        \/ /\ gated
           /\ handler' = [handler EXCEPT ![h].at = "ghostGate", ![h].seen = book[i]]
           /\ UNCHANGED writes
        \/ /\ i \in Contacts /\ op = "deleted"
           /\ Goto(h, "dropHash") /\ Ask(h)
        \/ /\ ~gone /\ ~gated /\ ~(i \in Contacts /\ op = "deleted")
           /\ Goto(h, "recordEvent") /\ Ask(h)
     /\ UNCHANGED <<book, server, base, queue, hashes, sync, badge,
                    edits, serverEdits, born, mine, excused>>

(* Mutant: no event is taken for a ghost.                                  *)
NeverGhost(h) == FALSE

(* The hash of what was read is the hash last seen: nothing has changed.   *)
isGhost(h) ==
  handler[h].op = "updated" /\ hashes[handler[h].item] = handler[h].seen

(* ghostGate: the hash of what was read against the hash last seen.        *)
ghostGate(h) ==
  /\ handler[h].at = "ghostGate"
  /\ Goto(h, IF isGhost(h) THEN "consumeServerTag" ELSE "setHash")
  /\ Ask(h)
  /\ UNCHANGED <<book, server, base, queue, hashes, sync, badge,
                 edits, serverEdits, born, mine, excused>>

(* A ghost is discarded, and with it the pre-tag it would have consumed.   *)
consumeServerTag(h) ==
  LET k == findConsumableServerTag(queue, Id(handler[h].item), handler[h].op)
  IN /\ handler[h].at = "consumeServerTag"
     /\ Turn(h)
     /\ queue' = IF k = 0 THEN queue ELSE RemoveAt(queue, k)
     /\ writes' = Done
     /\ Ends(h)
     /\ UNCHANGED <<book, server, base, hashes, sync, badge,
                    edits, serverEdits, born, mine, excused>>

HashToStore(h) ==
  IF handler[h].at = "setHash" THEN handler[h].seen ELSE NoCard

storeHash(h) ==
  /\ handler[h].at \in {"setHash", "dropHash"}
  /\ Turn(h)
  /\ hashes' = [hashes EXCEPT ![handler[h].item] = HashToStore(h)]
  /\ writes' = Append(Done, h)
  /\ Goto(h, "recordEvent")
  /\ UNCHANGED <<book, server, base, queue, sync, badge,
                 edits, serverEdits, born, mine, excused>>

(* record: the event is folded into the queue; only if that is to be seen  *)
(* is the host told, later, of the number of rows.                         *)
recordEvent(h) ==
  LET i == handler[h].item
      next == applyEvent(queue, Id(i), i, handler[h].op)
  IN /\ handler[h].at = "recordEvent"
     /\ Turn(h)
     /\ queue' = next
     /\ writes' = Done
     /\ IF userFacingDiffers(queue, next) THEN Goto(h, "count") ELSE Ends(h)
     /\ UNCHANGED <<book, server, base, hashes, sync, badge,
                    edits, serverEdits, born, mine, excused>>

(* Mutant: the pre-tags are counted too.                                   *)
CountAll == Len(queue)

localChanges == Len(UserEntries(queue))

count(h) ==
  /\ handler[h].at = "count"
  /\ badge' = localChanges
  /\ Ends(h)
  /\ UNCHANGED <<book, server, base, queue, hashes, writes, sync,
                 edits, serverEdits, born, mine, excused>>

Step(h) == \/ handle(h) \/ ghostGate(h) \/ consumeServerTag(h)
           \/ storeHash(h) \/ recordEvent(h) \/ count(h)

-----------------------------------------------------------------------------
(* The user and Thunderbird                                                *)

(* An item that is deleted takes its memberships with it.                  *)
With(store, i, card) ==
  [j \in Items |-> IF j = i THEN card
                   ELSE IF card = NoCard /\ j \in Memberships /\ i \in {j[1], j[2]}
                   THEN NoCard ELSE store[j]]
EventsOf(i, card) ==
  {[op |-> OpOf(book[j], With(book, i, card)[j]), item |-> j] :
     j \in {m \in Items : m = i \/ book[m] # With(book, i, card)[m]}}

(* The memberships that fall unannounced with a contact, or in the middle  *)
(* of something else.                                                      *)
Fallen(store, i, card) ==
  {j \in Items \ {i} : /\ With(store, i, card)[j] # store[j]
                       /\ i \in Contacts \/ Moment(j) # "rest"}

(* A membership joins what is there; a list that is deleted does not come  *)
(* back under its id, a contact may (it was moved to another book).        *)
Possible(store, i, card) ==
  /\ card # store[i]
  /\ i \in Memberships /\ card # NoCard =>
       store[i] = NoCard /\ store[i[1]] # NoCard /\ store[i[2]] # NoCard
  /\ i \in Lists /\ store[i] = NoCard => i \notin born
BornWith(i, card) == born' = IF card = NoCard THEN born ELSE born \cup ({i} \cap Lists)

UserEdit(i, card) ==
  LET touched == {e.item : e \in EventsOf(i, card)}
  IN /\ edits < MaxEdits
     /\ Possible(book, i, card)
     /\ \A j \in touched : Moment(j) \in EditsWhen
     /\ book' = With(book, i, card)
     /\ Fire(EventsOf(i, card))
     /\ edits' = edits + 1
     /\ mine' = mine \cup touched
     /\ Overlaps(touched)
     /\ BornWith(i, card)
     /\ UNCHANGED <<server, base, queue, hashes, writes, sync, badge,
                    serverEdits>>

Ghost(i) ==
  /\ edits < MaxEdits
  /\ book[i] # NoCard
  /\ Fire({[op |-> "updated", item |-> i]})
  /\ edits' = edits + 1
  /\ Overlaps({i})
  /\ UNCHANGED <<book, server, base, queue, hashes, writes, sync, badge,
                 serverEdits, born, mine>>

(* A pre-tag grows stale when what it announces does not come.             *)
FreezeEnds(k) ==
  /\ queue[k].fresh
  /\ \A i \in Items : (\E op \in Ops : sameRow(queue[k], TagId(i, op), BY_SERVER))
                        => ~Synced(i) /\ ~Handled(i)
  /\ queue' = [queue EXCEPT ![k].fresh = FALSE]
  /\ UNCHANGED <<book, server, base, hashes, writes, handler, sync, badge,
                 edits, serverEdits, born, mine, excused>>

-----------------------------------------------------------------------------
(* The provider's sync                                                     *)

ServerEdit(i, card) ==
  /\ serverEdits < MaxServerEdits
  /\ Possible(server, i, card)
  /\ server' = With(server, i, card)
  /\ serverEdits' = serverEdits + 1
  /\ UNCHANGED <<book, base, queue, hashes, writes, handler, sync, badge,
                 edits, born, mine, excused>>

(* Pull: bring the item to what the server has, announcing it first.       *)
Pull(i) ==
  /\ sync.at = "idle"
  /\ server[i] # base[i]
  /\ book[i] # NoCard \/ server[i] # NoCard
  /\ server[i] # NoCard /\ server[i] # book[i] => Possible(book, i, server[i])
  /\ i \in Memberships => server[i] # book[i]
  /\ sync' = [at |-> "markServerWrite", op |-> OpOf(book[i], server[i]), item |-> i,
              card |-> server[i], covers |-> FALSE]
  /\ Ask(SyncWriter)
  /\ Overlaps({i})
  /\ UNCHANGED <<book, server, base, queue, hashes, handler, badge,
                 edits, serverEdits, born, mine>>

markServerWrite ==
  LET i == sync.item
  IN /\ sync.at = "markServerWrite"
     /\ Turn(SyncWriter)
     /\ queue' = markServerWriteUpdater(queue, TagId(i, sync.op), TagFor(sync.op))
     /\ writes' = Done
     /\ sync' = [sync EXCEPT !.at = "write",
                  !.covers = UserStatus(queue, TagId(i, sync.op)) # NoStatus]
     /\ UNCHANGED <<book, server, base, hashes, handler, badge,
                    edits, serverEdits, born, mine, excused>>

(* The write itself: an update needs the item, a creation needs it absent, *)
(* deleting what is gone is no error and no event.                         *)
Write ==
  LET i == sync.item
      fits == CASE sync.op = "updated" -> book[i] # NoCard
                [] sync.op = "created" -> Possible(book, i, sync.card)
                [] sync.op = "deleted" -> TRUE
  IN /\ sync.at = "write"
     /\ sync' = [sync EXCEPT !.at = "report"]
     /\ \/ /\ fits
           /\ base' = With(base, i, sync.card)
           /\ book' = With(book, i, sync.card)
           /\ IF sync.op = "deleted" /\ book[i] = NoCard
              THEN UNCHANGED handler
              ELSE Fire(EventsOf(i, sync.card))
           /\ mine' = mine \ {i}
           /\ excused' = excused \cup Fallen(book, i, sync.card)
                                 \cup Fallen(base, i, sync.card)
           /\ BornWith(i, sync.card)
        \/ /\ ~fits \/ MayFail
           /\ excused' = IF sync.covers THEN excused \cup {i} ELSE excused
           /\ UNCHANGED <<book, base, handler, born, mine>>
     /\ UNCHANGED <<server, queue, hashes, writes, badge, edits, serverEdits>>

(* Push: send what the oldest row is about, then take the row.             *)
Push(i) ==
  /\ sync.at = "idle"
  /\ UserEntries(queue) # <<>> /\ sameRow(UserEntries(queue)[1], Id(i), BY_USER)
  /\ sync' = [at |-> "send", op |-> "updated", item |-> i, card |-> book[i],
              covers |-> FALSE]
  /\ Overlaps({i})
  /\ UNCHANGED <<book, server, base, queue, hashes, writes, handler, badge,
                 edits, serverEdits, born, mine>>

Sent(accepted) ==
  LET i == sync.item
  IN /\ sync.at = "send"
     /\ accepted /\ i \in Memberships /\ sync.card # NoCard =>
          server[i[1]] # NoCard /\ server[i[2]] # NoCard
     /\ sync' = [sync EXCEPT !.at = IF accepted THEN "remove" ELSE "moveToTail"]
     /\ server' = IF accepted THEN With(server, i, sync.card) ELSE server
     /\ base' = IF accepted THEN With(base, i, sync.card) ELSE base
     /\ mine' = IF accepted THEN mine \ {i} ELSE mine
     /\ excused' = IF accepted THEN excused \cup Fallen(base, i, sync.card) ELSE excused
     /\ Ask(SyncWriter)
     /\ UNCHANGED <<book, queue, hashes, handler, badge,
                    edits, serverEdits, born>>

Settled ==
  /\ sync.at \in {"remove", "moveToTail"}
  /\ Turn(SyncWriter)
  /\ queue' = IF sync.at = "remove" THEN removeEntryUpdater(queue, Id(sync.item))
              ELSE moveToTailUpdater(queue, {Id(sync.item)})
  /\ writes' = Done
  /\ sync' = [sync EXCEPT !.at = "report"]
  /\ UNCHANGED <<book, server, base, hashes, handler, badge,
                 edits, serverEdits, born, mine, excused>>

Report ==
  /\ sync.at = "report"
  /\ badge' = localChanges
  /\ sync' = NoSync
  /\ UNCHANGED <<book, server, base, queue, hashes, writes, handler,
                 edits, serverEdits, born, mine, excused>>

SyncStep == \/ \E i \in Items : Pull(i) \/ Push(i)
            \/ markServerWrite \/ Write
            \/ \E accepted \in BOOLEAN : Sent(accepted)
            \/ Settled \/ Report

Next ==
  \/ \E h \in Slots : Step(h)
  \/ \E i \in Items : \E card \in Contents(i) : UserEdit(i, card) \/ ServerEdit(i, card)
  \/ \E i \in Contacts : Ghost(i)
  \/ \E k \in DOMAIN queue : FreezeEnds(k)
  \/ SyncStep

Spec == Init /\ [][Next]_vars

-----------------------------------------------------------------------------
(* Properties                                                              *)

Rows == [parent : {Book} \cup Lists, item : Contacts \cup Lists,
         kind : {"contact", "list", "membership", "list-by-name"},
         status : Statuses, fresh : BOOLEAN, detail : {NoDetail}]

TypeOK ==
  /\ {book, server, base} \subseteq [Items -> Cards \cup {NoCard, Member}]
  /\ queue \in Seq(Rows)
  /\ \A j, k \in DOMAIN queue :
       (/\ queue[j].parent = queue[k].parent /\ queue[j].item = queue[k].item
        /\ queue[j].kind = queue[k].kind
        /\ familyOf(queue[j].status) = familyOf(queue[k].status)) => j = k
  /\ hashes \in [Contacts -> Cards \cup {NoCard}]
  /\ writes \in Seq(Slots \cup {SyncWriter})
  /\ handler \in [Slots ->
       [at : {"idle", "start", "ghostGate", "consumeServerTag", "setHash", "dropHash",
              "recordEvent", "count"},
        op : Ops, item : Items, seen : Cards \cup {NoCard}]]
  /\ sync \in [at : {"idle", "markServerWrite", "write", "send", "remove", "moveToTail",
                     "report"},
               op : Ops, item : Items, card : Cards \cup {NoCard, Member},
               covers : BOOLEAN]
  /\ badge \in Nat
  /\ edits \in 0..MaxEdits /\ serverEdits \in 0..MaxServerEdits
  /\ {mine, excused} \subseteq SUBSET Items /\ born \subseteq Lists

(* What the user did to the book, and the server does not have, is queued  *)
(* once things are at rest, and queued as what it is.  Excused are edits   *)
(* made while the item was still being handled, announced or synced.       *)
EditsQueued ==
  \A i \in Items :
    (/\ Moment(i) = "rest" /\ i \notin excused /\ book[i] # base[i]
     /\ i \in Memberships => book[i[1]] # NoCard) =>
       UserStatus(queue, Id(i)) =
         CASE book[i] = NoCard                     -> "deleted_by_user"
           [] book[i] # NoCard /\ base[i] = NoCard -> "added_by_user"
           [] book[i] # NoCard /\ base[i] # NoCard -> "modified_by_user"

(* A write of the sync that was announced, made and heard is never taken   *)
(* for the user's, nor a ghost: a row means that the user touched the item *)
(* since the sync last brought it in step.                                 *)
NoPhantoms ==
  \A i \in Items \ (mine \cup excused) :
    Moment(i) = "rest" => UserStatus(queue, Id(i)) = NoStatus

(* The badge agrees with the queue once nothing is on its way.             *)
BadgeAgrees ==
  Live = {} /\ sync.at = "idle" =>
    badge = Cardinality({k \in DOMAIN queue : queue[k].status \in UserStatuses})

(* "Fails open: ... a hash problem cannot swallow an edit" (ghostGate): an *)
(* event is discarded as a ghost only if what was read is what the sync    *)
(* left there, or the edit is queued.                                      *)
GhostsCarryNoEdit ==
  \A h \in Live :
    handler[h].at = "consumeServerTag" /\ Turn(h)
      => \/ handler[h].seen = base[handler[h].item]
         \/ UserStatus(queue, Id(handler[h].item)) # NoStatus
=============================================================================
