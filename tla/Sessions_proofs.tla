---------------------------- MODULE Sessions_proofs ----------------------------
(* What Sessions promises for every set of folders and items and any number *)
(* of sessions, resources, edits and operations; that it implements Ledger,  *)
(* when no binding is ended under a sync of its folder.                      *)
EXTENDS Sessions, FiniteSetTheorems, SequenceTheorems, WellFoundedInduction, TLAPS

-----------------------------------------------------------------------------
(* The sessions that are minted together are new.                           *)
LEMMA MintingNew ==
  ASSUME NEW fresh \in SUBSET Folders, minted \in Nat
  PROVE  /\ Cardinality(fresh) \in Nat
         /\ \A f \in fresh : Minting(fresh)[f] \in (minted + 1)..(minted + Cardinality(fresh))
         /\ \A f, g \in fresh : Minting(fresh)[f] = Minting(fresh)[g] => f = g
PROOF
<1> DEFINE n == Cardinality(fresh)
           Mints == [fresh -> (minted + 1)..(minted + n)]
<1>1. IsFiniteSet(fresh)
  BY FS_Subset, SessionsAssumption
<1>2. n \in Nat /\ ExistsBijection(1..n, fresh)
  BY <1>1, FS_CardinalityType
<1>3. \E mint \in Mints : \A f, g \in fresh : mint[f] = mint[g] => f = g
  <2>1. PICK b \in Bijection(1..n, fresh) : TRUE
    BY <1>2 DEF ExistsBijection
  <2>2. /\ b \in [1..n -> fresh]
        /\ \A f \in fresh : \E k \in 1..n : b[k] = f
    BY <2>1 DEF Bijection, Injection, Surjection
  <2> DEFINE place(f) == CHOOSE k \in 1..n : b[k] = f
             mint == [f \in fresh |-> minted + place(f)]
  <2>3. \A f \in fresh : place(f) \in 1..n /\ b[place(f)] = f
    BY <2>2
  <2> HIDE DEF place
  <2>4. mint \in Mints
    BY <1>2, <2>3
  <2>5. ASSUME NEW f \in fresh, NEW g \in fresh, mint[f] = mint[g] PROVE f = g
    <3>1. minted + place(f) = minted + place(g)
      BY <2>5
    <3>2. place(f) = place(g)
      BY <1>2, <2>3, <3>1
    <3> QED BY <2>3, <3>2
  <2> QED BY <2>4, <2>5
<1>4. /\ Minting(fresh) \in Mints
      /\ \A f, g \in fresh : Minting(fresh)[f] = Minting(fresh)[g] => f = g
  BY <1>3 DEF Minting
<1> QED BY <1>2, <1>4

-----------------------------------------------------------------------------
(* What a step does to the folder rows.                                     *)

RowSet ==
  [selected : BOOLEAN, downloadOnly : BOOLEAN,
   target : Targets \cup {NoTarget}, session : Sessions]
Tables == [Folders -> {NoRow} \cup RowSet]

Counted ==
  /\ minted \in 0..MaxSessions /\ made \in 0..MaxTargets
  /\ rows \in Tables
  /\ sync = [at |-> sync.at, folder |-> sync.folder, seen |-> sync.seen,
             target |-> sync.target, item |-> sync.item, done |-> sync.done]
  /\ sync.folder \in Folders /\ push.listed \in SUBSET Folders
  /\ sync.at # "idle" => sync.seen \in Tables
  /\ sync.at = "updateFolder" => sync.target \in 1..made

(* A row keeps its session or gets a new one; it keeps its resource, loses  *)
(* it, or is bound by the sync; and only a folder list brings a row back.   *)
RowMoves(f) ==
  rows'[f] # NoRow =>
    /\ \/ rows'[f].session \in (minted + 1)..minted'
       \/ rows[f] # NoRow /\ rows'[f].session = rows[f].session
    /\ \/ rows'[f].target = NoTarget
       \/ rows[f] # NoRow /\ rows'[f].target = rows[f].target
       \/ sync.at = "updateFolder" /\ sync'.at # "updateFolder" /\ rows'[f].target = sync.target
    /\ rows[f] = NoRow => ReplaceFolders

RowsMove ==
  /\ minted' \in minted..MaxSessions
  /\ rows' \in Tables
  /\ \A f \in Folders : RowMoves(f)

LEMMA Bounds ==
  /\ MaxSessions \in Nat /\ MaxTargets \in Nat
  /\ Sessions = 1..MaxSessions /\ Targets = 1..MaxTargets
  /\ 0 \notin Sessions /\ NoTarget = 0 /\ 0 \notin Targets
PROOF
  BY SessionsAssumption DEF Sessions, Targets, NoTarget

LEMMA RowFacts ==
  /\ NoRow = [selected |-> FALSE, downloadOnly |-> FALSE, target |-> NoTarget, session |-> 0]
  /\ NoRow \notin RowSet
PROOF
  BY Bounds DEF NoRow, NewRow, RowSet

(* r differs from q in its flags only, apart from its resource and session. *)
RowLike(r, t, s) == r \in RowSet /\ r.target = t /\ r.session = s

LEMMA RowExcept ==
  ASSUME NEW r \in RowSet, NEW b \in BOOLEAN, NEW t \in Targets \cup {NoTarget},
         NEW s \in Sessions
  PROVE  /\ RowLike([r EXCEPT !.selected = b], r.target, r.session)
         /\ RowLike([r EXCEPT !.downloadOnly = b], r.target, r.session)
         /\ RowLike([r EXCEPT !.target = t], t, r.session)
         /\ RowLike([r EXCEPT !.selected = b, !.session = s], r.target, s)
         /\ RowLike([r EXCEPT !.selected = b, !.target = t, !.session = s], t, s)
PROOF
  BY DEF RowSet, RowLike

LEMMA RestoredTyped ==
  ASSUME NEW f \in Folders, NEW s \in Sessions
  PROVE  /\ RowLike(Restored(f, s), NoTarget, s)
         /\ cache[f] # NoBag => /\ Restored(f, s).selected
                                /\ Restored(f, s).downloadOnly = (cache[f] = "download only")
PROOF
<1>1. CASE cache[f] = NoBag
  BY <1>1 DEF Restored, RowLike, RowSet, NewRow
<1>2. CASE cache[f] # NoBag
  <2>1. PICK b \in BOOLEAN : b = (cache[f] = "download only")
    OBVIOUS
  <2>2. Restored(f, s) = [selected |-> TRUE, downloadOnly |-> (cache[f] = "download only"),
                          target |-> NoTarget, session |-> s]
    BY <1>2 DEF Restored, NewRow
  <2>3. Restored(f, s) = [selected |-> TRUE, downloadOnly |-> b,
                          target |-> NoTarget, session |-> s]
    BY <2>1, <2>2, Zenon
  <2>4. RowLike(Restored(f, s), NoTarget, s)
    BY <2>3 DEF RowLike, RowSet
  <2>5. Restored(f, s).selected /\ Restored(f, s).downloadOnly = b
    BY <2>3
  <2> QED BY <2>1, <2>4, <2>5, Zenon
<1> QED BY <1>1, <1>2

(* One row is replaced.                                                     *)
LEMMA OneRow ==
  ASSUME Counted, NEW f \in Folders, rows[f] # NoRow, NEW r \in RowSet,
         rows' = [rows EXCEPT ![f] = r], minted' \in minted..MaxSessions,
         r.session \in (minted + 1)..minted' \/ r.session = rows[f].session,
         \/ r.target \in {NoTarget, rows[f].target}
         \/ sync.at = "updateFolder" /\ sync'.at # "updateFolder" /\ r.target = sync.target
  PROVE  RowsMove
PROOF
<1>1. rows \in Tables /\ rows' \in Tables
  BY DEF Counted, Tables
<1>2. ASSUME NEW g \in Folders PROVE RowMoves(g)
  <2>1. CASE g = f
    <3>1. rows'[g] = r
      BY <1>1, <2>1 DEF Tables
    <3> QED BY <2>1, <3>1 DEF RowMoves
  <2>2. CASE g # f
    <3>1. rows'[g] = rows[g]
      BY <1>1, <2>2 DEF Tables
    <3> QED BY <3>1 DEF RowMoves
  <2> QED BY <2>1, <2>2
<1> QED BY <1>1, <1>2 DEF RowsMove

LEMMA RowsSame ==
  ASSUME Counted, UNCHANGED rows, minted' \in minted..MaxSessions
  PROVE  RowsMove
PROOF
  BY DEF Counted, RowsMove, RowMoves

LEMMA MintedSame == Counted /\ UNCHANGED minted => minted' \in minted..MaxSessions
PROOF
  BY Bounds DEF Counted

(* What a folder list makes of the rows.                                    *)
LEMMA ReplacedRow ==
  ASSUME Counted, ReplaceFolders, NEW f \in Folders
  PROVE  /\ rows' = [g \in Folders |-> rows'[g]]
         /\ f \notin push.listed => rows'[f] = NoRow
         /\ f \in push.listed /\ rows[f] # NoRow => rows'[f] = rows[f]
         /\ f \in push.listed /\ rows[f] = NoRow =>
              \E s \in Sessions : /\ s \in (minted + 1)..minted'
                                 /\ rows'[f] = Restored(f, s)
         /\ minted' \in minted..MaxSessions
PROOF
<1> DEFINE listed == push.listed
           fresh == {g \in listed : rows[g] = NoRow}
           mint == Minting(fresh)
<1>1. fresh \in SUBSET Folders /\ minted \in Nat /\ MaxSessions \in Nat
  BY Bounds DEF Counted
<1>2. /\ Cardinality(fresh) \in Nat
      /\ \A g \in fresh : mint[g] \in (minted + 1)..(minted + Cardinality(fresh))
  BY <1>1, MintingNew
<1>3. /\ minted + Cardinality(fresh) <= MaxSessions
      /\ minted' = minted + Cardinality(fresh)
      /\ rows' = [g \in Folders |->
           CASE g \in fresh            -> Restored(g, mint[g])
             [] g \in listed \ fresh   -> rows[g]
             [] g \notin listed        -> NoRow]
  BY DEF ReplaceFolders, replaceAccountFolders
<1> HIDE DEF mint, fresh
<1>4. f \in fresh <=> f \in listed /\ rows[f] = NoRow
  BY DEF fresh
<1>5. f \in fresh => mint[f] \in Sessions /\ mint[f] \in (minted + 1)..minted'
  BY <1>1, <1>2, <1>3, Bounds
<1>6. f \in fresh => rows'[f] = Restored(f, mint[f])
  BY <1>3, <1>4
<1>7. f \in listed /\ f \notin fresh => rows'[f] = rows[f]
  BY <1>3
<1>8. f \notin listed => rows'[f] = NoRow
  BY <1>3, <1>4
<1>9. minted' \in minted..MaxSessions
  BY <1>1, <1>2, <1>3
<1>10. rows' = [g \in Folders |-> rows'[g]]
  BY <1>3
<1> QED BY <1>4, <1>5, <1>6, <1>7, <1>8, <1>9, <1>10

LEMMA ReplaceRows ==
  ASSUME Counted, ReplaceFolders
  PROVE  RowsMove
PROOF
<1>1. ASSUME NEW f \in Folders PROVE rows'[f] \in {NoRow} \cup RowSet /\ RowMoves(f)
  <2>1. CASE f \notin push.listed
    BY <2>1, ReplacedRow DEF RowMoves
  <2>2. CASE f \in push.listed /\ rows[f] # NoRow
    BY <2>2, ReplacedRow DEF RowMoves, Counted, Tables
  <2>3. CASE f \in push.listed /\ rows[f] = NoRow
    <3>1. PICK s \in Sessions : s \in (minted + 1)..minted' /\ rows'[f] = Restored(f, s)
      BY <2>3, ReplacedRow, Zenon
    <3>2. RowLike(rows'[f], NoTarget, s)
      BY <3>1, RestoredTyped
    <3> QED BY <3>1, <3>2 DEF RowMoves, RowLike
  <2> QED BY <2>1, <2>2, <2>3
<1>2. rows' = [g \in Folders |-> rows'[g]] /\ minted' \in minted..MaxSessions
  <2>1. sync.folder \in Folders
    BY DEF Counted
  <2> QED BY <2>1, ReplacedRow
<1>3. rows' \in Tables
  BY <1>1, <1>2 DEF Tables
<1> QED BY <1>1, <1>2, <1>3 DEF RowsMove

LEMMA RowTyped ==
  ASSUME Counted, NEW f \in Folders, rows[f] # NoRow
  PROVE  /\ rows[f] \in RowSet /\ rows[f].session \in Sessions
         /\ rows[f].target \in Targets \cup {NoTarget}
         /\ rows[f].selected \in BOOLEAN /\ rows[f].downloadOnly \in BOOLEAN
PROOF
  BY DEF Counted, Tables, RowSet

(* A row that gets the next session.                                        *)
LEMMA NextSession ==
  ASSUME Counted, minted < MaxSessions, minted' = minted + 1
  PROVE  /\ minted + 1 \in Sessions /\ minted' \in minted..MaxSessions
         /\ minted + 1 \in (minted + 1)..minted'
PROOF
  BY Bounds DEF Counted

LEMMA ClearRows ==
  ASSUME Counted, NEW f \in Folders, clearTarget(f)
  PROVE  RowsMove
PROOF
<1>1. CASE UNCHANGED <<rows, minted>>
  BY <1>1, RowsSame, MintedSame
<1>2. CASE /\ rows[f] # NoRow /\ minted < MaxSessions
           /\ rows' = [rows EXCEPT ![f] = Cleared(f)] /\ minted' = minted + 1
  <2>1. RowLike(Cleared(f), NoTarget, minted + 1)
    <3>1. rows[f] \in RowSet /\ minted + 1 \in Sessions
      BY <1>2, RowTyped, NextSession
    <3> QED BY <3>1, RowExcept DEF Cleared
  <2>2. minted + 1 \in (minted + 1)..minted' /\ minted' \in minted..MaxSessions
    BY <1>2, NextSession
  <2> QED BY <1>2, <2>1, <2>2, OneRow DEF RowLike
<1> QED BY <1>1, <1>2 DEF clearTarget

(* A flag is set, or the resource taken away.                               *)
LEMMA FlagRows ==
  ASSUME Counted, NEW f \in Folders, rows[f] # NoRow, UNCHANGED minted,
         NEW b \in BOOLEAN,
         \/ rows' = [rows EXCEPT ![f].selected = b]
         \/ rows' = [rows EXCEPT ![f].downloadOnly = b]
         \/ rows' = [rows EXCEPT ![f].target = NoTarget]
  PROVE  RowsMove
PROOF
<1>0. /\ rows[f] \in RowSet /\ rows[f].session \in Sessions
      /\ minted' \in minted..MaxSessions
  BY RowTyped, MintedSame
<1>1. PICK r \in {[rows[f] EXCEPT !.selected = b], [rows[f] EXCEPT !.downloadOnly = b],
                  [rows[f] EXCEPT !.target = NoTarget]} : rows' = [rows EXCEPT ![f] = r]
  <2>1. rows = [g \in Folders |-> rows[g]]
    BY DEF Counted, Tables
  <2> QED BY <2>1
<1>2. r \in RowSet /\ r.session = rows[f].session /\ r.target \in {NoTarget, rows[f].target}
  <2>0. rows[f] \in RowSet /\ NoTarget \in Targets \cup {NoTarget}
    BY <1>0
  <2>1. CASE r = [rows[f] EXCEPT !.selected = b]
    <3>1. RowLike(r, rows[f].target, rows[f].session)
      BY <1>0, <2>0, <2>1, RowExcept
    <3> QED BY <3>1 DEF RowLike
  <2>2. CASE r = [rows[f] EXCEPT !.downloadOnly = b]
    <3>1. RowLike(r, rows[f].target, rows[f].session)
      BY <1>0, <2>0, <2>2, RowExcept
    <3> QED BY <3>1 DEF RowLike
  <2>3. CASE r = [rows[f] EXCEPT !.target = NoTarget]
    <3>1. RowLike(r, NoTarget, rows[f].session)
      BY <1>0, <2>0, <2>3, RowExcept
    <3> QED BY <3>1 DEF RowLike
  <2> QED BY <1>1, <2>1, <2>2, <2>3
<1> QED BY <1>0, <1>1, <1>2, OneRow

LEMMA UpdateFolderRows ==
  ASSUME Counted, SyncUpdateFolder
  PROVE  RowsMove
PROOF
<1> DEFINE f == sync.folder
<1>0. /\ f \in Folders /\ UNCHANGED minted /\ sync.at = "updateFolder"
      /\ minted' \in minted..MaxSessions
  BY MintedSame DEF SyncUpdateFolder, SyncUnchanged, Counted
<1>1. CASE rows[f] = NoRow
  <2>1. UNCHANGED rows
    BY <1>1 DEF SyncUpdateFolder
  <2> QED BY <1>0, <2>1, RowsSame
<1>2. CASE rows[f] # NoRow
  <2> DEFINE r == [rows[f] EXCEPT !.target = sync.target]
  <2>1. rows' = [rows EXCEPT ![f] = r] /\ sync' = [sync EXCEPT !.at = "push"]
    BY <1>0, <1>2 DEF SyncUpdateFolder, Counted, Tables
  <2>2. sync'.at = "push"
    BY <2>1 DEF Counted
  <2>3. rows[f] \in RowSet /\ sync.target \in Targets
    BY <1>0, <1>2, RowTyped, Bounds DEF Counted
  <2>4. r \in RowSet /\ r.session = rows[f].session /\ r.target = sync.target
    BY <2>3 DEF RowSet
  <2> HIDE DEF r
  <2> QED BY <1>0, <1>2, <2>1, <2>2, <2>4, OneRow
<1> QED BY <1>1, <1>2

LEMMA ToldRows ==
  ASSUME Counted, Told, mgr.folder \in Folders
  PROVE  RowsMove
PROOF
<1>1. UNCHANGED minted
  BY DEF Told
<1>2. CASE UNCHANGED rows
  BY <1>1, <1>2, RowsSame, MintedSame
<1>3. CASE /\ rows[mgr.folder] # NoRow
           /\ rows' = [rows EXCEPT ![mgr.folder].target = NoTarget]
  BY <1>1, <1>3, FlagRows
<1> QED BY <1>2, <1>3 DEF Told

LEMMA FinishedRows ==
  ASSUME Counted, Finished, mgr.folder \in Folders
  PROVE  RowsMove
PROOF
<1> DEFINE f == mgr.folder
<1>1. CASE UNCHANGED rows /\ UNCHANGED minted
  BY <1>1, RowsSame, MintedSame
<1>2. CASE /\ rows[f] # NoRow /\ UNCHANGED minted
           /\ rows' = [rows EXCEPT ![f].selected = TRUE]
  BY <1>2, FlagRows
<1>3. CASE minted < MaxSessions /\ minted' = minted + 1 /\ UNCHANGED rows
  BY <1>3, NextSession, RowsSame
<1>4. CASE /\ minted < MaxSessions /\ minted' = minted + 1 /\ rows[f] # NoRow
           /\ rows' = [rows EXCEPT ![f] = Deselected(f)]
  <2>1. RowLike(Deselected(f), rows[f].target, minted + 1)
    <3>1. rows[f] \in RowSet /\ minted + 1 \in Sessions
      BY <1>4, RowTyped, NextSession
    <3> QED BY <3>1, RowExcept DEF Deselected
  <2>2. minted + 1 \in (minted + 1)..minted' /\ minted' \in minted..MaxSessions
    BY <1>4, NextSession
  <2> QED BY <1>4, <2>1, <2>2, OneRow DEF RowLike
<1> QED BY <1>1, <1>2, <1>3, <1>4 DEF Finished
-----------------------------------------------------------------------------
(* Who changes what.                                                        *)

(* What a step of another than the provider's sync may be.                  *)
HostStep ==
  \/ \E listed \in SUBSET Folders : PushFolderList(listed)
  \/ \E t \in Targets : DeleteDoomed(t) \/ UserDeletes(t) \/ deleteTargetsBestEffort(t)
  \/ \E r \in reports : LoseReport(r)
  \/ \E t \in Targets, i \in Items, v \in Versions : UserEdit(t, i, v)
  \/ \E h \in hooks : lookupBinding(h) \/ record(h)
  \/ \E f \in Folders, selected \in BOOLEAN : selectFolder(f, selected)
  \/ \E op \in {"disconnect", "remove"} : Teardown(op)
  \/ Connect

RowStep ==
  \/ ReplaceFolders
  \/ \E r \in reports : Report(r)
  \/ \E f \in Folders : setFolderDownloadOnly(f)
  \/ Told \/ clearAccount \/ Finished

SyncStep ==
  \/ \E f \in Folders : SyncStart(f)
  \/ SyncRemember \/ sweep \/ SyncCreate \/ SyncUpdateFolder \/ SyncBound
  \/ SyncSend \/ SyncSettle \/ SyncEnd

LEMMA Steps == Next => HostStep \/ RowStep \/ SyncStep
PROOF
  BY DEF Next, HostStep, RowStep, SyncStep

LEMMA HostStepRows ==
  HostStep => UNCHANGED <<rows, minted, made, marked, sync, cache, gone>>
PROOF
<1>1. ASSUME NEW listed \in SUBSET Folders, PushFolderList(listed)
      PROVE  UNCHANGED <<rows, minted, made, marked, sync, cache, gone>>
  BY <1>1 DEF PushFolderList
<1>2. ASSUME NEW t \in Targets, DeleteDoomed(t) \/ UserDeletes(t) \/ deleteTargetsBestEffort(t)
      PROVE  UNCHANGED <<rows, minted, made, marked, sync, cache, gone>>
  BY <1>2 DEF DeleteDoomed, UserDeletes, deleteTargetsBestEffort
<1>3. ASSUME NEW r \in reports, LoseReport(r)
      PROVE  UNCHANGED <<rows, minted, made, marked, sync, cache, gone>>
  BY <1>3 DEF LoseReport
<1>4. ASSUME NEW t \in Targets, NEW i \in Items, NEW v \in Versions, UserEdit(t, i, v)
      PROVE  UNCHANGED <<rows, minted, made, marked, sync, cache, gone>>
  BY <1>4 DEF UserEdit
<1>5. ASSUME NEW h \in hooks, lookupBinding(h) \/ record(h)
      PROVE  UNCHANGED <<rows, minted, made, marked, sync, cache, gone>>
  BY <1>5 DEF lookupBinding, record
<1>6. ASSUME NEW f \in Folders, NEW selected \in BOOLEAN, selectFolder(f, selected)
      PROVE  UNCHANGED <<rows, minted, made, marked, sync, cache, gone>>
  BY <1>6 DEF selectFolder
<1>7. ASSUME NEW op \in {"disconnect", "remove"}, Teardown(op)
      PROVE  UNCHANGED <<rows, minted, made, marked, sync, cache, gone>>
  BY <1>7 DEF Teardown
<1>8. ASSUME Connect
      PROVE  UNCHANGED <<rows, minted, made, marked, sync, cache, gone>>
  BY <1>8 DEF Connect
<1> QED BY <1>1, <1>2, <1>3, <1>4, <1>5, <1>6, <1>7, <1>8 DEF HostStep

LEMMA RowStepRest ==
  RowStep => UNCHANGED <<made, marked, sync, contents, queues, bindings, hooks>>
PROOF
<1>1. ReplaceFolders => UNCHANGED <<made, marked, sync, contents, queues, bindings, hooks>>
  BY DEF ReplaceFolders
<1>2. ASSUME NEW r \in reports, Report(r)
      PROVE  UNCHANGED <<made, marked, sync, contents, queues, bindings, hooks>>
  BY <1>2 DEF Report
<1>3. ASSUME NEW f \in Folders, setFolderDownloadOnly(f)
      PROVE  UNCHANGED <<made, marked, sync, contents, queues, bindings, hooks>>
  BY <1>3 DEF setFolderDownloadOnly
<1>4. Told => UNCHANGED <<made, marked, sync, contents, queues, bindings, hooks>>
  BY DEF Told
<1>5. clearAccount => UNCHANGED <<made, marked, sync, contents, queues, bindings, hooks>>
  BY DEF clearAccount
<1>6. Finished => UNCHANGED <<made, marked, sync, contents, queues, bindings, hooks>>
  BY DEF Finished
<1> QED BY <1>1, <1>2, <1>3, <1>4, <1>5, <1>6 DEF RowStep

-----------------------------------------------------------------------------
(* The inductive invariant.                                                 *)

(* Nothing has been filed under session s, nor will be: no binding and no   *)
(* event on its way names it.                                               *)
Unfiled(s) ==
  /\ queues[s] = <<>>
  /\ \A t \in Targets : bindings[t].session # s
  /\ \A h \in hooks : h.session # s

Shaped ==
  /\ queues = [s \in Sessions |-> queues[s]]
  /\ bindings = [t \in Targets |-> bindings[t]]
  /\ contents = [t \in Targets |-> contents[t]]
  /\ \A h \in hooks :
       /\ h = [at |-> h.at, target |-> h.target, item |-> h.item, op |-> h.op,
               session |-> h.session]
       /\ h.target \in Targets
  /\ mgr = [at |-> mgr.at, op |-> mgr.op, folder |-> mgr.folder, targets |-> mgr.targets]
  /\ mgr.folder \in Folders
  /\ \A r \in reports : r.at = "clear" => r.folder \in Folders

Reading == sync.at \in {"remember", "sweep"}

(* A session that was not minted yet, or that was minted since the sync     *)
(* read the rows, is unfiled.                                               *)
Filed ==
  /\ \A s \in Sessions : s > minted => Unfiled(s)
  /\ \A f \in Folders : /\ rows[f].session <= minted
                        /\ sync.at # "idle" => sync.seen[f].session <= minted
  /\ Reading =>
       \A f \in Folders :
         rows[f] # NoRow =>
           rows[f].session \in SessionsOf(sync.seen) \/ Unfiled(rows[f].session)

(* What a row names exists or has existed and is not marked, and no row has *)
(* come to name it since the sync read the rows.                            *)
Marked ==
  /\ marked \subseteq 1..made
  /\ \A t \in Targets : contents[t] # NotBound => t <= made
  /\ \A f \in Folders :
       rows[f].target # NoTarget =>
         /\ rows[f].target <= made /\ rows[f].target \notin marked
         /\ Reading => rows[f].target \in Named(sync.seen)
  /\ sync.at = "updateFolder" => sync.target \notin marked

(* The cache knows of a dropped folder what the user chose for it.          *)
Remembered ==
  /\ cache = [f \in Folders |-> cache[f]] /\ gone \in Tables
  /\ \A f \in Folders : gone[f] # NoRow => cache[f] = Bag(gone[f])

IInv == Counted /\ Shaped /\ Filed /\ Marked /\ Remembered

LEMMA InitKeeps == Init => IInv
PROOF
<1> SUFFICES ASSUME Init PROVE IInv
  OBVIOUS
<1>0. Cardinality(Folders) \in Nat /\ Cardinality(Folders) <= MaxSessions
  BY FS_CardinalityType, SessionsAssumption
<1>1. PICK first \in [Folders -> 1..Cardinality(Folders)] :
        rows = [f \in Folders |-> [NewRow(first[f]) EXCEPT !.selected = TRUE]]
  BY DEF Init
<1>2. ASSUME NEW f \in Folders
      PROVE  RowLike(rows[f], NoTarget, first[f]) /\ first[f] <= minted
  <2>1. first[f] \in 1..Cardinality(Folders) /\ first[f] \in Sessions
    BY <1>0, Bounds
  <2>2. rows[f] = [selected |-> TRUE, downloadOnly |-> FALSE, target |-> NoTarget,
                   session |-> first[f]]
    BY <1>1 DEF NewRow
  <2>3. first[f] <= minted
    BY <2>1, <1>0 DEF Init
  <2> QED BY <2>1, <2>2, <2>3 DEF RowLike, RowSet
<1>3. Counted
  <2>1. rows \in Tables
    BY <1>1, <1>2 DEF Tables, RowLike
  <2>2. (CHOOSE f \in Folders : TRUE) \in Folders
    BY SessionsAssumption
  <2>3. sync = IdleSync /\ push = IdlePush /\ minted = Cardinality(Folders) /\ made = 0
    BY DEF Init
  <2> QED BY <1>0, <2>1, <2>2, <2>3, Bounds DEF Counted, IdleSync, IdlePush, NoBinding
<1>4. Shaped
  <2>1. (CHOOSE f \in Folders : TRUE) \in Folders
    BY SessionsAssumption
  <2> QED BY <2>1 DEF Init, Shaped, IdleMgr, NoBinding
<1>5. Filed
  <2>1. sync.at = "idle"
    BY DEF Init, IdleSync
  <2>2. ASSUME NEW s \in Sessions, s > minted PROVE Unfiled(s)
    <3>1. queues[s] = <<>> /\ hooks = {} /\ \A t \in Targets : bindings[t].session = 0
      BY DEF Init, NoBinding
    <3> QED BY <3>1, Bounds DEF Unfiled
  <2> QED BY <1>2, <2>1, <2>2 DEF Filed, Reading, RowLike
<1>6. Marked
  <2>1. /\ sync.at = "idle" /\ marked = {}
        /\ \A t \in Targets : contents[t] = NotBound
    BY DEF Init, IdleSync
  <2> QED BY <1>2, <2>1 DEF Marked, Reading, RowLike
<1>7. Remembered
  <2>1. NoRow \in {NoRow} \cup RowSet
    OBVIOUS
  <2> QED BY <2>1 DEF Init, Remembered, Tables
<1> QED BY <1>3, <1>4, <1>5, <1>6, <1>7 DEF IInv

LEMMA RowStepMoves ==
  ASSUME Counted, Shaped, RowStep
  PROVE  RowsMove
PROOF
<1>1. CASE ReplaceFolders
  BY <1>1, ReplaceRows
<1>2. ASSUME NEW r \in reports, Report(r) PROVE RowsMove
  <2>1. CASE UNCHANGED <<rows, minted>>
    BY <2>1, RowsSame, MintedSame
  <2>2. CASE r.at = "clear" /\ clearTarget(r.folder)
    BY <2>2, ClearRows DEF Shaped
  <2> QED BY <1>2, <2>1, <2>2 DEF Report
<1>3. ASSUME NEW f \in Folders, setFolderDownloadOnly(f) PROVE RowsMove
  <2>1. /\ rows[f] # NoRow /\ UNCHANGED minted
        /\ rows' = [rows EXCEPT ![f].downloadOnly = TRUE]
    BY <1>3 DEF setFolderDownloadOnly
  <2> QED BY <2>1, FlagRows
<1>4. CASE Told
  BY <1>4, ToldRows DEF Shaped
<1>5. CASE clearAccount
  <2>1. rows' = [f \in Folders |-> NoRow] /\ UNCHANGED minted
    BY <1>5 DEF clearAccount
  <2>2. minted' \in minted..MaxSessions
    BY <2>1, MintedSame
  <2> QED BY <2>1, <2>2 DEF RowsMove, RowMoves, Tables
<1>6. CASE Finished
  BY <1>6, FinishedRows DEF Shaped
<1> QED BY <1>1, <1>2, <1>3, <1>4, <1>5, <1>6 DEF RowStep
-----------------------------------------------------------------------------
(* What the parts of the invariant need of a step.                          *)

(* The sync reads the rows when it starts, and never again.                 *)
SeenMoves ==
  /\ sync'.at # "idle" => \/ sync.at # "idle" /\ sync'.seen = sync.seen
                          \/ sync'.seen = rows /\ UNCHANGED rows
  /\ Reading' => \/ Reading /\ sync'.seen = sync.seen
                 \/ sync'.seen = rows /\ UNCHANGED rows

(* Things are filed under sessions that are known to somebody.              *)
FilesMove ==
  \A s \in Sessions :
    /\ Unfiled(s)
    /\ sync.at # "idle" => \A f \in Folders : sync.seen[f].session # s
    => Unfiled(s)'

LEMMA FiledKept ==
  ASSUME Counted, Filed, RowsMove, SeenMoves, FilesMove
  PROVE  Filed'
PROOF
<1>0. minted \in Nat /\ minted' \in Nat /\ minted <= minted' /\ rows' \in Tables
  BY Bounds DEF Counted, RowsMove
<1>1. ASSUME NEW s \in Sessions, s > minted PROVE Unfiled(s)'
  <2>1. Unfiled(s)
    BY <1>1 DEF Filed
  <2>2. s \in Nat
    BY Bounds
  <2>3. ASSUME sync.at # "idle", NEW f \in Folders PROVE sync.seen[f].session # s
    <3>1. sync.seen[f].session <= minted
      BY <2>3 DEF Filed
    <3> QED BY <1>0, <1>1, <2>2, <3>1
  <2> QED BY <2>1, <2>3 DEF FilesMove
<1>2. \A s \in Sessions : s > minted' => Unfiled(s)'
  <2>1. \A s \in Sessions : s > minted' => s > minted
    BY <1>0, Bounds
  <2> QED BY <1>1, <2>1
<1>3. ASSUME NEW f \in Folders PROVE rows'[f].session <= minted'
  <2>1. CASE rows'[f] = NoRow
    BY <1>0, <2>1, RowFacts
  <2>2. CASE rows'[f] # NoRow
    <3>1. \/ rows'[f].session \in (minted + 1)..minted'
          \/ rows[f] # NoRow /\ rows'[f].session = rows[f].session
      BY <2>2 DEF RowsMove, RowMoves
    <3>2. rows'[f].session \in Nat /\ rows[f].session <= minted
      BY <1>0, <2>2, Bounds DEF Filed, Tables, RowSet
    <3> QED BY <1>0, <3>1, <3>2
  <2> QED BY <2>1, <2>2
<1>4. ASSUME NEW f \in Folders, sync'.at # "idle" PROVE sync'.seen[f].session <= minted'
  <2>1. CASE sync.at # "idle" /\ sync'.seen = sync.seen
    <3>1. sync.seen[f].session <= minted /\ sync.seen[f] \in {NoRow} \cup RowSet
      BY <2>1 DEF Filed, Counted, Tables
    <3>2. sync.seen[f].session \in Nat
      BY <3>1, RowFacts, Bounds DEF RowSet
    <3> QED BY <1>0, <2>1, <3>1, <3>2
  <2>2. CASE sync'.seen = rows /\ UNCHANGED rows
    BY <1>3, <2>2
  <2> QED BY <1>4, <2>1, <2>2 DEF SeenMoves
<1>5. ASSUME Reading', NEW f \in Folders, rows'[f] # NoRow,
             NEW s \in Sessions, s = rows'[f].session
      PROVE  s \in SessionsOf(sync'.seen) \/ Unfiled(s)'
  <2>1. CASE sync'.seen = rows /\ UNCHANGED rows
    BY <1>5, <2>1 DEF SessionsOf
  <2>2. CASE Reading /\ sync'.seen = sync.seen
    <3>1. s # 0
      BY Bounds
    <3>2. CASE s \in (minted + 1)..minted'
      <4>1. s > minted
        BY <1>0, <3>2
      <4> QED BY <1>1, <4>1
    <3>3. CASE rows[f] # NoRow /\ s = rows[f].session
      <4>1. s \in SessionsOf(sync.seen) \/ Unfiled(s)
        BY <2>2, <3>3 DEF Filed
      <4>2. ASSUME s \notin SessionsOf(sync.seen), Unfiled(s) PROVE Unfiled(s)'
        <5>1. ASSUME NEW g \in Folders PROVE sync.seen[g].session # s
          <6>1. CASE sync.seen[g] = NoRow
            BY <3>1, <6>1, RowFacts
          <6>2. CASE sync.seen[g] # NoRow
            BY <4>2, <6>2 DEF SessionsOf
          <6> QED BY <6>1, <6>2
        <5> QED BY <4>2, <5>1 DEF FilesMove
      <4> QED BY <2>2, <4>1, <4>2
    <3> QED BY <1>5, <3>2, <3>3 DEF RowsMove, RowMoves
  <2> QED BY <1>5, <2>1, <2>2 DEF SeenMoves
<1>6. \A f \in Folders : rows'[f] # NoRow => rows'[f].session \in Sessions
  BY <1>0 DEF Tables, RowSet
<1> QED BY <1>2, <1>3, <1>4, <1>5, <1>6 DEF Filed, Unfiled, SessionsOf

LEMMA MarkedKept ==
  ASSUME Counted, Marked, RowsMove, SeenMoves,
         UNCHANGED marked, made' \in made..MaxTargets,
         \A t \in Targets : contents'[t] # NotBound => contents[t] # NotBound \/ t <= made',
         sync'.at = "updateFolder" => \/ sync.at = "updateFolder" /\ sync'.target = sync.target
                                      \/ sync'.target \notin marked
  PROVE  Marked'
PROOF
<1>0. made \in Nat /\ made' \in Nat /\ made <= made' /\ rows' \in Tables
  BY Bounds DEF Counted, RowsMove
<1>1. marked' \subseteq 1..made'
  BY <1>0 DEF Marked
<1>2. \A t \in Targets : contents'[t] # NotBound => t <= made'
  BY <1>0, Bounds DEF Marked
<1>3. ASSUME NEW f \in Folders, rows'[f].target # NoTarget
      PROVE  /\ rows'[f].target <= made' /\ rows'[f].target \notin marked'
             /\ Reading' => rows'[f].target \in Named(sync'.seen)
  <2>0. rows'[f] # NoRow /\ rows'[f] \in RowSet /\ rows'[f].target \in Nat
    <3>1. rows'[f] # NoRow /\ rows'[f] \in RowSet
      BY <1>0, <1>3, RowFacts DEF Tables
    <3> QED BY <3>1, Bounds DEF RowSet
  <2>1. CASE rows[f] # NoRow /\ rows'[f].target = rows[f].target
    <3>1. /\ rows'[f].target <= made /\ rows'[f].target \notin marked
          /\ Reading => rows'[f].target \in Named(sync.seen)
      BY <1>3, <2>1 DEF Marked
    <3>2. rows[f].target \in Named(rows)
      BY <1>3, <2>1 DEF Named
    <3>3. Reading' => rows'[f].target \in Named(sync'.seen)
      BY <2>1, <3>1, <3>2 DEF SeenMoves
    <3> QED BY <1>0, <2>0, <3>1, <3>3
  <2>2. CASE sync.at = "updateFolder" /\ rows'[f].target = sync.target
    <3>1. sync.target \in 1..made /\ sync.target \notin marked
      BY <2>2 DEF Counted, Marked
    <3>2. Reading' => rows'[f].target \in Named(sync'.seen)
      <4>1. ~Reading
        BY <2>2 DEF Reading
      <4>2. CASE sync'.seen = rows /\ UNCHANGED rows
        BY <1>3, <2>0, <4>2 DEF Named
      <4> QED BY <4>1, <4>2 DEF SeenMoves
    <3> QED BY <1>0, <2>2, <3>1, <3>2
  <2> QED BY <1>3, <2>0, <2>1, <2>2 DEF RowsMove, RowMoves
<1>4. sync'.at = "updateFolder" => sync'.target \notin marked'
  BY DEF Marked
<1> QED BY <1>1, <1>2, <1>3, <1>4 DEF Marked

LEMMA SyncSame ==
  ASSUME UNCHANGED sync
  PROVE  SeenMoves
PROOF
  BY DEF SeenMoves, Reading

LEMMA RowStepRemembers ==
  ASSUME IInv, RowStep
  PROVE  Remembered'
PROOF
<1>0. Counted /\ Shaped /\ Remembered /\ rows \in Tables
  BY DEF IInv, Counted
<1>1. CASE UNCHANGED <<cache, gone>>
  BY <1>0, <1>1 DEF Remembered
<1>2. CASE cache' = [f \in Folders |-> NoBag] /\ gone' = [f \in Folders |-> NoRow]
  BY <1>2 DEF Remembered, Tables
<1>3. CASE ReplaceFolders
  <2> DEFINE listed == push.listed
             fresh == {f \in listed : rows[f] = NoRow}
             dropped == {f \in Folders \ listed : rows[f] # NoRow}
             kept == {f \in dropped : rows[f].selected /\ account # "removed"}
  <2>1. /\ cache' = IF account = "removed" THEN cache
                    ELSE [f \in Folders |-> IF f \in fresh THEN NoBag
                                           ELSE IF f \in kept THEN Bag(rows[f])
                                           ELSE cache[f]]
        /\ gone' = [f \in Folders |-> IF f \in fresh THEN NoRow
                                     ELSE IF f \in kept THEN rows[f]
                                     ELSE gone[f]]
    BY <1>3 DEF ReplaceFolders, replaceAccountFolders
  <2>2. \A f \in Folders : ~(f \in fresh /\ f \in kept)
    OBVIOUS
  <2>3. account = "removed" => kept = {}
    OBVIOUS
  <2> HIDE DEF fresh, kept
  <2>4. cache' = [f \in Folders |-> cache'[f]]
    <3>1. CASE account = "removed"
      BY <1>0, <2>1, <3>1 DEF Remembered
    <3>2. CASE account # "removed"
      BY <2>1, <3>2
    <3> QED BY <3>1, <3>2
  <2>5. ASSUME NEW f \in Folders
        PROVE  /\ gone'[f] \in {NoRow} \cup RowSet
               /\ gone'[f] # NoRow => cache'[f] = Bag(gone'[f])
    <3>1. CASE f \in fresh
      <4>1. gone'[f] = NoRow
        BY <2>1, <3>1
      <4> QED BY <4>1
    <3>2. CASE f \in kept
      <4>1. f \notin fresh /\ account # "removed"
        BY <2>2, <2>3, <3>2
      <4>2. gone'[f] = rows[f] /\ cache'[f] = Bag(rows[f])
        BY <2>1, <3>2, <4>1
      <4> QED BY <1>0, <4>2 DEF Tables
    <3>3. CASE f \notin fresh /\ f \notin kept
      <4>1. gone'[f] = gone[f]
        BY <2>1, <3>3
      <4>2. cache'[f] = cache[f]
        BY <2>1, <3>3
      <4> QED BY <1>0, <4>1, <4>2 DEF Remembered, Tables
    <3> QED BY <3>1, <3>2, <3>3
  <2>6. gone' \in Tables
    BY <2>1, <2>5 DEF Tables
  <2> QED BY <2>4, <2>5, <2>6 DEF Remembered
<1>4. Told => \/ UNCHANGED <<cache, gone>>
              \/ cache' = [f \in Folders |-> NoBag] /\ gone' = [f \in Folders |-> NoRow]
  BY DEF Told
<1>5. Finished => \/ UNCHANGED <<cache, gone>>
                  \/ cache' = [f \in Folders |-> NoBag] /\ gone' = [f \in Folders |-> NoRow]
  BY DEF Finished
<1>6. \A r \in reports : Report(r) => UNCHANGED <<cache, gone>>
  BY DEF Report
<1>7. \A f \in Folders : setFolderDownloadOnly(f) => UNCHANGED <<cache, gone>>
  BY DEF setFolderDownloadOnly
<1>8. clearAccount => UNCHANGED <<cache, gone>>
  BY DEF clearAccount
<1> QED BY <1>1, <1>2, <1>3, <1>4, <1>5, <1>6, <1>7, <1>8 DEF RowStep

LEMMA RowStepShapes ==
  ASSUME IInv, RowStep
  PROVE  Shaped' /\ push'.listed \in SUBSET Folders
PROOF
<1>0. Counted /\ Shaped /\ RowsMove
  BY RowStepMoves DEF IInv
<1>1. UNCHANGED <<queues, bindings, contents, hooks>>
  BY RowStepRest
<1>2. ASSUME NEW r \in reports, Report(r)
      PROVE  /\ UNCHANGED <<mgr, push>>
             /\ \A q \in reports' : q.at = "clear" => q.folder \in Folders
  <2>1. UNCHANGED <<mgr, push>>
    BY <1>2 DEF Report
  <2>2. reports' \subseteq reports \cup {[at |-> "clear", target |-> r.target, folder |-> f] :
                                          f \in Folders}
    BY <1>2 DEF Report
  <2> QED BY <1>0, <2>1, <2>2 DEF Shaped
<1>3. ReplaceFolders => UNCHANGED <<mgr, reports>> /\ push' = IdlePush
  BY DEF ReplaceFolders
<1>4. \A f \in Folders : setFolderDownloadOnly(f) => UNCHANGED <<mgr, reports, push>>
  BY DEF setFolderDownloadOnly
<1>5. Told => UNCHANGED <<reports, push>> /\ mgr' \in {IdleMgr, [mgr EXCEPT !.at = "update"],
                                    [mgr EXCEPT !.at = "delete"], [mgr EXCEPT !.at = "clear"]}
  BY DEF Told
<1>6. clearAccount => UNCHANGED <<reports, push>> /\ mgr' = [mgr EXCEPT !.at = "delete"]
  BY DEF clearAccount
<1>7. Finished => UNCHANGED <<reports, push>> /\ mgr' = IdleMgr
  BY DEF Finished
<1>8. ASSUME \/ mgr' = mgr
             \/ mgr' \in {IdleMgr, [mgr EXCEPT !.at = "update"],
                          [mgr EXCEPT !.at = "delete"], [mgr EXCEPT !.at = "clear"]}
      PROVE  /\ mgr' = [at |-> mgr'.at, op |-> mgr'.op, folder |-> mgr'.folder,
                        targets |-> mgr'.targets]
             /\ mgr'.folder \in Folders
  <2>1. (CHOOSE f \in Folders : TRUE) \in Folders
    BY SessionsAssumption
  <2> QED BY <1>0, <1>8, <2>1 DEF Shaped, IdleMgr, NoBinding
<1>9. push'.listed \in SUBSET Folders
  BY <1>0, <1>2, <1>3, <1>4, <1>5, <1>6, <1>7 DEF RowStep, Counted, IdlePush
<1>10. /\ mgr' = [at |-> mgr'.at, op |-> mgr'.op, folder |-> mgr'.folder,
                  targets |-> mgr'.targets]
       /\ mgr'.folder \in Folders
       /\ \A q \in reports' : q.at = "clear" => q.folder \in Folders
  BY <1>0, <1>2, <1>3, <1>4, <1>5, <1>6, <1>7, <1>8 DEF RowStep, Shaped
<1> QED BY <1>0, <1>1, <1>9, <1>10 DEF Shaped

LEMMA RowStepKeeps ==
  ASSUME IInv, RowStep
  PROVE  IInv'
PROOF
<1>0. Counted /\ Shaped /\ Filed /\ Marked
  BY DEF IInv
<1>1. RowsMove /\ Shaped' /\ Remembered' /\ push'.listed \in SUBSET Folders
  BY <1>0, RowStepMoves, RowStepShapes, RowStepRemembers
<1>2. UNCHANGED <<made, marked, sync, contents, queues, bindings, hooks>>
  BY RowStepRest
<1>3. SeenMoves
  BY <1>2, SyncSame
<1>4. Counted'
  BY <1>0, <1>1, <1>2, Bounds DEF Counted, RowsMove
<1>5. Filed'
  <2>1. FilesMove
    BY <1>2 DEF FilesMove, Unfiled
  <2> QED BY <1>0, <1>1, <1>3, <2>1, FiledKept
<1>6. Marked'
  <2>1. made' \in made..MaxTargets
    BY <1>0, <1>2, Bounds DEF Counted
  <2>2. sync'.at = "updateFolder" => sync.at = "updateFolder" /\ sync'.target = sync.target
    BY <1>2
  <2> QED BY <1>0, <1>1, <1>2, <1>3, <2>1, <2>2, MarkedKept
<1> QED BY <1>1, <1>4, <1>5, <1>6 DEF IInv
-----------------------------------------------------------------------------
(* Steps of the host, the user and the observers.                           *)

(* Local resources are only made by the sync, which never makes them again. *)
MadeMoves ==
  /\ made' \in made..MaxTargets
  /\ \A t \in Targets : contents'[t] # NotBound => contents[t] # NotBound \/ t <= made'

HostMoves == Shaped' /\ FilesMove /\ MadeMoves /\ push'.listed \in SUBSET Folders

LEMMA ContentsSame ==
  Counted /\ UNCHANGED <<made, contents>> => MadeMoves
PROOF
  BY Bounds DEF Counted, MadeMoves

LEMMA FilesSame ==
  UNCHANGED <<queues, bindings, hooks>> => FilesMove
PROOF
  BY DEF FilesMove, Unfiled

(* Events that are new in their handlers have no session yet.               *)
LEMMA FilesEvent ==
  ASSUME UNCHANGED <<queues, bindings>>, \A h \in hooks' : h \in hooks \/ h.session = 0
  PROVE  FilesMove
PROOF
<1>1. ASSUME NEW s \in Sessions, Unfiled(s) PROVE Unfiled(s)'
  BY <1>1, Bounds DEF Unfiled
<1> QED BY <1>1 DEF FilesMove

LEMMA DeleteMoves ==
  ASSUME Counted, Shaped, NEW t \in Targets, Delete(t),
         UNCHANGED <<made, queues, bindings, push>>,
         mgr' = mgr \/ mgr' = [mgr EXCEPT !.targets = @ \ {t}]
  PROVE  HostMoves
PROOF
<1>1. contents' = [contents EXCEPT ![t] = NotBound]
  BY DEF Delete
<1>2. \A h \in hooks' : \/ h \in hooks
                        \/ \E i \in Items : h = [at |-> "event", target |-> t, item |-> i,
                                                 op |-> "deleted", session |-> 0]
  <2>1. CASE contents[t] = NotBound
    BY <2>1 DEF Delete
  <2>2. CASE contents[t] # NotBound
    <3>1. hooks' = hooks \cup {[at |-> "event", target |-> t, item |-> i,
                                op |-> "deleted", session |-> 0] :
                                  i \in {j \in Items : contents[t][j] # "gone"}}
      BY <2>2 DEF Delete
    <3> QED BY <3>1
  <2> QED BY <2>1, <2>2
<1>3. \A r \in reports' : r \in reports \/ r.at = "host"
  <2>1. CASE contents[t] = NotBound
    BY <2>1 DEF Delete
  <2>2. CASE contents[t] # NotBound
    <3>1. reports' = reports \cup
               IF bindings[t] = NoBinding THEN {}
               ELSE {[at |-> "host", target |-> t, folder |-> bindings[t].folder]}
      BY <2>2 DEF Delete
    <3> QED BY <3>1
  <2> QED BY <2>1, <2>2
<1>4. Shaped'
  <2>1. contents' = [u \in Targets |-> contents'[u]]
    BY <1>1 DEF Shaped
  <2>2. \A h \in hooks' : /\ h = [at |-> h.at, target |-> h.target, item |-> h.item,
                                  op |-> h.op, session |-> h.session]
                          /\ h.target \in Targets
    BY <1>2 DEF Shaped
  <2>3. /\ mgr' = [at |-> mgr'.at, op |-> mgr'.op, folder |-> mgr'.folder,
                   targets |-> mgr'.targets]
        /\ mgr'.folder \in Folders
    BY DEF Shaped
  <2>4. \A r \in reports' : r.at = "clear" => r.folder \in Folders
    BY <1>3 DEF Shaped
  <2> QED BY <2>1, <2>2, <2>3, <2>4 DEF Shaped
<1>5. FilesMove
  BY <1>2, FilesEvent
<1>6. MadeMoves
  <2>1. made' \in made..MaxTargets
    BY Bounds DEF Counted
  <2>2. \A u \in Targets : contents'[u] # NotBound => contents[u] # NotBound
    BY <1>1 DEF Shaped
  <2> QED BY <2>1, <2>2 DEF MadeMoves
<1> QED BY <1>4, <1>5, <1>6 DEF HostMoves, Counted

LEMMA HostStepMoves ==
  ASSUME Counted, Shaped, HostStep
  PROVE  HostMoves
PROOF
<1>0. (CHOOSE f \in Folders : TRUE) \in Folders
  BY SessionsAssumption
<1>1. ASSUME NEW listed \in SUBSET Folders, PushFolderList(listed) PROVE HostMoves
  <2>1. /\ push' = [at |-> "replace", listed |-> listed]
        /\ UNCHANGED <<made, contents, queues, bindings, hooks, reports, mgr>>
    BY <1>1 DEF PushFolderList
  <2>2. MadeMoves /\ FilesMove
    BY <2>1, ContentsSame, FilesSame
  <2>3. Shaped'
    BY <2>1 DEF Shaped
  <2> QED BY <2>1, <2>2, <2>3 DEF HostMoves
<1>2. ASSUME NEW t \in Targets, DeleteDoomed(t) \/ UserDeletes(t) \/ deleteTargetsBestEffort(t)
      PROVE  HostMoves
  <2>1. /\ Delete(t) /\ UNCHANGED <<made, queues, bindings, push>>
        /\ mgr' = mgr \/ mgr' = [mgr EXCEPT !.targets = @ \ {t}]
    BY <1>2 DEF DeleteDoomed, UserDeletes, deleteTargetsBestEffort
  <2> QED BY <2>1, DeleteMoves
<1>3. ASSUME NEW r \in reports, LoseReport(r) PROVE HostMoves
  <2>1. /\ reports' = reports \ {r}
        /\ UNCHANGED <<made, contents, queues, bindings, hooks, mgr, push>>
    BY <1>3 DEF LoseReport
  <2>2. MadeMoves /\ FilesMove
    BY <2>1, ContentsSame, FilesSame
  <2>3. Shaped'
    BY <2>1 DEF Shaped
  <2> QED BY <2>1, <2>2, <2>3 DEF HostMoves, Counted
<1>4. ASSUME NEW t \in Targets, NEW i \in Items, NEW v \in Versions, UserEdit(t, i, v)
      PROVE  HostMoves
  <2>1. /\ contents[t] # NotBound
        /\ contents' = [contents EXCEPT ![t] = [contents[t] EXCEPT ![i] = v]]
        /\ UNCHANGED <<made, queues, bindings, reports, mgr, push>>
    BY <1>4 DEF UserEdit, Resources, Shaped
  <2> DEFINE e == [at |-> "event", target |-> t, item |-> i, session |-> 0,
                   op |-> IF v = "gone" THEN "deleted" ELSE "updated"]
  <2>2. hooks' = hooks \cup {e}
    BY <1>4 DEF UserEdit
  <2>3. /\ e.session = 0 /\ e.target \in Targets
        /\ e = [at |-> e.at, target |-> e.target, item |-> e.item, op |-> e.op,
                session |-> e.session]
    OBVIOUS
  <2> HIDE DEF e
  <2>4. FilesMove
    BY <2>1, <2>2, <2>3, FilesEvent
  <2>5. MadeMoves
    <3>1. made' \in made..MaxTargets
      BY <2>1, Bounds DEF Counted
    <3>2. \A u \in Targets : contents'[u] # NotBound => contents[u] # NotBound
      BY <2>1 DEF Shaped
    <3> QED BY <3>1, <3>2 DEF MadeMoves
  <2>6. Shaped'
    <3>1. contents' = [u \in Targets |-> contents'[u]]
      BY <2>1 DEF Shaped
    <3>2. \A h \in hooks' : /\ h = [at |-> h.at, target |-> h.target, item |-> h.item,
                                    op |-> h.op, session |-> h.session]
                            /\ h.target \in Targets
      BY <2>2, <2>3 DEF Shaped
    <3> QED BY <2>1, <3>1, <3>2 DEF Shaped
  <2> QED BY <2>1, <2>4, <2>5, <2>6 DEF HostMoves, Counted
<1>5. ASSUME NEW h \in hooks, lookupBinding(h) PROVE HostMoves
  <2> DEFINE g == [h EXCEPT !.at = "record", !.session = bindings[h.target].session]
  <2>1. /\ hooks' \subseteq hooks \cup {g}
        /\ UNCHANGED <<made, contents, queues, bindings, reports, mgr, push>>
    BY <1>5 DEF lookupBinding
  <2>2. /\ g = [at |-> "record", target |-> h.target, item |-> h.item, op |-> h.op,
                session |-> bindings[h.target].session]
        /\ h.target \in Targets
    <3>1. PICK a, t, i, o, s :
            h = [at |-> a, target |-> t, item |-> i, op |-> o, session |-> s]
      BY DEF Shaped
    <3>2. h.target \in Targets
      BY DEF Shaped
    <3>3. PICK b : b = bindings[h.target].session
      OBVIOUS
    <3>4. h \in [at : {a}, target : {t}, item : {i}, op : {o}, session : {s}]
      BY <3>1
    <3>5. [h EXCEPT !.at = "record", !.session = b] \in
            [at : {"record"}, target : {t}, item : {i}, op : {o}, session : {b}]
      BY <3>4
    <3>6. g \in [at : {"record"}, target : {t}, item : {i}, op : {o}, session : {b}]
      BY <3>3, <3>5, Zenon
    <3> HIDE DEF g
    <3>7. g = [at |-> "record", target |-> t, item |-> i, op |-> o, session |-> b]
      BY <3>6
    <3>8. h.target = t /\ h.item = i /\ h.op = o
      BY <3>1
    <3> QED BY <3>2, <3>3, <3>7, <3>8, Zenon
  <2> HIDE DEF g
  <2>3. ASSUME NEW s \in Sessions, Unfiled(s) PROVE Unfiled(s)'
    <3>1. g.session # s
      BY <2>2, <2>3 DEF Unfiled
    <3> QED BY <2>1, <2>3, <3>1 DEF Unfiled
  <2>4. MadeMoves /\ FilesMove
    BY <2>1, <2>3, ContentsSame DEF FilesMove
  <2>5. Shaped'
    BY <2>1, <2>2 DEF Shaped
  <2> QED BY <2>1, <2>4, <2>5 DEF HostMoves, Counted
<1>6. ASSUME NEW h \in hooks, record(h) PROVE HostMoves
  <2>1. PICK q : queues' = [queues EXCEPT ![h.session] = q]
    BY <1>6 DEF record
  <2>2. /\ hooks' = hooks \ {h}
        /\ UNCHANGED <<made, contents, bindings, reports, mgr, push>>
    BY <1>6 DEF record
  <2>3. ASSUME NEW s \in Sessions, Unfiled(s) PROVE Unfiled(s)'
    <3>1. h.session # s
      BY <2>3 DEF Unfiled
    <3>2. queues'[s] = queues[s]
      BY <2>1, <3>1 DEF Shaped
    <3> QED BY <2>2, <2>3, <3>2 DEF Unfiled
  <2>4. MadeMoves /\ FilesMove
    BY <2>2, <2>3, ContentsSame DEF FilesMove
  <2>5. Shaped'
    BY <2>1, <2>2 DEF Shaped
  <2> QED BY <2>2, <2>4, <2>5 DEF HostMoves, Counted
<1>7. ASSUME NEW op, NEW f \in Folders, NEW targets, Ask(op, f, targets),
             UNCHANGED <<made, contents, queues, bindings, hooks, reports, push>>
      PROVE  HostMoves
  <2>1. MadeMoves /\ FilesMove
    BY <1>7, ContentsSame, FilesSame
  <2>2. Shaped'
    BY <1>7 DEF Shaped, Ask
  <2> QED BY <1>7, <2>1, <2>2 DEF HostMoves, Counted
<1>8. ASSUME NEW f \in Folders, NEW selected \in BOOLEAN, selectFolder(f, selected)
      PROVE  HostMoves
  BY <1>7, <1>8 DEF selectFolder
<1>9. ASSUME NEW op \in {"disconnect", "remove"}, Teardown(op) PROVE HostMoves
  <2>1. NoBinding.folder \in Folders
    BY <1>0 DEF NoBinding
  <2> QED BY <1>7, <1>9, <2>1 DEF Teardown
<1>10. ASSUME Connect PROVE HostMoves
  <2>1. UNCHANGED <<made, contents, queues, bindings, hooks, reports, mgr, push>>
    BY <1>10 DEF Connect
  <2>2. MadeMoves /\ FilesMove
    BY <2>1, ContentsSame, FilesSame
  <2>3. Shaped'
    BY <2>1 DEF Shaped
  <2> QED BY <2>1, <2>2, <2>3 DEF HostMoves, Counted
<1> QED BY <1>1, <1>2, <1>3, <1>4, <1>5, <1>6, <1>8, <1>9, <1>10 DEF HostStep

LEMMA HostStepKeeps ==
  ASSUME IInv, HostStep
  PROVE  IInv'
PROOF
<1>0. Counted /\ Shaped /\ Filed /\ Marked /\ Remembered
  BY DEF IInv
<1>1. HostMoves /\ UNCHANGED <<rows, minted, made, marked, sync, cache, gone>>
  BY <1>0, HostStepMoves, HostStepRows
<1>2. RowsMove /\ SeenMoves
  BY <1>0, <1>1, RowsSame, MintedSame, SyncSame
<1>3. Counted'
  BY <1>0, <1>1 DEF Counted, HostMoves
<1>4. Filed'
  BY <1>0, <1>1, <1>2, FiledKept DEF HostMoves
<1>5. Marked'
  <2>1. sync'.at = "updateFolder" => sync.at = "updateFolder" /\ sync'.target = sync.target
    BY <1>1
  <2> QED BY <1>0, <1>1, <1>2, <2>1, MarkedKept DEF HostMoves, MadeMoves
<1>6. Remembered'
  BY <1>0, <1>1 DEF Remembered
<1> QED BY <1>1, <1>3, <1>4, <1>5, <1>6 DEF IInv, HostMoves
-----------------------------------------------------------------------------
(* Steps of the provider's sync.                                            *)

SyncSet(at, folder, seen, target, item, done) ==
  [at : {at}, folder : {folder}, seen : {seen}, target : {target}, item : {item},
   done : {done}]

LEMMA SyncRecord ==
  ASSUME NEW q, NEW a, NEW f, NEW n, NEW t, NEW i, NEW d, q \in SyncSet(a, f, n, t, i, d)
  PROVE  q = [at |-> a, folder |-> f, seen |-> n, target |-> t, item |-> i, done |-> d]
PROOF
  BY DEF SyncSet

LEMMA SyncExcept ==
  ASSUME NEW q, NEW a, NEW f, NEW n, NEW t, NEW i, NEW d, q \in SyncSet(a, f, n, t, i, d),
         NEW b, NEW g, NEW m, NEW u, NEW j, NEW e
  PROVE  /\ [q EXCEPT !.at = b] \in SyncSet(b, f, n, t, i, d)
         /\ [q EXCEPT !.at = b, !.target = u] \in SyncSet(b, f, n, u, i, d)
         /\ [q EXCEPT !.at = b, !.item = j, !.done = e] \in SyncSet(b, f, n, t, j, e)
         /\ [q EXCEPT !.at = b, !.folder = g, !.seen = m, !.target = u]
              \in SyncSet(b, g, m, u, i, d)
PROOF
<1>1. [q EXCEPT !.at = b] \in SyncSet(b, f, n, t, i, d)
  BY DEF SyncSet
<1>2. [q EXCEPT !.at = b, !.target = u] \in SyncSet(b, f, n, u, i, d)
  BY DEF SyncSet
<1>3. [q EXCEPT !.at = b, !.item = j, !.done = e] \in SyncSet(b, f, n, t, j, e)
  BY DEF SyncSet
<1>4. [q EXCEPT !.at = b, !.folder = g, !.seen = m, !.target = u]
        \in SyncSet(b, g, m, u, i, d)
  BY DEF SyncSet
<1> QED BY <1>1, <1>2, <1>3, <1>4

(* What a step of the sync may make of its record.                          *)
SyncMoves ==
  \/ sync' = IdleSync
  \/ /\ sync.at # "idle" /\ sync'.at # "idle"
     /\ sync'.at \notin {"remember", "sweep", "updateFolder"} \/ (Reading /\ sync'.at = "sweep")
     /\ sync' \in SyncSet(sync'.at, sync.folder, sync.seen, sync.target, sync'.item, sync'.done)
  \/ \E f \in Folders : /\ UNCHANGED rows
                        /\ sync' \in SyncSet("remember", f, rows, rows[f].target,
                                             IdleSync.item, IdleSync.done)
  \/ /\ sync.at # "idle" /\ made' = made + 1
     /\ sync' \in SyncSet("updateFolder", sync.folder, sync.seen, made + 1, sync.item, sync.done)

LEMMA SyncSeen ==
  ASSUME Counted, Marked, SyncMoves, made' \in made..MaxTargets
  PROVE  /\ SeenMoves
         /\ sync' = [at |-> sync'.at, folder |-> sync'.folder, seen |-> sync'.seen,
                     target |-> sync'.target, item |-> sync'.item, done |-> sync'.done]
         /\ sync'.folder \in Folders
         /\ sync'.at # "idle" => sync'.seen \in Tables
         /\ sync'.at = "updateFolder" => sync'.target \in 1..made' /\ sync'.target \notin marked
PROOF
<1> USE DEF Reading, SeenMoves
<1>1. CASE sync' = IdleSync
  <2>1. (CHOOSE f \in Folders : TRUE) \in Folders
    BY SessionsAssumption
  <2> QED BY <1>1, <2>1 DEF IdleSync, NoBinding
<1>2. CASE /\ sync.at # "idle" /\ sync'.at # "idle"
           /\ \/ sync'.at \notin {"remember", "sweep", "updateFolder"}
              \/ Reading /\ sync'.at = "sweep"
           /\ sync' \in SyncSet(sync'.at, sync.folder, sync.seen, sync.target, sync'.item,
                                sync'.done)
  <2>1. sync' = [at |-> sync'.at, folder |-> sync.folder, seen |-> sync.seen,
                 target |-> sync.target, item |-> sync'.item, done |-> sync'.done]
    BY <1>2, SyncRecord
  <2>2. sync'.folder = sync.folder /\ sync'.seen = sync.seen /\ sync'.target = sync.target
    BY <2>1
  <2> QED BY <1>2, <2>1, <2>2 DEF Counted
<1>3. ASSUME NEW f \in Folders, UNCHANGED rows,
             sync' \in SyncSet("remember", f, rows, rows[f].target, IdleSync.item, IdleSync.done)
      PROVE  /\ SeenMoves
             /\ sync' = [at |-> sync'.at, folder |-> sync'.folder, seen |-> sync'.seen,
                         target |-> sync'.target, item |-> sync'.item, done |-> sync'.done]
             /\ sync'.folder \in Folders /\ sync'.seen \in Tables /\ sync'.at = "remember"
  <2>1. sync' = [at |-> "remember", folder |-> f, seen |-> rows, target |-> rows[f].target,
                 item |-> IdleSync.item, done |-> IdleSync.done]
    BY <1>3, SyncRecord
  <2> QED BY <1>3, <2>1 DEF Counted
<1>4. CASE /\ sync.at # "idle" /\ made' = made + 1
           /\ sync' \in SyncSet("updateFolder", sync.folder, sync.seen, made + 1, sync.item,
                                sync.done)
  <2>1. sync' = [at |-> "updateFolder", folder |-> sync.folder, seen |-> sync.seen,
                 target |-> made + 1, item |-> sync.item, done |-> sync.done]
    BY <1>4, SyncRecord
  <2>2. made + 1 \in 1..made' /\ made + 1 \notin marked
    BY <1>4, Bounds DEF Counted, Marked
  <2> QED BY <1>4, <2>1, <2>2 DEF Counted
<1> QED BY <1>1, <1>2, <1>3, <1>4 DEF SyncMoves
(* The queues, the bindings and the resources are functions.                *)
FilesShaped ==
  /\ queues = [s \in Sessions |-> queues[s]]
  /\ bindings = [t \in Targets |-> bindings[t]]
  /\ contents = [t \in Targets |-> contents[t]]

LEMMA SyncAt ==
  ASSUME Counted, NEW b, sync' = [sync EXCEPT !.at = b], sync.at # "idle", b # "idle",
         b \notin {"remember", "sweep", "updateFolder"} \/ (Reading /\ b = "sweep")
  PROVE  SyncMoves
PROOF
<1>1. sync \in SyncSet(sync.at, sync.folder, sync.seen, sync.target, sync.item, sync.done)
  <2>1. PICK a, f, n, t, i, d : sync = [at |-> a, folder |-> f, seen |-> n, target |-> t,
                                        item |-> i, done |-> d]
    BY DEF Counted
  <2> QED BY <2>1 DEF SyncSet
<1>2. sync' \in SyncSet(b, sync.folder, sync.seen, sync.target, sync.item, sync.done)
  BY <1>1, SyncExcept
<1>3. /\ sync'.at = b
      /\ sync' \in SyncSet(sync'.at, sync.folder, sync.seen, sync.target, sync'.item, sync'.done)
  BY <1>2 DEF SyncSet
<1> QED BY <1>3 DEF SyncMoves

LEMMA SyncStartMoves ==
  ASSUME Counted, NEW f \in Folders, SyncStart(f)
  PROVE  SyncMoves
PROOF
<1>1. IdleSync \in SyncSet("idle", NoBinding.folder, <<>>, NoTarget, IdleSync.item, {})
  BY DEF IdleSync, SyncSet
<1>2. IdleSync.done = {}
  BY DEF IdleSync
<1>3. sync' = [IdleSync EXCEPT !.at = "remember", !.folder = f, !.seen = rows,
                              !.target = rows[f].target]
  BY DEF SyncStart
<1>4. sync' \in SyncSet("remember", f, rows, rows[f].target, IdleSync.item, IdleSync.done)
  BY <1>1, <1>2, <1>3, SyncExcept
<1>5. UNCHANGED rows
  BY DEF SyncStart
<1> QED BY <1>4, <1>5 DEF SyncMoves

LEMMA SyncOneMoves ==
  ASSUME Counted, Shaped, sync.at # "idle", UNCHANGED hooks,
         NEW s, s = sync.seen[sync.folder].session,
         \/ /\ UNCHANGED bindings
            /\ \E q : queues' = [queues EXCEPT ![s] = q]
         \/ /\ UNCHANGED queues
            /\ \E b : b.session = s /\ bindings' = [bindings EXCEPT ![sync.target] = b]
  PROVE  FilesMove
PROOF
<1>1. sync.folder \in Folders
  BY DEF Counted
<1>2. ASSUME NEW z \in Sessions, Unfiled(z), z # s PROVE Unfiled(z)'
  <2>1. queues'[z] = queues[z]
    BY <1>2 DEF Shaped
  <2>2. \A t \in Targets : bindings'[t] = bindings[t] \/ bindings'[t].session = s
    BY DEF Shaped
  <2> QED BY <1>2, <2>1, <2>2 DEF Unfiled
<1> QED BY <1>1, <1>2 DEF FilesMove

LEMMA RememberMoves ==
  ASSUME Counted, Shaped, SyncRemember
  PROVE  FilesMove
PROOF
<1>1. /\ bindings' = rememberBindings(sync.seen) /\ sync.at = "remember"
      /\ UNCHANGED <<queues, hooks>>
  BY DEF SyncRemember, SyncUnchanged
<1>2. ASSUME NEW t \in Targets
      PROVE  \/ bindings'[t] = bindings[t]
             \/ \E f \in Folders : bindings'[t].session = sync.seen[f].session
  <2>1. CASE t \notin Named(sync.seen)
    BY <1>1, <2>1 DEF rememberBindings
  <2>2. CASE t \in Named(sync.seen)
    <3> DEFINE P(g) == sync.seen[g] # NoRow /\ sync.seen[g].target = t
               f == CHOOSE g \in Folders : P(g)
    <3>1. \E g \in Folders : P(g)
      BY <2>2 DEF Named
    <3>2. f \in Folders
      BY <3>1
    <3>3. bindings'[t] = [folder |-> f, session |-> sync.seen[f].session]
      BY <1>1, <2>2 DEF rememberBindings
    <3> HIDE DEF f
    <3> QED BY <3>2, <3>3
  <2> QED BY <2>1, <2>2
<1>3. ASSUME NEW s \in Sessions, Unfiled(s), \A f \in Folders : sync.seen[f].session # s
      PROVE  Unfiled(s)'
  BY <1>1, <1>2, <1>3 DEF Unfiled
<1> QED BY <1>1, <1>3 DEF FilesMove

LEMMA SweepMoves ==
  ASSUME Counted, Shaped, sweep
  PROVE  FilesMove
PROOF
<1>1. UNCHANGED hooks
  BY DEF sweep, SyncUnchanged
<1>2. ASSUME NEW s \in Sessions, Unfiled(s) PROVE Unfiled(s)'
  <2>1. queues'[s] = queues[s] \/ queues'[s] = <<>>
    BY DEF sweep
  <2>2. ASSUME NEW t \in Targets PROVE bindings'[t].session # s
    <3>1. bindings'[t] = bindings[t] \/ bindings'[t] = NoBinding
      BY DEF sweep
    <3>2. NoBinding.session = 0
      BY DEF NoBinding
    <3> QED BY <1>2, <3>1, <3>2, Bounds DEF Unfiled
  <2> QED BY <1>1, <1>2, <2>1, <2>2 DEF Unfiled
<1> QED BY <1>2 DEF FilesMove
SyncGoal == SyncMoves /\ MadeMoves /\ FilesMove /\ RowsMove /\ FilesShaped'

(* A step that only moves the sync on.                                      *)
LEMMA SyncOn ==
  ASSUME Counted, Shaped, SyncMoves, UNCHANGED <<rows, made, contents, queues, bindings>>,
         SyncUnchanged
  PROVE  SyncGoal
PROOF
<1>1. FilesShaped' /\ MadeMoves /\ FilesMove
  BY ContentsSame, FilesSame DEF Shaped, FilesShaped, SyncUnchanged
<1>2. RowsMove
  BY RowsSame, MintedSame DEF SyncUnchanged
<1> QED BY <1>1, <1>2 DEF SyncGoal

LEMMA SyncStepMoves ==
  ASSUME Counted, Shaped, Marked, SyncStep
  PROVE  SyncGoal
PROOF
<1>0. /\ UNCHANGED minted => minted' \in minted..MaxSessions
      /\ sync.folder \in Folders
      /\ FilesShaped
  BY MintedSame DEF Counted, Shaped, FilesShaped
<1>1. ASSUME NEW f \in Folders, SyncStart(f) PROVE SyncGoal
  <2>1. UNCHANGED <<rows, made, contents, queues, bindings>> /\ SyncUnchanged
    BY <1>1 DEF SyncStart
  <2> QED BY <1>1, <2>1, SyncStartMoves, SyncOn
<1>2. CASE SyncRemember
  <2>1. /\ sync.at = "remember" /\ sync' = [sync EXCEPT !.at = "sweep"]
        /\ UNCHANGED <<rows, made, contents, queues, hooks, minted>>
        /\ bindings' = rememberBindings(sync.seen)
    BY <1>2 DEF SyncRemember, SyncUnchanged
  <2>2. SyncMoves
    BY <2>1, SyncAt DEF Reading
  <2>3. MadeMoves /\ FilesMove /\ RowsMove
    BY <1>0, <1>2, <2>1, ContentsSame, RememberMoves, RowsSame
  <2>4. FilesShaped'
    BY <1>0, <2>1 DEF FilesShaped, rememberBindings
  <2> QED BY <2>2, <2>3, <2>4 DEF SyncGoal
<1>3. CASE sweep
  <2>1. /\ sync.at = "sweep" /\ sync' = [sync EXCEPT !.at = "bind"]
        /\ UNCHANGED <<rows, made, contents, hooks, minted>>
        /\ queues' = [s \in Sessions |-> IF s \in Claimed(sync.seen) THEN queues[s] ELSE <<>>]
    BY <1>3 DEF sweep, SyncUnchanged
  <2>2. SyncMoves
    BY <2>1, SyncAt
  <2>3. MadeMoves /\ FilesMove /\ RowsMove
    BY <1>0, <1>3, <2>1, ContentsSame, SweepMoves, RowsSame
  <2>4. bindings' = [t \in Targets |-> bindings'[t]]
    BY <1>3 DEF sweep
  <2>5. FilesShaped'
    BY <1>0, <2>1, <2>4 DEF FilesShaped
  <2> QED BY <2>2, <2>3, <2>5 DEF SyncGoal
<1>4. CASE SyncCreate
  <2>1. /\ sync.at = "bind" /\ made < MaxTargets /\ made' = made + 1
        /\ sync' = [sync EXCEPT !.at = "updateFolder", !.target = made + 1]
        /\ contents' = [contents EXCEPT ![made + 1] = server[sync.folder]]
        /\ UNCHANGED <<rows, queues, bindings, hooks, minted>>
    BY <1>4 DEF SyncCreate, SyncUnchanged
  <2>2. SyncMoves
    <3>1. PICK a, f, n, t, i, d : sync = [at |-> a, folder |-> f, seen |-> n, target |-> t,
                                          item |-> i, done |-> d]
      BY DEF Counted
    <3>2. sync \in SyncSet(sync.at, sync.folder, sync.seen, sync.target, sync.item, sync.done)
      BY <3>1 DEF SyncSet
    <3>3. sync' \in SyncSet("updateFolder", sync.folder, sync.seen, made + 1, sync.item,
                            sync.done)
      BY <2>1, <3>2, SyncExcept
    <3> QED BY <2>1, <3>3 DEF SyncMoves
  <2>3. MadeMoves
    <3>1. made' \in made..MaxTargets
      BY <2>1, Bounds DEF Counted
    <3>2. ASSUME NEW t \in Targets, contents'[t] # NotBound
          PROVE  contents[t] # NotBound \/ t <= made'
      <4>1. CASE t = made + 1
        BY <2>1, <3>1, <4>1, Bounds DEF Counted
      <4>2. CASE t # made + 1
        BY <2>1, <3>2, <4>2 DEF Shaped
      <4> QED BY <4>1, <4>2
    <3> QED BY <3>1, <3>2 DEF MadeMoves
  <2>4. FilesMove /\ RowsMove
    BY <1>0, <2>1, FilesSame, RowsSame
  <2>5. FilesShaped'
    BY <1>0, <2>1 DEF FilesShaped
  <2> QED BY <2>2, <2>3, <2>4, <2>5 DEF SyncGoal
<1>5. CASE SyncUpdateFolder
  <2>1. sync.at = "updateFolder" /\ UNCHANGED <<made, contents, queues, hooks, minted>>
    BY <1>5 DEF SyncUpdateFolder, SyncUnchanged
  <2>2. SyncMoves
    <3>1. sync' = IdleSync \/ sync' = [sync EXCEPT !.at = "push"]
      BY <1>5 DEF SyncUpdateFolder
    <3>2. CASE sync' = [sync EXCEPT !.at = "push"]
      BY <2>1, <3>2, SyncAt
    <3> QED BY <3>1, <3>2 DEF SyncMoves
  <2>3. MadeMoves /\ RowsMove
    BY <1>5, <2>1, ContentsSame, UpdateFolderRows
  <2> DEFINE b == [folder |-> sync.folder, session |-> sync.seen[sync.folder].session]
  <2>4. /\ b.session = sync.seen[sync.folder].session
        /\ bindings' = bindings \/ bindings' = [bindings EXCEPT ![sync.target] = b]
    BY <1>5 DEF SyncUpdateFolder
  <2> HIDE DEF b
  <2>5. FilesMove
    <3>1. CASE bindings' = bindings
      BY <2>1, <3>1, FilesSame
    <3>2. CASE bindings' = [bindings EXCEPT ![sync.target] = b]
      BY <2>1, <2>4, <3>2, SyncOneMoves
    <3> QED BY <2>4, <3>1, <3>2
  <2>6. FilesShaped'
    BY <1>0, <2>1, <2>4 DEF FilesShaped
  <2> QED BY <2>2, <2>3, <2>5, <2>6 DEF SyncGoal
<1>6. CASE SyncBound
  <2>1. /\ UNCHANGED <<rows, made, contents, queues, bindings>> /\ SyncUnchanged
        /\ sync.at = "bind"
        /\ sync' = IdleSync \/ sync' = [sync EXCEPT !.at = "push"]
    BY <1>6 DEF SyncBound
  <2>2. CASE sync' = [sync EXCEPT !.at = "push"]
    BY <2>1, <2>2, SyncAt, SyncOn
  <2>3. CASE sync' = IdleSync
    BY <2>1, <2>3, SyncOn DEF SyncMoves
  <2> QED BY <2>1, <2>2, <2>3
<1>7. CASE SyncSend
  <2>1. /\ UNCHANGED <<rows, made, contents, queues, bindings>> /\ SyncUnchanged
        /\ sync.at = "push"
    BY <1>7 DEF SyncSend
  <2> DEFINE i == Pending[1].item
  <2>2. PICK a \in {"settle", "failed"} :
          sync' = [sync EXCEPT !.at = a, !.item = i, !.done = @ \cup {i}]
    BY <1>7 DEF SyncSend
  <2> HIDE DEF i
  <2>3. SyncMoves
    <3>1. PICK c, f, n, t, j, d : sync = [at |-> c, folder |-> f, seen |-> n, target |-> t,
                                          item |-> j, done |-> d]
      BY DEF Counted
    <3>2. sync \in SyncSet(sync.at, sync.folder, sync.seen, sync.target, sync.item, sync.done)
      BY <3>1 DEF SyncSet
    <3>3. sync' \in SyncSet(a, sync.folder, sync.seen, sync.target, i, sync.done \cup {i})
      BY <2>2, <3>2, SyncExcept
    <3>4. /\ sync'.at = a
          /\ sync' \in SyncSet(sync'.at, sync.folder, sync.seen, sync.target, sync'.item,
                               sync'.done)
      BY <3>3 DEF SyncSet
    <3> QED BY <2>1, <3>4 DEF SyncMoves
  <2> QED BY <2>1, <2>3, SyncOn
<1>8. CASE SyncSettle
  <2> DEFINE s == sync.seen[sync.folder].session
  <2>1. /\ sync.at \in {"settle", "failed"} /\ sync' = [sync EXCEPT !.at = "push"]
        /\ UNCHANGED <<rows, made, contents, bindings, hooks, minted>>
    BY <1>8 DEF SyncSettle, SyncUnchanged
  <2>2. PICK q : queues' = [queues EXCEPT ![s] = q]
    BY <1>8 DEF SyncSettle
  <2>3. SyncMoves
    BY <2>1, SyncAt
  <2>4. MadeMoves /\ RowsMove
    BY <1>0, <2>1, ContentsSame, RowsSame
  <2>5. FilesMove
    BY <2>1, <2>2, SyncOneMoves
  <2>6. FilesShaped'
    BY <1>0, <2>1, <2>2 DEF FilesShaped
  <2> QED BY <2>3, <2>4, <2>5, <2>6 DEF SyncGoal
<1>9. CASE SyncEnd
  <2>1. /\ UNCHANGED <<rows, made, contents, queues, bindings>> /\ SyncUnchanged
        /\ sync' = IdleSync
    BY <1>9 DEF SyncEnd
  <2> QED BY <2>1, SyncOn DEF SyncMoves
<1> QED BY <1>1, <1>2, <1>3, <1>4, <1>5, <1>6, <1>7, <1>8, <1>9 DEF SyncStep

(* A sweep marks no resource that a row points at.                          *)
LEMMA SweepMarks ==
  ASSUME Counted, Shaped, Marked, sweep
  PROVE  Marked'
PROOF
<1>1. /\ sync.at = "sweep" /\ sync'.at = "bind"
      /\ UNCHANGED <<rows, made, contents>>
      /\ marked' = marked \cup (Orphaned(sync.seen) \cap Resources)
  BY DEF sweep, Counted
<1>2. Orphaned(sync.seen) \cap Resources \subseteq 1..made
  BY Bounds DEF Marked, Counted, Resources
<1>3. ASSUME NEW f \in Folders, rows[f].target # NoTarget
      PROVE  rows[f].target \notin Orphaned(sync.seen)
  BY <1>1, <1>3 DEF Marked, Reading, Orphaned
<1> QED BY <1>1, <1>2, <1>3 DEF Marked, Reading

LEMMA SyncStepKeeps ==
  ASSUME IInv, SyncStep
  PROVE  IInv'
PROOF
<1>0. Counted /\ Shaped /\ Filed /\ Marked /\ Remembered
  BY DEF IInv
<1>1. SyncGoal
  BY <1>0, SyncStepMoves
<1>2. UNCHANGED <<cache, gone, minted, hooks, mgr, reports, push>>
  BY DEF SyncStep, SyncUnchanged, SyncStart, SyncRemember, sweep, SyncCreate,
         SyncUpdateFolder, SyncBound, SyncSend, SyncSettle, SyncEnd
<1>3. /\ SeenMoves
      /\ sync' = [at |-> sync'.at, folder |-> sync'.folder, seen |-> sync'.seen,
                  target |-> sync'.target, item |-> sync'.item, done |-> sync'.done]
      /\ sync'.folder \in Folders
      /\ sync'.at # "idle" => sync'.seen \in Tables
      /\ sync'.at = "updateFolder" => sync'.target \in 1..made' /\ sync'.target \notin marked
  BY <1>0, <1>1, SyncSeen DEF SyncGoal, MadeMoves
<1>4. Counted'
  <2>1. minted' \in 0..MaxSessions /\ made' \in 0..MaxTargets /\ rows' \in Tables
    BY <1>0, <1>1, <1>2, Bounds DEF SyncGoal, MadeMoves, RowsMove, Counted
  <2> QED BY <1>0, <1>2, <1>3, <2>1 DEF Counted
<1>5. Shaped'
  BY <1>0, <1>1, <1>2 DEF Shaped, SyncGoal, FilesShaped
<1>6. Filed'
  BY <1>0, <1>1, <1>3, FiledKept DEF SyncGoal
<1>7. Marked'
  <2>1. CASE sweep
    BY <1>0, <2>1, SweepMarks
  <2>2. CASE ~sweep
    <3>1. UNCHANGED marked
      BY <2>2 DEF SyncStep, SyncStart, SyncRemember, SyncCreate, SyncUpdateFolder,
                  SyncBound, SyncSend, SyncSettle, SyncEnd
    <3> QED BY <1>0, <1>1, <1>3, <3>1, MarkedKept DEF SyncGoal, MadeMoves
  <2> QED BY <2>1, <2>2
<1>8. Remembered'
  BY <1>0, <1>2 DEF Remembered
<1> QED BY <1>4, <1>5, <1>6, <1>7, <1>8 DEF IInv
-----------------------------------------------------------------------------
(* The inductive invariant holds in every reachable state.                  *)
LEMMA NextKeeps == IInv /\ [Next]_vars => IInv'
PROOF
<1> SUFFICES ASSUME IInv, [Next]_vars PROVE IInv'
  OBVIOUS
<1>1. CASE Next
  BY <1>1, Steps, HostStepKeeps, RowStepKeeps, SyncStepKeeps
<1>2. CASE UNCHANGED vars
  BY <1>2 DEF vars, IInv, Counted, Shaped, Filed, Marked, Remembered, Reading, Unfiled,
              SessionsOf, Named
<1> QED BY <1>1, <1>2

LEMMA Invariance == Spec => []IInv
PROOF
  BY InitKeeps, NextKeeps, PTL DEF Spec

(* A set of numbers has a least one.                                        *)
LEMMA Least ==
  ASSUME NEW T \in SUBSET Nat, T # {}
  PROVE  \E x \in T : \A y \in T : x <= y
PROOF
<1> DEFINE R == {p \in Nat \X Nat : p[1] < p[2]}
<1>1. IsWellFoundedOn(R, Nat)
  BY NatLessThanWellFounded DEF OpToRel
<1> HIDE DEF R
<1>2. PICK x \in T : \A y \in T : ~ (<<y, x>> \in R)
  BY <1>1, WFMin
<1>3. ASSUME NEW y \in T PROVE x <= y
  <2>1. ~(<<y, x>> \in R)
    BY <1>2
  <2> QED BY <2>1 DEF R
<1> QED BY <1>3

(* What holds at 0, and from each number on at the next, holds up to N.     *)
LEMMA Climb ==
  ASSUME NEW N \in Nat, NEW T \in SUBSET (0..N), 0 \in T,
         \A n \in 0..N : n + 1 \in 0..N /\ n \in T => n + 1 \in T
  PROVE  T = 0..N
PROOF
<1> DEFINE Bad == (0..N) \ T
<1>1. SUFFICES ASSUME Bad # {} PROVE FALSE
  OBVIOUS
<1>2. Bad \in SUBSET Nat
  OBVIOUS
<1> HIDE DEF Bad
<1>3. PICK x \in Bad : \A y \in Bad : x <= y
  BY <1>1, <1>2, Least
<1>4. x \in 0..N /\ x \notin T /\ x # 0
  BY <1>3 DEF Bad
<1>5. x - 1 \in 0..N /\ ~(x <= x - 1) /\ (x - 1) + 1 = x
  BY <1>4
<1>6. x - 1 \in T
  BY <1>3, <1>5 DEF Bad
<1> QED BY <1>4, <1>5, <1>6
LEMMA SeqFacts ==
  ASSUME NEW S, NEW q \in Seq(S)
  PROVE  /\ Len(q) \in Nat /\ DOMAIN q = 1..Len(q)
         /\ \A k \in DOMAIN q : q[k] \in S
         /\ Range(q) = {q[k] : k \in DOMAIN q}
         /\ Range(q) \in SUBSET S
PROOF
<1>1. Len(q) \in Nat /\ DOMAIN q = 1..Len(q) /\ \A k \in DOMAIN q : q[k] \in S
  OBVIOUS
<1> QED BY <1>1 DEF Range
LEMMA AppendFacts ==
  ASSUME NEW S, NEW q \in Seq(S), NEW r \in S
  PROVE  /\ Append(q, r) \in Seq(S) /\ Len(Append(q, r)) = Len(q) + 1
         /\ \A k \in 1..Len(q) : Append(q, r)[k] = q[k]
         /\ Append(q, r)[Len(q) + 1] = r
         /\ Range(Append(q, r)) = Range(q) \cup {r}
PROOF
<1>1. /\ Append(q, r) \in Seq(S) /\ Len(Append(q, r)) = Len(q) + 1
      /\ \A k \in 1..Len(q) : Append(q, r)[k] = q[k]
      /\ Append(q, r)[Len(q) + 1] = r /\ Len(q) \in Nat
  OBVIOUS
<1>2. DOMAIN Append(q, r) = 1..(Len(q) + 1) /\ DOMAIN q = 1..Len(q)
  BY <1>1, SeqFacts
<1>3. ASSUME NEW x PROVE x \in Range(Append(q, r)) <=> x \in Range(q) \cup {r}
  <2>1. x \in Range(Append(q, r)) <=> \E k \in 1..(Len(q) + 1) : Append(q, r)[k] = x
    BY <1>2 DEF Range
  <2>2. x \in Range(q) <=> \E k \in 1..Len(q) : q[k] = x
    BY <1>2 DEF Range
  <2>3. \A k \in 1..(Len(q) + 1) : k \in 1..Len(q) \/ k = Len(q) + 1
    BY <1>1
  <2>4. Len(q) + 1 \in 1..(Len(q) + 1) /\ \A k \in 1..Len(q) : k \in 1..(Len(q) + 1)
    BY <1>1
  <2> QED BY <1>1, <2>1, <2>2, <2>3, <2>4
<1>4. Range(Append(q, r)) = Range(q) \cup {r}
  BY <1>3
<1> QED BY <1>1, <1>4


-----------------------------------------------------------------------------
(* What is kept of a sequence                                               *)

KeepStep(q, P, f, k) ==
  IF k = 0 THEN <<>> ELSE IF k \in P THEN Append(f[k - 1], q[k]) ELSE f[k - 1]
KeptUpTo(q, P) == CHOOSE f : f = [k \in 0..Len(q) |-> KeepStep(q, P, f, k)]

LEMMA KeepingKept ==
  ASSUME NEW q, NEW P
  PROVE  Keeping(q, P) = KeptUpTo(q, P)[Len(q)]
PROOF
  BY DEF Keeping, KeptUpTo, KeepStep

LEMMA KeptSteps ==
  ASSUME NEW S, NEW q \in Seq(S), NEW P
  PROVE  KeptUpTo(q, P) = [k \in 0..Len(q) |-> KeepStep(q, P, KeptUpTo(q, P), k)]
PROOF
<1> DEFINE Good(n) == \E f : f = [k \in 0..n |-> KeepStep(q, P, f, k)]
           T == {n \in 0..Len(q) : Good(n)}
<1>0. Len(q) \in Nat
  OBVIOUS
<1>1. Good(0)
  <2> DEFINE f == [k \in 0..0 |-> <<>>]
  <2>1. \A k \in 0..0 : k = 0
    OBVIOUS
  <2>2. f = [k \in 0..0 |-> KeepStep(q, P, f, k)]
    BY <2>1 DEF KeepStep
  <2> HIDE DEF f
  <2> QED BY <2>2
<1>2. ASSUME NEW n \in 0..Len(q), n + 1 \in 0..Len(q), Good(n)
      PROVE  Good(n + 1)
  <2>1. PICK f : f = [k \in 0..n |-> KeepStep(q, P, f, k)]
    BY <1>2
  <2> DEFINE g == [k \in 0..(n + 1) |-> KeepStep(q, P, f, k)]
  <2>2. n \in Nat
    BY <1>0
  <2>3. ASSUME NEW k \in 0..(n + 1) PROVE KeepStep(q, P, g, k) = KeepStep(q, P, f, k)
    <3>1. CASE k = 0
      BY <3>1 DEF KeepStep
    <3>2. CASE k # 0
      <4>1. k - 1 \in 0..n /\ k - 1 \in 0..(n + 1)
        BY <2>2, <3>2
      <4>2. g[k - 1] = KeepStep(q, P, f, k - 1)
        BY <4>1
      <4>3. f[k - 1] = KeepStep(q, P, f, k - 1)
        BY <2>1, <4>1
      <4> HIDE DEF g
      <4> QED BY <4>2, <4>3, <3>2 DEF KeepStep
    <3> QED BY <3>1, <3>2
  <2>4. g = [k \in 0..(n + 1) |-> KeepStep(q, P, g, k)]
    <3>1. g = [k \in 0..(n + 1) |-> KeepStep(q, P, f, k)]
      OBVIOUS
    <3> HIDE DEF g
    <3> QED BY <2>3, <3>1
  <2> HIDE DEF g
  <2> QED BY <2>4
<1>3. Good(Len(q))
  <2> HIDE DEF Good
  <2>1. T \in SUBSET (0..Len(q)) /\ 0 \in T
    BY <1>0, <1>1
  <2>2. \A n \in 0..Len(q) : n + 1 \in 0..Len(q) /\ n \in T => n + 1 \in T
    BY <1>2
  <2> HIDE DEF T
  <2>3. T = 0..Len(q)
    BY <1>0, <2>1, <2>2, Climb
  <2>4. Len(q) \in T
    BY <1>0, <2>3
  <2> QED BY <2>4 DEF T
<1> QED BY <1>3 DEF KeptUpTo
LEMMA KeepingFacts ==
  ASSUME NEW S, NEW q \in Seq(S), NEW P \in SUBSET (DOMAIN q)
  PROVE  Keeping(q, P) \in Seq(S) /\ Range(Keeping(q, P)) = {q[p] : p \in P}
PROOF
<1> DEFINE F == KeptUpTo(q, P)
           Good(n) == F[n] \in Seq(S) /\ Range(F[n]) = {q[p] : p \in P \cap (1..n)}
           T == {n \in 0..Len(q) : Good(n)}
<1>0. Len(q) \in Nat /\ DOMAIN q = 1..Len(q) /\ \A k \in 1..Len(q) : q[k] \in S
  BY SeqFacts
<1>1. \A k \in 0..Len(q) : F[k] = KeepStep(q, P, F, k)
  BY KeptSteps
<1> HIDE DEF F
<1>2. Good(0)
  <2>1. F[0] = <<>>
    BY <1>0, <1>1 DEF KeepStep
  <2>2. P \cap (1..0) = {} /\ <<>> \in Seq(S) /\ Range(<<>>) = {}
    BY DEF Range
  <2> QED BY <2>1, <2>2
<1>3. ASSUME NEW n \in 0..Len(q), n + 1 \in 0..Len(q), Good(n)
      PROVE  Good(n + 1)
  <2>0. n \in Nat /\ n + 1 # 0 /\ (n + 1) - 1 = n /\ n + 1 \in 1..Len(q)
    BY <1>0, <1>3
  <2>1. F[n + 1] = IF n + 1 \in P THEN Append(F[n], q[n + 1]) ELSE F[n]
    BY <1>1, <1>3, <2>0 DEF KeepStep
  <2>2. CASE n + 1 \notin P
    <3>1. P \cap (1..(n + 1)) = P \cap (1..n)
      BY <2>0, <2>2
    <3> QED BY <1>3, <2>1, <2>2, <3>1
  <2>3. CASE n + 1 \in P
    <3>1. F[n + 1] \in Seq(S) /\ Range(F[n + 1]) = Range(F[n]) \cup {q[n + 1]}
      BY <1>0, <1>3, <2>0, <2>1, <2>3, AppendFacts
    <3>2. \A p : p \in P \cap (1..(n + 1)) <=> p \in P \cap (1..n) \/ p = n + 1
      BY <2>0, <2>3
    <3>3. {q[p] : p \in P \cap (1..(n + 1))} = {q[p] : p \in P \cap (1..n)} \cup {q[n + 1]}
      BY <3>2
    <3> QED BY <1>3, <3>1, <3>3
  <2> QED BY <2>2, <2>3
<1>4. Good(Len(q))
  <2> HIDE DEF Good
  <2>1. T \in SUBSET (0..Len(q)) /\ 0 \in T
    BY <1>0, <1>2
  <2>2. \A n \in 0..Len(q) : n + 1 \in 0..Len(q) /\ n \in T => n + 1 \in T
    BY <1>3
  <2> HIDE DEF T
  <2>3. T = 0..Len(q)
    BY <1>0, <2>1, <2>2, Climb
  <2>4. Len(q) \in T
    BY <1>0, <2>3
  <2> QED BY <2>4 DEF T
<1>5. Keeping(q, P) = F[Len(q)]
  BY KeepingKept DEF F
<1>6. P \cap (1..Len(q)) = P
  BY <1>0
<1> QED BY <1>4, <1>5, <1>6

LEMMA ConcatFacts ==
  ASSUME NEW S, NEW a \in Seq(S), NEW b \in Seq(S)
  PROVE  a \o b \in Seq(S) /\ Range(a \o b) = Range(a) \cup Range(b)
PROOF
<1>1. /\ a \o b \in Seq(S) /\ Len(a \o b) = Len(a) + Len(b)
      /\ \A i \in 1..Len(a) + Len(b) :
           (a \o b)[i] = IF i <= Len(a) THEN a[i] ELSE b[i - Len(a)]
  BY ConcatProperties
<1>2. Len(a) \in Nat /\ Len(b) \in Nat /\ DOMAIN a = 1..Len(a) /\ DOMAIN b = 1..Len(b)
      /\ DOMAIN (a \o b) = 1..(Len(a) + Len(b))
  BY <1>1, SeqFacts
<1> DEFINE c == a \o b
<1>3. \A i \in 1..(Len(a) + Len(b)) :
        c[i] = IF i <= Len(a) THEN a[i] ELSE b[i - Len(a)]
  BY <1>1
<1>4. DOMAIN c = 1..(Len(a) + Len(b)) /\ c \in Seq(S)
  BY <1>1, <1>2
<1> HIDE DEF c
<1>5. ASSUME NEW i \in 1..(Len(a) + Len(b)) PROVE c[i] \in Range(a) \cup Range(b)
  <2>1. CASE i <= Len(a)
    BY <1>2, <1>3, <2>1 DEF Range
  <2>2. CASE ~(i <= Len(a))
    <3>1. i - Len(a) \in 1..Len(b)
      BY <1>2, <2>2
    <3> QED BY <1>2, <1>3, <2>2, <3>1 DEF Range
  <2> QED BY <2>1, <2>2
<1>6. \A i \in 1..Len(a) : i \in 1..(Len(a) + Len(b)) /\ c[i] = a[i]
  BY <1>2, <1>3
<1>7. ASSUME NEW i \in 1..Len(b)
      PROVE  i + Len(a) \in 1..(Len(a) + Len(b)) /\ c[i + Len(a)] = b[i]
  <2>1. i + Len(a) \in 1..(Len(a) + Len(b)) /\ ~(i + Len(a) <= Len(a)) /\ (i + Len(a)) - Len(a) = i
    BY <1>2
  <2> QED BY <1>3, <2>1
<1>8. ASSUME NEW x PROVE x \in Range(c) <=> x \in Range(a) \cup Range(b)
  <2>1. ASSUME x \in Range(c) PROVE x \in Range(a) \cup Range(b)
    <3>1. PICK i \in 1..(Len(a) + Len(b)) : c[i] = x
      BY <1>4, <2>1 DEF Range
    <3> QED BY <1>5, <3>1
  <2>2. ASSUME x \in Range(a) PROVE x \in Range(c)
    BY <1>2, <1>4, <1>6, <2>2 DEF Range
  <2>3. ASSUME x \in Range(b) PROVE x \in Range(c)
    <3>1. PICK i \in 1..Len(b) : b[i] = x
      BY <1>2, <2>3 DEF Range
    <3>2. i + Len(a) \in DOMAIN c /\ c[i + Len(a)] = x
      BY <1>4, <1>7, <3>1
    <3> QED BY <3>2 DEF Range
  <2> QED BY <2>1, <2>2, <2>3
<1>9. Range(c) = Range(a) \cup Range(b)
  BY <1>8
<1> QED BY <1>4, <1>9 DEF c

LEMMA FirstPlace ==
  ASSUME NEW N \in Nat, NEW T \in SUBSET (1..N), NEW x, x = IF T # {} THEN Min(T) ELSE 0
  PROVE  x \in T \cup {0} /\ (x = 0 <=> T = {})
PROOF
<1>1. T \in SUBSET Nat /\ 0 \notin T
  OBVIOUS
<1>2. ASSUME T # {} PROVE Min(T) \in T
  <2>1. \E m \in T : \A y \in T : m <= y
    BY <1>1, <1>2, Least
  <2> QED BY <2>1 DEF Min
<1> QED BY <1>1, <1>2

-----------------------------------------------------------------------------
(* The queues of Sessions: rows of contacts the user edited or deleted.      *)

Edited == {"modified_by_user", "deleted_by_user"}
Queued == [parent : Targets, item : Items, kind : {"contact"}, status : Edited,
           fresh : {FALSE}, detail : {NoDetail}]

Holds(q, t, i) == \E r \in Range(q) : r.parent = t /\ r.item = i

LEMMA QueuedFacts ==
  ASSUME NEW r \in Queued, NEW t \in Targets, NEW i \in Items
  PROVE  /\ isUserEntry(r)
         /\ sameRow(r, Id(t, i), BY_USER) <=> r.parent = t /\ r.item = i
         /\ ~sameRow(r, Id(t, i), BY_SERVER)
         /\ ~sameRow(r, Id(t, i), FOR_SENDMAIL)
         /\ r.parent \in Targets /\ r.item \in Items /\ r.status \in Edited
PROOF
<1>1. /\ r.status \in Edited /\ r.kind = "contact"
      /\ r.parent \in Targets /\ r.item \in Items
  BY DEF Queued
<1>2. /\ familyOf(r.status) = BY_USER
      /\ BY_USER # BY_SERVER /\ BY_USER # FOR_SENDMAIL
  BY <1>1 DEF familyOf, Edited, UserStatuses, SERVER_TAG_STATUSES, SENDMAIL_STATUSES,
              BY_USER, BY_SERVER, FOR_SENDMAIL
<1>3. Id(t, i).parent = t /\ Id(t, i).item = i /\ Id(t, i).kind = "contact"
  BY DEF Id
<1> HIDE DEF BY_USER, BY_SERVER, FOR_SENDMAIL
<1> QED BY <1>1, <1>2, <1>3 DEF sameRow, isUserEntry

LEMMA IndexFacts ==
  ASSUME NEW q \in Seq(Queued), NEW t \in Targets, NEW i \in Items
  PROVE  /\ IndexOfRow(q, Id(t, i), BY_SERVER) = 0
         /\ IndexOfRow(q, Id(t, i), BY_USER) \in DOMAIN q \cup {0} /\ 0 \notin DOMAIN q
         /\ IndexOfRow(q, Id(t, i), BY_USER) # 0 <=> Holds(q, t, i)
PROOF
<1>0. /\ Len(q) \in Nat /\ DOMAIN q = 1..Len(q)
      /\ \A k \in 1..Len(q) : q[k] \in Queued
      /\ Range(q) = {q[k] : k \in 1..Len(q)}
  BY SeqFacts
<1>1. IndexOfRow(q, Id(t, i), BY_SERVER) = 0
  <2> DEFINE T == {k \in 1..Len(q) : sameRow(q[k], Id(t, i), BY_SERVER)}
  <2>1. IndexOfRow(q, Id(t, i), BY_SERVER) = IF T # {} THEN Min(T) ELSE 0
    BY DEF IndexOfRow, SelectInSeq
  <2>2. T = {}
    BY <1>0, QueuedFacts
  <2> QED BY <2>1, <2>2
<1> DEFINE T == {k \in 1..Len(q) : sameRow(q[k], Id(t, i), BY_USER)}
<1>2. PICK x : x = IF T # {} THEN Min(T) ELSE 0
  OBVIOUS
<1>3. IndexOfRow(q, Id(t, i), BY_USER) = x
  BY <1>2 DEF IndexOfRow, SelectInSeq
<1>4. T \in SUBSET (1..Len(q)) /\ (T # {} <=> Holds(q, t, i))
  BY <1>0, QueuedFacts DEF Holds
<1> HIDE DEF T
<1>5. x \in T \cup {0} /\ (x = 0 <=> T = {})
  BY <1>0, <1>2, <1>4, FirstPlace
<1> QED BY <1>0, <1>1, <1>3, <1>4, <1>5

LEMMA StatusFacts ==
  ASSUME NEW q \in Seq(Queued), NEW t \in Targets, NEW i \in Items
  PROVE  /\ UserStatus(q, Id(t, i)) \in Edited \cup {NoStatus} /\ NoStatus \notin Edited
         /\ UserStatus(q, Id(t, i)) # NoStatus <=> Holds(q, t, i)
PROOF
<1>1. PICK k : k = IndexOfRow(q, Id(t, i), BY_USER)
  OBVIOUS
<1>2. k \in DOMAIN q \cup {0} /\ 0 \notin DOMAIN q /\ (k # 0 <=> Holds(q, t, i))
  BY <1>1, IndexFacts
<1>3. UserStatus(q, Id(t, i)) = IF k = 0 THEN NoStatus ELSE q[k].status
  BY <1>1 DEF UserStatus
<1>4. ASSUME k # 0 PROVE q[k].status \in Edited
  <2>1. q[k] \in Queued
    BY <1>2, <1>4, SeqFacts
  <2> QED BY <2>1 DEF Queued
<1>5. NoStatus \notin Edited
  BY DEF NoStatus, Edited
<1> QED BY <1>2, <1>3, <1>4, <1>5

LEMMA DropFacts ==
  ASSUME NEW q \in Seq(Queued), NEW t \in Targets, NEW i \in Items,
         NEW family \in {BY_USER, FOR_SENDMAIL}
  PROVE  /\ Drop(q, Id(t, i), family) \in Seq(Queued)
         /\ Range(Drop(q, Id(t, i), family)) \subseteq Range(q)
         /\ \A u, j : Holds(Drop(q, Id(t, i), family), u, j) <=>
              Holds(q, u, j) /\ ~(family = BY_USER /\ u = t /\ j = i)
PROOF
<1> DEFINE P == {k \in DOMAIN q : ~sameRow(q[k], Id(t, i), family)}
<1>1. Drop(q, Id(t, i), family) = Keeping(q, P)
  BY DEF Drop
<1>2. PICK d : d = Keeping(q, P)
  OBVIOUS
<1>3. d \in Seq(Queued) /\ Range(d) = {q[p] : p \in P}
  BY <1>2, KeepingFacts
<1>4. BY_USER # FOR_SENDMAIL
  BY DEF BY_USER, FOR_SENDMAIL
<1>5. ASSUME NEW r PROVE r \in Range(d) <=> r \in Range(q) /\ ~sameRow(r, Id(t, i), family)
  BY <1>3 DEF Range
<1>6. \A r \in Range(q) : sameRow(r, Id(t, i), family) <=>
                            family = BY_USER /\ r.parent = t /\ r.item = i
  BY <1>4, SeqFacts, QueuedFacts
<1>7. \A u, j : Holds(d, u, j) <=> Holds(q, u, j) /\ ~(family = BY_USER /\ u = t /\ j = i)
  BY <1>5, <1>6 DEF Holds
<1>8. Range(d) \subseteq Range(q)
  BY <1>5
<1> QED BY <1>1, <1>2, <1>3, <1>7, <1>8

LEMMA DropTyped ==
  ASSUME NEW q \in Seq(Queued), NEW id, NEW family
  PROVE  Drop(q, id, family) \in Seq(Queued)
PROOF
<1> DEFINE P == {k \in DOMAIN q : ~sameRow(q[k], id, family)}
<1>1. Drop(q, id, family) = Keeping(q, P)
  BY DEF Drop
<1>2. P \in SUBSET (DOMAIN q)
  OBVIOUS
<1> HIDE DEF P
<1> QED BY <1>1, <1>2, KeepingFacts

LEMMA TailFacts ==
  ASSUME NEW q \in Seq(Queued), NEW ids
  PROVE  /\ moveToTailUpdater(q, ids) \in Seq(Queued)
         /\ Range(moveToTailUpdater(q, ids)) = Range(q)
         /\ \A u, j : Holds(moveToTailUpdater(q, ids), u, j) <=> Holds(q, u, j)
PROOF
<1> DEFINE B == {k \in DOMAIN q : \E id \in ids : sameRow(q[k], id, BY_USER)}
           A == DOMAIN q \ B
<1>1. moveToTailUpdater(q, ids) = Keeping(q, A) \o Keeping(q, B)
  BY DEF moveToTailUpdater
<1>2. A \in SUBSET (DOMAIN q) /\ B \in SUBSET (DOMAIN q) /\ A \cup B = DOMAIN q
  OBVIOUS
<1> HIDE DEF A, B
<1>3. PICK a : a = Keeping(q, A)
  OBVIOUS
<1>4. PICK b : b = Keeping(q, B)
  OBVIOUS
<1>5. /\ a \in Seq(Queued) /\ Range(a) = {q[p] : p \in A}
      /\ b \in Seq(Queued) /\ Range(b) = {q[p] : p \in B}
  BY <1>2, <1>3, <1>4, KeepingFacts
<1>6. a \o b \in Seq(Queued) /\ Range(a \o b) = Range(a) \cup Range(b)
  BY <1>5, ConcatFacts
<1>7. Range(a) \cup Range(b) = Range(q)
  BY <1>2, <1>5 DEF Range
<1> QED BY <1>1, <1>3, <1>4, <1>6, <1>7 DEF Holds

(* An edit or a deletion of an item is filed, or is there already.           *)
LEMMA EventFacts ==
  ASSUME NEW q \in Seq(Queued), NEW t \in Targets, NEW i \in Items,
         NEW op \in {"updated", "deleted"}
  PROVE  /\ applyEvent(q, Id(t, i), i, op) \in Seq(Queued)
         /\ \A r \in Range(applyEvent(q, Id(t, i), i, op)) :
              \/ r \in Range(q)
              \/ /\ r.parent = t /\ r.item = i
                 /\ r.status = "deleted_by_user" => op = "deleted"
         /\ \A u, j : Holds(applyEvent(q, Id(t, i), i, op), u, j) <=>
              Holds(q, u, j) \/ (u = t /\ j = i)
PROOF
<1> DEFINE d == Id(t, i)
<1>1. PICK prior : prior = UserStatus(q, d)
  OBVIOUS
<1>2. prior \in Edited \cup {NoStatus} /\ (prior # NoStatus <=> Holds(q, t, i))
  BY <1>1, StatusFacts
<1>3. applyEvent(q, d, i, op) = applyUserTransition(q, d, op, prior)
  <2>1. IndexOfRow(q, d, BY_SERVER) = 0
    BY IndexFacts
  <2>2. d.kind # "list"
    BY DEF Id
  <2> HIDE DEF d
  <2> QED BY <1>1, <2>1, <2>2 DEF applyEvent
<1>4. PICK next : next = decideUserStatus(op, prior)
  OBVIOUS
<1>5. /\ next \in Edited \cup {"skip"}
      /\ next = "skip" => prior # NoStatus
      /\ next = "deleted_by_user" => op = "deleted"
  BY <1>2, <1>4 DEF decideUserStatus, Edited, NoStatus
<1>6. CASE next = "skip"
  <2>1. applyEvent(q, d, i, op) = q
    BY <1>3, <1>4, <1>6 DEF applyUserTransition
  <2> QED BY <1>2, <1>5, <1>6, <2>1
<1>7. CASE next # "skip"
  <2>1. applyEvent(q, d, i, op) = Restated(q, d, op, next, NoDetail)
    BY <1>3, <1>4, <1>7 DEF applyUserTransition
  <2>2. PICK p : p = Drop(q, d, BY_USER)
    OBVIOUS
  <2>3. /\ p \in Seq(Queued) /\ Range(p) \subseteq Range(q)
        /\ \A u, j : Holds(p, u, j) <=> Holds(q, u, j) /\ ~(u = t /\ j = i)
    BY <2>2, DropFacts
  <2>4. PICK w : w = dropSendMailOnDelete(p, d, op)
    OBVIOUS
  <2>5. /\ w \in Seq(Queued) /\ Range(w) \subseteq Range(p)
        /\ \A u, j : Holds(w, u, j) <=> Holds(p, u, j)
    <3>1. w = p \/ w = Drop(p, d, FOR_SENDMAIL)
      BY <2>4 DEF dropSendMailOnDelete, removeSendMailUpdater
    <3>2. BY_USER # FOR_SENDMAIL
      BY DEF BY_USER, FOR_SENDMAIL
    <3> QED BY <2>3, <3>1, <3>2, DropFacts
  <2> DEFINE r == Row(d, next, FALSE, NoDetail)
  <2>6. r \in Queued /\ r.parent = t /\ r.item = i /\ r.status = next
    BY <1>5, <1>7 DEF Row, Id, Queued
  <2>7. applyEvent(q, d, i, op) = Append(w, r)
    <3>1. next # "drop"
      BY <1>5, <1>7 DEF Edited
    <3> QED BY <2>1, <2>2, <2>4, <3>1 DEF Restated
  <2> HIDE DEF r, d
  <2>8. Append(w, r) \in Seq(Queued) /\ Range(Append(w, r)) = Range(w) \cup {r}
    BY <2>5, <2>6, AppendFacts
  <2>9. \A u, j : Holds(Append(w, r), u, j) <=> Holds(w, u, j) \/ (u = t /\ j = i)
    BY <2>6, <2>8 DEF Holds
  <2>10. \A x \in Range(Append(w, r)) :
           \/ x \in Range(q)
           \/ x.parent = t /\ x.item = i /\ (x.status = "deleted_by_user" => op = "deleted")
    BY <1>5, <2>3, <2>5, <2>6, <2>8
  <2> QED BY <2>3, <2>5, <2>7, <2>8, <2>9, <2>10 DEF d
<1> QED BY <1>6, <1>7
-----------------------------------------------------------------------------
(* The types of what Counted and Shaped leave open.                          *)
DirectoryTyped ==
  /\ account \in {"enabled", "disabled", "removed"}
  /\ \A f \in Folders : cache[f] \in {NoBag, "download only", "plain"}
  /\ doomed \subseteq 1..made /\ mgr.targets \subseteq 1..made

Copies == {NotBound} \cup [Items -> Versions]
CopiesTyped ==
  /\ \A t \in Targets : contents[t] \in Copies
  /\ server \in [Folders -> [Items -> Versions]]
  /\ sync.at \in {"push", "settle", "failed"} => sync.target \in Targets

QueuesTyped == \A s \in Sessions : queues[s] \in Seq(Queued)
Links == [folder : Folders, session : 0..MaxSessions]
BindingsTyped == \A t \in Targets : bindings[t] \in Links
EventsTyped == \A h \in hooks : h.item \in Items /\ h.op \in {"updated", "deleted"}

Typed == DirectoryTyped /\ CopiesTyped /\ QueuesTyped /\ BindingsTyped /\ EventsTyped

LEMMA NamedMade ==
  ASSUME Counted, Marked
  PROVE  /\ Named(rows) \subseteq 1..made
         /\ \A f \in Folders : {rows[f].target} \ {NoTarget} \subseteq 1..made
PROOF
<1>1. ASSUME NEW f \in Folders, rows[f].target # NoTarget PROVE rows[f].target \in 1..made
  <2>1. rows[f] # NoRow
    BY <1>1, RowFacts
  <2>2. rows[f].target \in Targets /\ rows[f].target <= made /\ made \in Nat
    BY <1>1, <2>1, RowTyped, Bounds DEF Marked, Counted
  <2> QED BY <2>2, Bounds
<1> QED BY <1>1 DEF Named

LEMMA BindingTyped ==
  /\ NoBinding \in Links
  /\ Counted => \A f \in Folders : sync.at # "idle" =>
       [folder |-> f, session |-> sync.seen[f].session] \in Links
PROOF
<1>1. (CHOOSE f \in Folders : TRUE) \in Folders
  BY SessionsAssumption
<1>2. 0 \in 0..MaxSessions /\ Sessions \subseteq 0..MaxSessions
  BY Bounds
<1>3. NoBinding \in Links
  BY <1>1, <1>2 DEF NoBinding, Links
<1>4. ASSUME Counted, NEW f \in Folders, sync.at # "idle"
      PROVE  sync.seen[f].session \in 0..MaxSessions
  <2>1. sync.seen[f] \in {NoRow} \cup RowSet
    BY <1>4 DEF Counted, Tables
  <2>2. CASE sync.seen[f] = NoRow
    BY <1>2, <2>2, RowFacts
  <2>3. CASE sync.seen[f] \in RowSet
    <3>1. sync.seen[f].session \in Sessions
      BY <2>3 DEF RowSet
    <3> QED BY <1>2, <3>1
  <2> QED BY <2>1, <2>2, <2>3
<1> QED BY <1>3, <1>4 DEF Links

LEMMA TypedInit == Init => Typed
PROOF
<1> SUFFICES ASSUME Init PROVE Typed
  OBVIOUS
<1>1. DirectoryTyped
  BY DEF Init, IdleMgr, DirectoryTyped
<1>2. CopiesTyped
  <2>1. \A t \in Targets : contents[t] = NotBound
    BY DEF Init
  <2>2. server \in [Folders -> [Items -> Versions]]
    BY DEF Init, Versions
  <2>3. sync.at = "idle"
    BY DEF Init, IdleSync
  <2> QED BY <2>1, <2>2, <2>3 DEF CopiesTyped, Copies
<1>3. QueuesTyped
  <2>1. \A s \in Sessions : queues[s] = <<>>
    BY DEF Init
  <2>2. <<>> \in Seq(Queued)
    OBVIOUS
  <2> QED BY <2>1, <2>2 DEF QueuesTyped
<1>4. BindingsTyped
  BY BindingTyped DEF Init, BindingsTyped
<1>5. EventsTyped
  BY DEF Init, EventsTyped
<1> QED BY <1>1, <1>2, <1>3, <1>4, <1>5 DEF Typed

LEMMA DeleteTyped ==
  ASSUME Shaped, EventsTyped, CopiesTyped, NEW t \in Targets, Delete(t)
  PROVE  /\ \A u \in Targets : contents'[u] \in Copies
         /\ EventsTyped'
PROOF
<1>1. contents' = [contents EXCEPT ![t] = NotBound]
  BY DEF Delete
<1>2. \A h \in hooks' : \/ h \in hooks
                        \/ \E i \in Items : h = [at |-> "event", target |-> t, item |-> i,
                                                 op |-> "deleted", session |-> 0]
  <2>1. CASE contents[t] = NotBound
    BY <2>1 DEF Delete
  <2>2. CASE contents[t] # NotBound
    <3>1. hooks' = hooks \cup {[at |-> "event", target |-> t, item |-> i,
                                op |-> "deleted", session |-> 0] :
                                  i \in {j \in Items : contents[t][j] # "gone"}}
      BY <2>2 DEF Delete
    <3> QED BY <3>1
  <2> QED BY <2>1, <2>2
<1>3. \A u \in Targets : contents'[u] = contents[u] \/ contents'[u] = NotBound
  BY <1>1 DEF Shaped
<1>4. \A u \in Targets : contents'[u] \in Copies
  BY <1>3 DEF CopiesTyped, Copies
<1>5. EventsTyped'
  BY <1>2 DEF EventsTyped
<1> QED BY <1>4, <1>5

LEMMA MgrExcept ==
  ASSUME Shaped, NEW b, NEW T
  PROVE  /\ [mgr EXCEPT !.at = b] = [at |-> b, op |-> mgr.op, folder |-> mgr.folder,
                                     targets |-> mgr.targets]
         /\ [mgr EXCEPT !.targets = T] = [at |-> mgr.at, op |-> mgr.op,
                                          folder |-> mgr.folder, targets |-> T]
PROOF
<1>1. PICK a, o, f, s : mgr = [at |-> a, op |-> o, folder |-> f, targets |-> s]
  BY DEF Shaped
<1> QED BY <1>1

(* The types that a step leaves alone.                                       *)
LEMMA SameTypes ==
  /\ DirectoryTyped /\ UNCHANGED <<account, cache, doomed, made, mgr>> => DirectoryTyped'
  /\ CopiesTyped /\ UNCHANGED <<contents, server, sync>> => CopiesTyped'
  /\ QueuesTyped /\ UNCHANGED queues => QueuesTyped'
  /\ BindingsTyped /\ UNCHANGED bindings => BindingsTyped'
  /\ EventsTyped /\ UNCHANGED hooks => EventsTyped'
PROOF
<1>1. DirectoryTyped /\ UNCHANGED <<account, cache, doomed, made, mgr>> => DirectoryTyped'
  BY DEF DirectoryTyped
<1>2. CopiesTyped /\ UNCHANGED <<contents, server, sync>> => CopiesTyped'
  BY DEF CopiesTyped
<1>3. QueuesTyped /\ UNCHANGED queues => QueuesTyped'
  BY DEF QueuesTyped
<1>4. BindingsTyped /\ UNCHANGED bindings => BindingsTyped'
  BY DEF BindingsTyped
<1>5. EventsTyped /\ UNCHANGED hooks => EventsTyped'
  BY DEF EventsTyped
<1> QED BY <1>1, <1>2, <1>3, <1>4, <1>5

LEMMA HostStepTyped ==
  ASSUME IInv, Typed, HostStep
  PROVE  Typed'
PROOF
<1>0. /\ Counted /\ Shaped /\ Marked
      /\ UNCHANGED <<rows, minted, made, marked, sync, cache, gone>>
      /\ DirectoryTyped /\ CopiesTyped /\ QueuesTyped /\ BindingsTyped /\ EventsTyped
  BY HostStepRows DEF IInv, Typed
<1>1. ASSUME NEW listed \in SUBSET Folders, PushFolderList(listed) PROVE Typed'
  <2>1. UNCHANGED <<account, contents, queues, bindings, hooks, mgr, doomed, server>>
    BY <1>1 DEF PushFolderList
  <2> QED BY <1>0, <2>1, SameTypes DEF Typed
<1>2. ASSUME NEW t \in Targets, DeleteDoomed(t) \/ UserDeletes(t) \/ deleteTargetsBestEffort(t)
      PROVE  Typed'
  <2>1. /\ Delete(t) /\ UNCHANGED <<account, queues, bindings, server>>
        /\ mgr' = mgr \/ mgr' = [mgr EXCEPT !.targets = mgr.targets \ {t}]
        /\ doomed' \subseteq doomed
    BY <1>2 DEF DeleteDoomed, UserDeletes, deleteTargetsBestEffort, Shaped
  <2>2. mgr'.targets \subseteq mgr.targets
    <3>1. CASE mgr' = mgr
      BY <3>1
    <3>2. CASE mgr' = [mgr EXCEPT !.targets = mgr.targets \ {t}]
      <4>1. PICK T : T = mgr.targets \ {t}
        OBVIOUS
      <4>2. mgr' = [at |-> mgr.at, op |-> mgr.op, folder |-> mgr.folder, targets |-> T]
        BY <1>0, <3>2, <4>1, MgrExcept
      <4>3. mgr'.targets = T
        BY <4>2
      <4> QED BY <4>1, <4>3
    <3> QED BY <2>1, <3>1, <3>2
  <2>3. (\A u \in Targets : contents'[u] \in Copies) /\ EventsTyped'
    BY <1>0, <2>1, DeleteTyped
  <2>4. DirectoryTyped'
    BY <1>0, <2>1, <2>2 DEF DirectoryTyped
  <2>5. CopiesTyped'
    BY <1>0, <2>1, <2>3 DEF CopiesTyped
  <2> QED BY <1>0, <2>1, <2>3, <2>4, <2>5, SameTypes DEF Typed
<1>3. ASSUME NEW r \in reports, LoseReport(r) PROVE Typed'
  <2>1. UNCHANGED <<account, contents, queues, bindings, hooks, mgr, doomed, server>>
    BY <1>3 DEF LoseReport
  <2> QED BY <1>0, <2>1, SameTypes DEF Typed
<1>4. ASSUME NEW t \in Targets, NEW i \in Items, NEW v \in Versions, UserEdit(t, i, v)
      PROVE  Typed'
  <2>1. /\ contents[t] # NotBound
        /\ contents' = [contents EXCEPT ![t] = [contents[t] EXCEPT ![i] = v]]
        /\ UNCHANGED <<account, queues, bindings, server, mgr, doomed>>
    BY <1>0, <1>4 DEF UserEdit, Resources, Shaped
  <2>2. hooks' = hooks \cup {[at |-> "event", target |-> t, item |-> i, session |-> 0,
                              op |-> IF v = "gone" THEN "deleted" ELSE "updated"]}
    BY <1>4 DEF UserEdit
  <2>3. EventsTyped'
    BY <1>0, <2>2 DEF EventsTyped
  <2>4. contents[t] \in [Items -> Versions]
    BY <1>0, <2>1 DEF CopiesTyped, Copies
  <2>5. [contents[t] EXCEPT ![i] = v] \in Copies
    BY <2>4 DEF Copies
  <2>6. \A u \in Targets : contents'[u] \in Copies
    <3>1. PICK c : c = [contents[t] EXCEPT ![i] = v]
      OBVIOUS
    <3>2. contents' = [contents EXCEPT ![t] = c] /\ c \in Copies
      BY <2>1, <2>5, <3>1
    <3> QED BY <1>0, <3>2 DEF CopiesTyped, Shaped
  <2>7. CopiesTyped'
    BY <1>0, <2>1, <2>6 DEF CopiesTyped
  <2> QED BY <1>0, <2>1, <2>3, <2>7, SameTypes DEF Typed
<1>5. ASSUME NEW h \in hooks, lookupBinding(h) PROVE Typed'
  <2> DEFINE g == [h EXCEPT !.at = "record", !.session = bindings[h.target].session]
  <2>1. /\ hooks' \subseteq hooks \cup {g}
        /\ UNCHANGED <<account, contents, queues, bindings, server, mgr, doomed>>
    BY <1>5 DEF lookupBinding
  <2>2. g.item = h.item /\ g.op = h.op
    <3>1. PICK a, t, i, o, s :
            h = [at |-> a, target |-> t, item |-> i, op |-> o, session |-> s]
      BY <1>0 DEF Shaped
    <3> QED BY <3>1
  <2> HIDE DEF g
  <2>3. EventsTyped'
    BY <1>0, <2>1, <2>2 DEF EventsTyped
  <2> QED BY <1>0, <2>1, <2>3, SameTypes DEF Typed
<1>6. ASSUME NEW h \in hooks, record(h) PROVE Typed'
  <2>1. /\ queues' = [queues EXCEPT ![h.session] =
                        applyEvent(queues[h.session], Id(h.target, h.item), h.item, h.op)]
        /\ hooks' = hooks \ {h}
        /\ UNCHANGED <<account, contents, bindings, server, mgr, doomed>>
    BY <1>6 DEF record
  <2>2. h.target \in Targets /\ h.item \in Items /\ h.op \in {"updated", "deleted"}
    BY <1>0 DEF Shaped, EventsTyped
  <2>3. ASSUME NEW s \in Sessions PROVE queues'[s] \in Seq(Queued)
    <3>1. queues[s] \in Seq(Queued) /\ queues = [z \in Sessions |-> queues[z]]
      BY <1>0 DEF QueuesTyped, Shaped
    <3>2. CASE s = h.session
      <4>1. queues'[s] = applyEvent(queues[s], Id(h.target, h.item), h.item, h.op)
        BY <2>1, <3>1, <3>2
      <4> QED BY <2>2, <3>1, <4>1, EventFacts
    <3>3. CASE s # h.session
      BY <2>1, <3>1, <3>3
    <3> QED BY <3>2, <3>3
  <2>4. QueuesTyped' /\ EventsTyped'
    BY <1>0, <2>1, <2>3 DEF QueuesTyped, EventsTyped
  <2> QED BY <1>0, <2>1, <2>4, SameTypes DEF Typed
<1>7. ASSUME NEW op, NEW f, NEW targets \in SUBSET (1..made), Ask(op, f, targets),
             UNCHANGED <<account, contents, queues, bindings, server, hooks, doomed>>
      PROVE  Typed'
  <2>1. DirectoryTyped'
    BY <1>0, <1>7 DEF DirectoryTyped, Ask
  <2> QED BY <1>0, <1>7, <2>1, SameTypes DEF Typed
<1>8. ASSUME NEW f \in Folders, NEW selected \in BOOLEAN, selectFolder(f, selected)
      PROVE  Typed'
  <2>1. {rows[f].target} \ {NoTarget} \in SUBSET (1..made)
    BY <1>0, NamedMade
  <2> QED BY <1>7, <1>8, <2>1 DEF selectFolder
<1>9. ASSUME NEW op \in {"disconnect", "remove"}, Teardown(op) PROVE Typed'
  <2>1. Named(rows) \in SUBSET (1..made)
    BY <1>0, NamedMade
  <2> QED BY <1>7, <1>9, <2>1 DEF Teardown
<1>10. ASSUME Connect PROVE Typed'
  <2>1. /\ account' = "enabled"
        /\ UNCHANGED <<contents, queues, bindings, hooks, mgr, doomed, server>>
    BY <1>10 DEF Connect
  <2>2. DirectoryTyped'
    BY <1>0, <2>1 DEF DirectoryTyped
  <2> QED BY <1>0, <2>1, <2>2, SameTypes DEF Typed
<1> QED BY <1>1, <1>2, <1>3, <1>4, <1>5, <1>6, <1>8, <1>9, <1>10 DEF HostStep

LEMMA RowStepTyped ==
  ASSUME IInv, Typed, RowStep
  PROVE  Typed'
PROOF
<1>0. /\ Counted /\ Shaped /\ Marked /\ Remembered
      /\ UNCHANGED <<made, marked, sync, contents, queues, bindings, hooks>>
      /\ DirectoryTyped /\ CopiesTyped /\ QueuesTyped /\ BindingsTyped /\ EventsTyped
  BY RowStepRest DEF IInv, Typed
<1>1. UNCHANGED server
  BY DEF RowStep, ReplaceFolders, Report, setFolderDownloadOnly, Told, clearAccount, Finished
<1>2. SUFFICES DirectoryTyped'
  BY <1>0, <1>1, SameTypes DEF Typed
<1>3. CASE ReplaceFolders
  <2> DEFINE fresh == {g \in push.listed : rows[g] = NoRow}
             kept == {f \in {g \in Folders \ push.listed : rows[g] # NoRow} :
                        rows[f].selected /\ account # "removed"}
  <2>1. /\ cache' = IF account = "removed" THEN cache
                    ELSE [f \in Folders |-> IF f \in fresh THEN NoBag
                                           ELSE IF f \in kept THEN Bag(rows[f])
                                           ELSE cache[f]]
        /\ doomed' = doomed \cup (Named(rows) \ Named(rows'))
        /\ UNCHANGED <<account, mgr>>
    BY <1>3 DEF ReplaceFolders, replaceAccountFolders
  <2> HIDE DEF fresh, kept
  <2>2. \A f \in Folders : Bag(rows[f]) \in {NoBag, "download only", "plain"}
    BY DEF Bag
  <2>3. \A f \in Folders : cache'[f] \in {NoBag, "download only", "plain"}
    <3>1. CASE account = "removed"
      BY <1>0, <2>1, <3>1 DEF DirectoryTyped
    <3>2. CASE account # "removed"
      BY <1>0, <2>1, <2>2, <3>2 DEF DirectoryTyped
    <3> QED BY <3>1, <3>2
  <2>4. doomed' \subseteq 1..made
    BY <1>0, <2>1, NamedMade DEF DirectoryTyped
  <2> QED BY <1>0, <2>1, <2>3, <2>4 DEF DirectoryTyped
<1>4. ASSUME NEW r \in reports, Report(r) PROVE DirectoryTyped'
  <2>1. UNCHANGED <<account, cache, doomed, mgr>>
    BY <1>4 DEF Report
  <2> QED BY <1>0, <2>1, SameTypes
<1>5. ASSUME NEW f \in Folders, setFolderDownloadOnly(f) PROVE DirectoryTyped'
  <2>1. UNCHANGED <<account, cache, doomed, mgr>>
    BY <1>5 DEF setFolderDownloadOnly
  <2> QED BY <1>0, <2>1, SameTypes
<1>6. CASE Told
  <2>1. /\ account' \in {account, "disabled"}
        /\ cache' = cache \/ cache' = [f \in Folders |-> NoBag]
        /\ \/ mgr' = IdleMgr
           \/ \E b : mgr' = [mgr EXCEPT !.at = b]
        /\ UNCHANGED doomed
    BY <1>6 DEF Told
  <2>2. mgr'.targets \subseteq mgr.targets
    <3>1. CASE mgr' = IdleMgr
      BY <3>1 DEF IdleMgr
    <3>2. ASSUME NEW b, mgr' = [mgr EXCEPT !.at = b] PROVE mgr'.targets = mgr.targets
      <4>1. mgr' = [at |-> b, op |-> mgr.op, folder |-> mgr.folder, targets |-> mgr.targets]
        BY <1>0, <3>2, MgrExcept
      <4> QED BY <4>1
    <3> QED BY <2>1, <3>1, <3>2
  <2>3. \A f \in Folders : cache'[f] \in {cache[f], NoBag}
    BY <2>1
  <2> QED BY <1>0, <2>1, <2>2, <2>3 DEF DirectoryTyped
<1>7. CASE clearAccount
  <2>1. /\ mgr' = [mgr EXCEPT !.at = "delete"]
        /\ UNCHANGED <<account, cache, doomed>>
    BY <1>7 DEF clearAccount
  <2>2. mgr'.targets = mgr.targets
    BY <1>0, <2>1, MgrExcept
  <2> QED BY <1>0, <2>1, <2>2 DEF DirectoryTyped
<1>8. CASE Finished
  <2>1. /\ account' \in {account, "removed"}
        /\ cache' = cache \/ cache' = [f \in Folders |-> NoBag]
        /\ mgr' = IdleMgr
        /\ UNCHANGED doomed
    BY <1>8 DEF Finished
  <2>2. mgr'.targets = {}
    BY <2>1 DEF IdleMgr
  <2>3. \A f \in Folders : cache'[f] \in {cache[f], NoBag}
    BY <2>1
  <2> QED BY <1>0, <2>1, <2>2, <2>3 DEF DirectoryTyped
<1> QED BY <1>3, <1>4, <1>5, <1>6, <1>7, <1>8 DEF RowStep

(* What the sync has yet to send is in the queue.                            *)
LEMMA PendingFacts ==
  ASSUME Counted, QueuesTyped, NEW s \in Sessions, s = sync.seen[sync.folder].session,
         Pending # <<>>
  PROVE  Pending[1] \in Range(queues[s]) /\ Pending[1] \in Queued
PROOF
<1> DEFINE P == {k \in DOMAIN queues[s] : /\ isUserEntry(queues[s][k])
                                          /\ queues[s][k].item \notin sync.done}
<1>1. Pending = Keeping(queues[s], P)
  BY DEF Pending
<1>2. PICK p : p = Keeping(queues[s], P)
  OBVIOUS
<1>3. queues[s] \in Seq(Queued) /\ P \in SUBSET (DOMAIN queues[s])
  BY DEF QueuesTyped
<1>4. p \in Seq(Queued) /\ Range(p) = {queues[s][k] : k \in P}
  BY <1>2, <1>3, KeepingFacts
<1>5. p # <<>> /\ Pending = p
  BY <1>1, <1>2
<1>6. 1 \in DOMAIN p
  BY <1>4, <1>5
<1>7. p[1] \in Range(p) /\ p[1] \in Queued
  BY <1>4, <1>6, SeqFacts DEF Range
<1>8. Range(p) \subseteq Range(queues[s])
  BY <1>3, <1>4 DEF Range
<1> QED BY <1>5, <1>7, <1>8

LEMMA SyncStepTyped ==
  ASSUME IInv, Typed, SyncStep
  PROVE  Typed'
PROOF
<1>0. /\ Counted /\ Shaped /\ Marked
      /\ DirectoryTyped /\ CopiesTyped /\ QueuesTyped /\ BindingsTyped /\ EventsTyped
      /\ sync.folder \in Folders
  BY DEF IInv, Typed, Counted
<1>1. SyncUnchanged
  BY DEF SyncStep, SyncStart, SyncRemember, sweep, SyncCreate, SyncUpdateFolder, SyncBound,
         SyncSend, SyncSettle, SyncEnd
<1>2. UNCHANGED <<account, cache, doomed, mgr, hooks>>
  BY <1>1 DEF SyncUnchanged
<1>3. DirectoryTyped' /\ EventsTyped'
  <2>1. made' = made \/ made' = made + 1
    BY DEF SyncStep, SyncStart, SyncRemember, sweep, SyncCreate, SyncUpdateFolder, SyncBound,
           SyncSend, SyncSettle, SyncEnd
  <2>2. 1..made \subseteq 1..made'
    BY <1>0, <2>1, Bounds DEF Counted
  <2> QED BY <1>0, <1>2, <2>2, SameTypes DEF DirectoryTyped
<1>4. SUFFICES CopiesTyped' /\ QueuesTyped' /\ BindingsTyped'
  BY <1>3 DEF Typed
<1>5. ASSUME NEW b, sync' = [sync EXCEPT !.at = b] PROVE sync'.at = b /\ sync'.target = sync.target
  BY <1>0, <1>5 DEF Counted
<1>6. IdleSync.at = "idle"
  BY DEF IdleSync
<1>7. ASSUME UNCHANGED <<contents, server>>,
             sync'.at \in {"push", "settle", "failed"} => sync'.target \in Targets
      PROVE  CopiesTyped'
  BY <1>0, <1>7 DEF CopiesTyped
<1>8. ASSUME NEW f \in Folders, SyncStart(f) PROVE CopiesTyped' /\ QueuesTyped' /\ BindingsTyped'
  <2>1. /\ UNCHANGED <<contents, queues, bindings, server>>
        /\ sync' = [IdleSync EXCEPT !.at = "remember", !.folder = f, !.seen = rows,
                                    !.target = rows[f].target]
    BY <1>8 DEF SyncStart
  <2>2. sync'.at = "remember"
    BY <2>1 DEF IdleSync
  <2> QED BY <1>0, <1>7, <2>1, <2>2, SameTypes
<1>9. CASE SyncRemember
  <2>1. /\ UNCHANGED <<contents, queues, server>> /\ sync.at = "remember"
        /\ sync' = [sync EXCEPT !.at = "sweep"]
        /\ bindings' = rememberBindings(sync.seen)
    BY <1>9 DEF SyncRemember
  <2>2. ASSUME NEW t \in Targets PROVE bindings'[t] \in Links
    <3>1. CASE t \notin Named(sync.seen)
      <4>1. bindings'[t] = bindings[t]
        BY <2>1, <3>1 DEF rememberBindings
      <4> QED BY <1>0, <4>1 DEF BindingsTyped
    <3>2. CASE t \in Named(sync.seen)
      <4> DEFINE f == CHOOSE g \in Folders : sync.seen[g] # NoRow /\ sync.seen[g].target = t
      <4>1. f \in Folders
        BY <3>2 DEF Named
      <4>2. bindings'[t] = [folder |-> f, session |-> sync.seen[f].session]
        BY <2>1, <3>2 DEF rememberBindings
      <4> HIDE DEF f
      <4> QED BY <1>0, <2>1, <4>1, <4>2, BindingTyped
    <3> QED BY <3>1, <3>2
  <2> QED BY <1>0, <1>5, <1>7, <2>1, <2>2, SameTypes DEF BindingsTyped
<1>10. CASE sweep
  <2>1. /\ UNCHANGED <<contents, server>>
        /\ sync' = [sync EXCEPT !.at = "bind"]
        /\ queues' = [s \in Sessions |-> IF s \in Claimed(sync.seen) THEN queues[s] ELSE <<>>]
        /\ bindings' = [t \in Targets |-> IF t \in Orphaned(sync.seen) THEN NoBinding
                                          ELSE bindings[t]]
    BY <1>10 DEF sweep
  <2>2. <<>> \in Seq(Queued)
    OBVIOUS
  <2>3. QueuesTyped'
    BY <1>0, <2>1, <2>2 DEF QueuesTyped
  <2>4. BindingsTyped'
    BY <1>0, <2>1, BindingTyped DEF BindingsTyped
  <2> QED BY <1>5, <1>7, <2>1, <2>3, <2>4
<1>11. CASE SyncCreate
  <2>1. /\ UNCHANGED <<queues, bindings, server>>
        /\ contents' = [contents EXCEPT ![made + 1] = server[sync.folder]]
        /\ sync' = [sync EXCEPT !.at = "updateFolder", !.target = made + 1]
    BY <1>11 DEF SyncCreate
  <2>2. sync'.at = "updateFolder"
    BY <1>0, <2>1 DEF Counted
  <2>3. server[sync.folder] \in Copies
    BY <1>0 DEF CopiesTyped, Copies
  <2>4. \A t \in Targets : contents'[t] \in Copies
    <3>1. PICK c : c = server[sync.folder]
      OBVIOUS
    <3>2. contents' = [contents EXCEPT ![made + 1] = c] /\ c \in Copies
      BY <2>1, <2>3, <3>1
    <3> QED BY <1>0, <3>2 DEF CopiesTyped, Shaped
  <2>5. CopiesTyped'
    BY <1>0, <2>1, <2>2, <2>4 DEF CopiesTyped
  <2> QED BY <1>0, <2>1, <2>5, SameTypes
<1>12. CASE SyncUpdateFolder
  <2> DEFINE b == [folder |-> sync.folder, session |-> sync.seen[sync.folder].session]
  <2>1. /\ UNCHANGED <<contents, queues, server>> /\ sync.at = "updateFolder"
        /\ sync' = IdleSync \/ sync' = [sync EXCEPT !.at = "push"]
        /\ bindings' = bindings \/ bindings' = [bindings EXCEPT ![sync.target] = b]
    BY <1>12 DEF SyncUpdateFolder
  <2>2. b \in Links
    BY <1>0, <2>1, BindingTyped
  <2> HIDE DEF b
  <2>3. BindingsTyped'
    BY <1>0, <2>1, <2>2 DEF BindingsTyped, Shaped
  <2>4. sync.target \in Targets
    BY <1>0, <2>1, Bounds DEF Counted
  <2> QED BY <1>0, <1>5, <1>6, <1>7, <2>1, <2>3, <2>4, SameTypes
<1>13. CASE SyncBound
  <2>1. /\ UNCHANGED <<contents, queues, bindings, server>>
        /\ \/ sync' = IdleSync
           \/ sync' = [sync EXCEPT !.at = "push"] /\ sync.target \in Resources
    BY <1>13 DEF SyncBound
  <2> QED BY <1>0, <1>5, <1>6, <1>7, <2>1, SameTypes DEF Resources
<1>14. CASE SyncSend
  <2> DEFINE i == Pending[1].item
             now == IF Pending[1].status = "deleted_by_user" \/ contents[sync.target] = NotBound
                    THEN "gone" ELSE contents[sync.target][i]
  <2>1. /\ UNCHANGED <<contents, queues, bindings>> /\ sync.at = "push"
        /\ Pending # <<>>
        /\ \/ UNCHANGED server
           \/ server' = [server EXCEPT ![sync.folder][i] = now]
        /\ \E a : sync' = [sync EXCEPT !.at = a, !.item = i, !.done = @ \cup {i}]
    BY <1>14 DEF SyncSend
  <2>2. sync.target \in Targets /\ sync'.target = sync.target
    BY <1>0, <2>1 DEF CopiesTyped, Counted
  <2>3. i \in Items => now \in Versions
    <3>1. contents[sync.target] \in Copies
      BY <1>0, <2>2 DEF CopiesTyped
    <3> QED BY <3>1 DEF Copies, Versions
  <2> HIDE DEF i, now
  <2>4. server' \in [Folders -> [Items -> Versions]]
    <3>1. CASE UNCHANGED server
      BY <1>0, <3>1 DEF CopiesTyped
    <3>2. CASE server' = [server EXCEPT ![sync.folder][i] = now]
      <4>1. server \in [Folders -> [Items -> Versions]]
        BY <1>0 DEF CopiesTyped
      <4>2. [server[sync.folder] EXCEPT ![i] = now] \in [Items -> Versions]
        BY <1>0, <2>3, <4>1
      <4>3. server' = [server EXCEPT ![sync.folder] = [server[sync.folder] EXCEPT ![i] = now]]
        BY <3>2
      <4> QED BY <4>1, <4>2, <4>3
    <3> QED BY <2>1, <3>1, <3>2
  <2>5. CopiesTyped'
    BY <1>0, <2>1, <2>2, <2>4 DEF CopiesTyped
  <2> QED BY <1>0, <2>1, <2>5, SameTypes
<1>15. CASE SyncSettle
  <2> DEFINE s == sync.seen[sync.folder].session
             id == Id(sync.target, sync.item)
  <2>1. /\ UNCHANGED <<contents, bindings, server>> /\ sync.at \in {"settle", "failed"}
        /\ sync' = [sync EXCEPT !.at = "push"]
        /\ \/ queues' = [queues EXCEPT ![s] = removeEntryUpdater(queues[s], id)]
           \/ queues' = [queues EXCEPT ![s] = moveToTailUpdater(queues[s], {id})]
    BY <1>15 DEF SyncSettle
  <2>2. ASSUME NEW z \in Sessions PROVE queues'[z] \in Seq(Queued)
    <3>1. queues[z] \in Seq(Queued) /\ queues = [y \in Sessions |-> queues[y]]
      BY <1>0 DEF QueuesTyped, Shaped
    <3>2. removeEntryUpdater(queues[z], id) \in Seq(Queued)
      BY <3>1, DropTyped DEF removeEntryUpdater
    <3>3. moveToTailUpdater(queues[z], {id}) \in Seq(Queued)
      BY <3>1, TailFacts
    <3> HIDE DEF s, id
    <3>4. \/ queues'[z] = queues[z]
          \/ queues'[z] = removeEntryUpdater(queues[z], id)
          \/ queues'[z] = moveToTailUpdater(queues[z], {id})
      <4>1. CASE z = s
        BY <2>1, <3>1, <4>1
      <4>2. CASE z # s
        BY <2>1, <3>1, <4>2
      <4> QED BY <4>1, <4>2
    <3> QED BY <3>1, <3>2, <3>3, <3>4
  <2>3. sync.target \in Targets
    BY <1>0, <2>1 DEF CopiesTyped
  <2> QED BY <1>0, <1>5, <1>7, <2>1, <2>2, <2>3, SameTypes DEF QueuesTyped
<1>16. CASE SyncEnd
  <2>1. UNCHANGED <<contents, queues, bindings, server>> /\ sync' = IdleSync
    BY <1>16 DEF SyncEnd
  <2> QED BY <1>0, <1>6, <1>7, <2>1, SameTypes
<1> QED BY <1>8, <1>9, <1>10, <1>11, <1>12, <1>13, <1>14, <1>15, <1>16 DEF SyncStep

-----------------------------------------------------------------------------
LEMMA TypedInvariance == Spec => [](IInv /\ Typed)
PROOF
<1>1. Init => IInv /\ Typed
  BY InitKeeps, TypedInit
<1>2. IInv /\ Typed /\ [Next]_vars => (IInv /\ Typed)'
  <2> SUFFICES ASSUME IInv, Typed, [Next]_vars PROVE IInv' /\ Typed'
    OBVIOUS
  <2>1. IInv'
    BY NextKeeps
  <2> SUFFICES Typed'
    BY <2>1
  <2>2. CASE Next
    <3>1. HostStep \/ RowStep \/ SyncStep
      BY <2>2, Steps
    <3>2. CASE HostStep
      BY <3>2, HostStepTyped
    <3>3. CASE RowStep
      BY <3>3, RowStepTyped
    <3>4. CASE SyncStep
      BY <3>4, SyncStepTyped
    <3> QED BY <3>1, <3>2, <3>3, <3>4
  <2>3. CASE UNCHANGED vars
    <3>1. UNCHANGED <<account, cache, made, contents, queues, bindings, hooks, mgr, doomed,
                      sync, server>>
      BY <2>3 DEF vars
    <3>2. DirectoryTyped /\ CopiesTyped /\ QueuesTyped /\ BindingsTyped /\ EventsTyped
      BY DEF Typed
    <3>3. DirectoryTyped' /\ CopiesTyped' /\ QueuesTyped' /\ BindingsTyped' /\ EventsTyped'
      BY <3>1, <3>2, SameTypes
    <3> QED BY <3>3 DEF Typed
  <2> QED BY <2>2, <2>3
<1> QED BY <1>1, <1>2, PTL DEF Spec

(* The queues hold rows of resources and items only, a binding names a folder *)
(* and a session, and every copy of a folder is whole.                       *)
THEOREM SessionsTyped == Spec => []TypeOK
PROOF
<1>1. ASSUME IInv, Typed PROVE TypeOK
  <2>0. /\ Counted /\ Shaped /\ Marked /\ Remembered
        /\ DirectoryTyped /\ CopiesTyped /\ QueuesTyped /\ BindingsTyped
    BY <1>1 DEF IInv, Typed
  <2>1. rows \in [Folders -> {NoRow} \cup
                 [selected : BOOLEAN, downloadOnly : BOOLEAN,
                  target : Targets \cup {NoTarget}, session : Sessions]]
    BY <2>0 DEF Counted, Tables, RowSet
  <2>2. cache \in [Folders -> {NoBag, "download only", "plain"}]
    BY <2>0 DEF Remembered, DirectoryTyped
  <2>3. 1..made \subseteq Targets
    BY <2>0, Bounds DEF Counted
  <2>4. {marked, doomed, mgr.targets} \subseteq SUBSET Targets
    BY <2>0, <2>3 DEF Marked, DirectoryTyped
  <2>5. contents \in [Targets -> {NotBound} \cup [Items -> Versions]]
    BY <2>0 DEF Shaped, CopiesTyped, Copies
  <2>6. bindings \in [Targets -> [folder : Folders, session : 0..MaxSessions]]
    BY <2>0 DEF Shaped, BindingsTyped, Links
  <2>7. ASSUME NEW s \in Sessions, NEW k \in DOMAIN queues[s]
        PROVE  queues[s][k].parent \in Targets /\ queues[s][k].item \in Items
    <3>1. queues[s][k] \in Queued
      BY <2>0, SeqFacts DEF QueuesTyped
    <3> QED BY <3>1 DEF Queued
  <2>8. account \in {"enabled", "disabled", "removed"}
        /\ minted \in 0..MaxSessions /\ made \in 0..MaxTargets
        /\ server \in [Folders -> [Items -> Versions]]
    BY <2>0 DEF DirectoryTyped, Counted, CopiesTyped
  <2> QED BY <2>1, <2>2, <2>4, <2>5, <2>6, <2>7, <2>8 DEF TypeOK
<1> QED BY <1>1, TypedInvariance, PTL
-----------------------------------------------------------------------------
(* What the queues owe the server: the invariant the refinement rests on.    *)

Live(f) == rows[f].target # NoTarget /\ contents[rows[f].target] # NotBound
Deselecting(f) == mgr.at = "delete" /\ mgr.op = "deselect" /\ mgr.folder = f
Early == sync.at \in {"remember", "sweep", "bind"}
Late == sync.at \in {"push", "settle", "failed"}
(* The user, or the teardown, took the resource the sync is about to use.    *)
Lost == Early /\ sync.target # NoTarget /\ contents[sync.target] = NotBound

(* Something of resource t is filed under session s, or is about to be.      *)
Says(t, s) ==
  \/ bindings[t].session = s
  \/ \E h \in hooks : h.target = t /\ h.session = s
  \/ \E i \in Items : Holds(queues[s], t, i)
Unmade(t) ==
  /\ bindings[t] = NoBinding
  /\ \A h \in hooks : h.target # t
  /\ \A s \in Sessions : ~Says(t, s)

(* No two rows share a resource or a session.                                *)
Apart ==
  /\ \A f, g \in Folders :
       rows[f].target = rows[g].target /\ rows[f].target # NoTarget => f = g
  /\ \A f, g \in Folders :
       rows[f] # NoRow /\ rows[f].session = rows[g].session => f = g

(* What is filed of a folder's resource is filed under the folder's session, *)
OwnSession ==
  \A f \in Folders : Live(f) =>
    \A s \in Sessions : Says(rows[f].target, s) => s = rows[f].session
(* and nothing else is filed there;                                          *)
OwnTarget ==
  \A f \in Folders : rows[f] # NoRow =>
    \A t \in Targets :
      Says(t, rows[f].session) => t = rows[f].target \/ Deselecting(f)
(* the provider remembers the resource, and nobody knows one not yet made.   *)
Known ==
  /\ \A f \in Folders : rows[f].target # NoTarget => bindings[rows[f].target].session # 0
  /\ \A t \in Targets : t > made => Unmade(t)
  /\ \A t \in Targets : bindings[t].session = 0 => bindings[t] = NoBinding
  /\ \A h \in hooks : h.at = "record" => h.session \in Sessions

(* The rows the sync will remember do not contradict the rows.               *)
SeenRight ==
  sync.at = "remember" => \A f, g \in Folders :
    /\ Live(f) /\ sync.seen[g].target = rows[f].target
         => sync.seen[g].session = rows[f].session
    /\ rows[f] # NoRow /\ sync.seen[g].session = rows[f].session
         /\ sync.seen[g].target # NoTarget
         => sync.seen[g].target = rows[f].target \/ Deselecting(f)
    /\ sync.seen[g].target <= made

(* The row of the sync's folder is as the sync believes, unless the resource *)
(* is lost, and nobody is about to change it.                                *)
Held ==
  sync.at # "idle" =>
    /\ Early \/ sync.at = "updateFolder" \/ Late
    /\ sync.seen[sync.folder] # NoRow
    /\ sync.target \in 0..made
    /\ \/ Lost
       \/ /\ rows[sync.folder] # NoRow
          /\ rows[sync.folder].session = sync.seen[sync.folder].session
          /\ rows[sync.folder].target = IF sync.at = "updateFolder" THEN NoTarget
                                        ELSE sync.target
Alone ==
  sync.at # "idle" =>
    /\ push.at = "replace" => sync.folder \in push.listed
    /\ mgr.at # "idle" => mgr.op \in {"select", "deselect"} /\ mgr.folder # sync.folder
    /\ \A r \in reports : r.at = "clear" /\ r.folder = sync.folder => Lost

(* The resource the sync has bound, or is about to bind.                     *)
BoundOk ==
  /\ Late \/ sync.at = "updateFolder" =>
       /\ sync.target # NoTarget /\ contents[sync.target] # NotBound
       /\ sync.target \notin doomed \cup mgr.targets
  /\ sync.at = "updateFolder" =>
       /\ contents[sync.target] = server[sync.folder] /\ Unmade(sync.target)
       /\ \A g \in Folders : rows[g].target # sync.target
  /\ sync.at \in {"settle", "failed"} => sync.item \in Items
  /\ sync.at = "settle" => server[sync.folder][sync.item] = contents[sync.target][sync.item]

(* What is being taken away, and by whom.                                    *)
Taken ==
  /\ doomed \cap Named(rows) = {}
  /\ \A r \in reports : r.target \in 1..made /\ contents[r.target] = NotBound
  /\ mgr.at = "idle" => mgr.targets = {}
  /\ mgr.at # "idle" => mgr.op \in {"select", "deselect", "disconnect", "remove"}
  /\ mgr.at = "update" => mgr.op = "select"
  /\ mgr.at = "clear" => mgr.op \in {"disconnect", "remove"}
  /\ mgr.op \in {"select", "deselect"} =>
       \A f \in Folders : f # mgr.folder => rows[f].target \notin mgr.targets
  /\ mgr.op = "deselect" /\ mgr.at \in {"told", "delete"} =>
       (Live(mgr.folder) => rows[mgr.folder].target \in mgr.targets)

(* Only what is gone from a resource is filed as a deletion.                 *)
Struck(q, t, i) ==
  \E r \in Range(q) : r.parent = t /\ r.item = i /\ r.status = "deleted_by_user"
GoneRight ==
  \A t \in Targets, i \in Items :
    contents[t] # NotBound /\ contents[t][i] # "gone" =>
      /\ \A h \in hooks : ~(h.target = t /\ h.item = i /\ h.op = "deleted")
      /\ \A s \in Sessions : ~Struck(queues[s], t, i)

FiledWell == Apart /\ OwnSession /\ OwnTarget /\ Known /\ GoneRight
SyncWell == SeenRight /\ Held /\ Alone /\ BoundOk
Bound == FiledWell /\ SyncWell /\ Taken

LEMMA TargetFacts ==
  ASSUME Counted, NEW f \in Folders
  PROVE  /\ rows[f].target \in Targets \cup {NoTarget}
         /\ rows[f].target # NoTarget => rows[f] # NoRow
         /\ rows[f] # NoRow => rows[f].session \in Sessions
         /\ rows[f] = NoRow => rows[f].session = 0 /\ rows[f].target = NoTarget
         /\ Live(f) => rows[f] # NoRow /\ rows[f].target \in Targets
PROOF
<1>1. CASE rows[f] = NoRow
  BY <1>1, RowFacts DEF Live
<1>2. CASE rows[f] # NoRow
  BY <1>2, RowTyped DEF Live
<1> QED BY <1>1, <1>2

LEMMA SaysMinted ==
  ASSUME Counted, Filed, NEW t \in Targets, NEW s \in Sessions, Says(t, s)
  PROVE  s <= minted
PROOF
<1>1. SUFFICES ASSUME Unfiled(s) PROVE FALSE
  BY Bounds DEF Filed, Counted
<1>2. Range(queues[s]) = {}
  BY <1>1 DEF Unfiled, Range
<1>3. bindings[t].session # s /\ \A h \in hooks : h.session # s
  BY <1>1 DEF Unfiled
<1> QED BY <1>2, <1>3 DEF Says, Holds

-----------------------------------------------------------------------------
(* What a step other than the binding does to the rows: a row keeps its      *)
(* session, or gets a new one when it has no live resource.                  *)
KeepsRow(f) ==
  /\ rows[f] # NoRow /\ rows'[f].session = rows[f].session
  /\ rows'[f].target = rows[f].target \/ (rows'[f].target = NoTarget /\ Deselecting(f)')
RenewsRow(f) ==
  /\ rows'[f].session \in (minted + 1)..minted'
  /\ \/ rows'[f].target = NoTarget
     \/ rows[f] # NoRow /\ rows'[f].target = rows[f].target /\ ~Live(f)
RowsTurn ==
  /\ \A f \in Folders : rows'[f] # NoRow => KeepsRow(f) \/ RenewsRow(f)
  /\ \A f, g \in Folders :
       rows'[f].session = rows'[g].session /\ rows'[f].session > minted => f = g
  /\ \A f \in Folders :
       Deselecting(f) /\ rows'[f] # NoRow => Deselecting(f)' \/ rows'[f].session > minted

LEMMA SameTurn ==
  ASSUME Counted, Filed, UNCHANGED rows,
         \A f \in Folders : Deselecting(f) => Deselecting(f)' \/ rows[f] = NoRow
  PROVE  RowsTurn
PROOF
<1>1. \A f \in Folders : rows[f].session <= minted /\ rows[f].session \in Nat /\ minted \in Nat
  BY TargetFacts, Bounds DEF Filed, Counted
<1>2. \A f \in Folders : rows'[f] # NoRow => KeepsRow(f)
  BY DEF KeepsRow
<1>3. \A f \in Folders : ~(rows'[f].session > minted)
  BY <1>1
<1> QED BY <1>2, <1>3 DEF RowsTurn

LEMMA OneTurn ==
  ASSUME Counted, Filed, NEW f \in Folders, rows[f] # NoRow, NEW r \in RowSet,
         rows' = [rows EXCEPT ![f] = r],
         \/ /\ r.session = rows[f].session
            /\ r.target = rows[f].target \/ (r.target = NoTarget /\ Deselecting(f)')
         \/ /\ r.session \in (minted + 1)..minted'
            /\ r.target = NoTarget \/ (r.target = rows[f].target /\ ~Live(f)),
         \A g \in Folders :
           Deselecting(g) => Deselecting(g)' \/ (g = f /\ r.session \in (minted + 1)..minted')
  PROVE  RowsTurn
PROOF
<1>1. \A g \in Folders : rows[g].session <= minted /\ rows[g].session \in Nat /\ minted \in Nat
  BY TargetFacts, Bounds DEF Filed, Counted
<1>2. rows'[f] = r /\ \A g \in Folders : g # f => rows'[g] = rows[g]
  BY DEF Counted, Tables
<1>3. r \notin {NoRow} /\ r.session \in Nat
  BY RowFacts, Bounds DEF RowSet
<1>4. \A g \in Folders : rows'[g] # NoRow => KeepsRow(g) \/ RenewsRow(g)
  <2>1. ASSUME NEW g \in Folders, rows'[g] # NoRow, g # f PROVE KeepsRow(g)
    BY <1>2, <2>1 DEF KeepsRow
  <2>2. KeepsRow(f) \/ RenewsRow(f)
    BY <1>2 DEF KeepsRow, RenewsRow
  <2> QED BY <2>1, <2>2
<1>5. \A g \in Folders : rows'[g].session > minted => g = f
  BY <1>1, <1>2
<1>6. \A g \in Folders : Deselecting(g) => Deselecting(g)' \/ rows'[g].session > minted
  BY <1>1, <1>2, <1>3
<1> QED BY <1>4, <1>5, <1>6 DEF RowsTurn

(* The sessions that a folder list mints differ.                             *)
LEMMA ReplacedApart ==
  ASSUME Counted, ReplaceFolders, NEW f \in Folders, NEW g \in Folders,
         f \in push.listed, g \in push.listed, rows[f] = NoRow, rows[g] = NoRow,
         rows'[f].session = rows'[g].session
  PROVE  f = g
PROOF
<1> DEFINE listed == push.listed
           fresh == {k \in listed : rows[k] = NoRow}
           mint == Minting(fresh)
<1>1. fresh \in SUBSET Folders /\ minted \in Nat /\ MaxSessions \in Nat
  BY Bounds DEF Counted
<1>2. /\ Cardinality(fresh) \in Nat
      /\ \A k \in fresh : mint[k] \in (minted + 1)..(minted + Cardinality(fresh))
      /\ \A k, m \in fresh : mint[k] = mint[m] => k = m
  BY <1>1, MintingNew
<1>3. /\ minted + Cardinality(fresh) <= MaxSessions
      /\ rows' = [k \in Folders |->
           CASE k \in fresh            -> Restored(k, mint[k])
             [] k \in listed \ fresh   -> rows[k]
             [] k \notin listed        -> NoRow]
  BY DEF ReplaceFolders, replaceAccountFolders
<1> HIDE DEF mint, fresh
<1>4. \A k \in fresh : k \in listed /\ k \in Folders
  BY <1>1 DEF fresh
<1>5. ASSUME NEW k \in fresh PROVE rows'[k].session = mint[k]
  <2>1. mint[k] \in Sessions
    BY <1>1, <1>2, <1>3, Bounds
  <2>2. rows'[k] = Restored(k, mint[k])
    BY <1>3, <1>4
  <2>3. RowLike(Restored(k, mint[k]), NoTarget, mint[k])
    BY <1>4, <2>1, RestoredTyped
  <2> QED BY <2>2, <2>3 DEF RowLike
<1>6. f \in fresh /\ g \in fresh
  BY DEF fresh
<1> QED BY <1>2, <1>5, <1>6

LEMMA ReplaceTurns ==
  ASSUME Counted, Filed, ReplaceFolders
  PROVE  RowsTurn
PROOF
<1>0. UNCHANGED <<mgr, sync, contents>>
  BY DEF ReplaceFolders
<1>1. \A g \in Folders : rows[g].session <= minted /\ rows[g].session \in Nat /\ minted \in Nat
  BY TargetFacts, Bounds DEF Filed, Counted
<1>2. ASSUME NEW f \in Folders
      PROVE  \/ rows'[f] = NoRow
             \/ rows[f] # NoRow /\ rows'[f] = rows[f]
             \/ /\ f \in push.listed /\ rows[f] = NoRow /\ rows'[f].target = NoTarget
                /\ rows'[f].session \in (minted + 1)..minted'
  <2>1. CASE f \in push.listed /\ rows[f] = NoRow
    <3>1. PICK s \in Sessions : s \in (minted + 1)..minted' /\ rows'[f] = Restored(f, s)
      BY <2>1, ReplacedRow, Zenon
    <3>2. RowLike(rows'[f], NoTarget, s)
      BY <3>1, RestoredTyped
    <3> QED BY <2>1, <3>1, <3>2 DEF RowLike
  <2>2. CASE f \notin push.listed
    BY <2>2, ReplacedRow
  <2>3. CASE f \in push.listed /\ rows[f] # NoRow
    BY <2>3, ReplacedRow
  <2> QED BY <2>1, <2>2, <2>3
<1>3. \A f \in Folders : rows'[f] # NoRow => KeepsRow(f) \/ RenewsRow(f)
  BY <1>2 DEF KeepsRow, RenewsRow
<1>4. ASSUME NEW f \in Folders, NEW g \in Folders,
             rows'[f].session = rows'[g].session, rows'[f].session > minted
      PROVE  f = g
  <2>1. NoRow.session = 0
    BY RowFacts
  <2>2. ASSUME NEW k \in Folders, rows'[k].session > minted
        PROVE  k \in push.listed /\ rows[k] = NoRow
    BY <1>1, <1>2, <2>1, <2>2
  <2>3. f \in push.listed /\ rows[f] = NoRow /\ g \in push.listed /\ rows[g] = NoRow
    BY <1>4, <2>2
  <2> QED BY <1>4, <2>3, ReplacedApart
<1>5. \A f \in Folders : Deselecting(f) => Deselecting(f)'
  BY <1>0 DEF Deselecting
<1> QED BY <1>3, <1>4, <1>5 DEF RowsTurn

LEMMA ClearTurns ==
  ASSUME Counted, Filed, NEW f \in Folders, clearTarget(f), UNCHANGED mgr
  PROVE  RowsTurn
PROOF
<1>0. \A g \in Folders : Deselecting(g) => Deselecting(g)'
  BY DEF Deselecting
<1>1. CASE UNCHANGED <<rows, minted>>
  BY <1>0, <1>1, SameTurn
<1>2. CASE /\ rows[f] # NoRow /\ minted < MaxSessions
           /\ rows' = [rows EXCEPT ![f] = Cleared(f)] /\ minted' = minted + 1
  <2>1. RowLike(Cleared(f), NoTarget, minted + 1)
    <3>1. rows[f] \in RowSet /\ minted + 1 \in Sessions
      BY <1>2, RowTyped, NextSession
    <3> QED BY <3>1, RowExcept DEF Cleared
  <2>2. minted + 1 \in (minted + 1)..minted'
    BY <1>2, NextSession
  <2> QED BY <1>0, <1>2, <2>1, <2>2, OneTurn DEF RowLike
<1> QED BY <1>1, <1>2 DEF clearTarget

(* A flag is set, or a folder that is being deselected loses its resource.   *)
LEMMA FlagTurns ==
  ASSUME Counted, Filed, NEW f \in Folders, rows[f] # NoRow, NEW b \in BOOLEAN,
         \/ rows' = [rows EXCEPT ![f].selected = b]
         \/ rows' = [rows EXCEPT ![f].downloadOnly = b]
         \/ rows' = [rows EXCEPT ![f].target = NoTarget] /\ Deselecting(f)',
         \A g \in Folders : Deselecting(g) => Deselecting(g)'
  PROVE  RowsTurn
PROOF
<1>0. /\ rows[f] \in RowSet /\ rows[f].session \in Sessions
      /\ NoTarget \in Targets \cup {NoTarget}
      /\ rows = [g \in Folders |-> rows[g]]
  BY RowTyped DEF Counted, Tables
<1>1. PICK a, c, d : /\ a = [rows[f] EXCEPT !.selected = b]
                     /\ c = [rows[f] EXCEPT !.downloadOnly = b]
                     /\ d = [rows[f] EXCEPT !.target = NoTarget]
  OBVIOUS
<1>2. /\ RowLike(a, rows[f].target, rows[f].session)
      /\ RowLike(c, rows[f].target, rows[f].session)
      /\ RowLike(d, NoTarget, rows[f].session)
  BY <1>0, <1>1, RowExcept
<1>3. CASE rows' = [rows EXCEPT ![f].selected = b]
  <2>1. rows' = [rows EXCEPT ![f] = a]
    BY <1>0, <1>1, <1>3
  <2> QED BY <1>2, <2>1, OneTurn DEF RowLike
<1>4. CASE rows' = [rows EXCEPT ![f].downloadOnly = b]
  <2>1. rows' = [rows EXCEPT ![f] = c]
    BY <1>0, <1>1, <1>4
  <2> QED BY <1>2, <2>1, OneTurn DEF RowLike
<1>5. CASE rows' = [rows EXCEPT ![f].target = NoTarget] /\ Deselecting(f)'
  <2>1. rows' = [rows EXCEPT ![f] = d]
    BY <1>0, <1>1, <1>5
  <2> QED BY <1>2, <1>5, <2>1, OneTurn DEF RowLike
<1> QED BY <1>3, <1>4, <1>5

LEMMA ToldTurns ==
  ASSUME Counted, Shaped, Filed, Told
  PROVE  RowsTurn
PROOF
<1>1. \A g \in Folders : ~Deselecting(g)
  BY DEF Told, Deselecting
<1>2. CASE UNCHANGED rows
  BY <1>1, <1>2, SameTurn
<1>3. CASE /\ mgr.op = "deselect" /\ mgr' = [mgr EXCEPT !.at = "delete"]
           /\ rows[mgr.folder] # NoRow
           /\ rows' = [rows EXCEPT ![mgr.folder].target = NoTarget]
  <2>1. mgr' = [at |-> "delete", op |-> mgr.op, folder |-> mgr.folder, targets |-> mgr.targets]
    BY <1>3, MgrExcept
  <2>2. Deselecting(mgr.folder)'
    BY <1>3, <2>1 DEF Deselecting
  <2>3. mgr.folder \in Folders
    BY DEF Shaped
  <2>4. PICK f \in Folders : f = mgr.folder
    BY <2>3
  <2>5. /\ rows[f] # NoRow /\ rows' = [rows EXCEPT ![f].target = NoTarget] /\ Deselecting(f)'
    BY <1>3, <2>2, <2>4 DEF Deselecting
  <2> QED BY <1>1, <2>5, FlagTurns
<1> QED BY <1>2, <1>3 DEF Told

LEMMA FinishedTurns ==
  ASSUME Counted, Shaped, Filed, Taken, Finished
  PROVE  RowsTurn
PROOF
<1> DEFINE f == mgr.folder
<1>0. f \in Folders /\ \A g \in Folders : Deselecting(g) => g = f /\ mgr.op = "deselect"
  BY DEF Shaped, Deselecting
<1>1. CASE UNCHANGED rows /\ mgr.op # "deselect"
  BY <1>0, <1>1, SameTurn
<1>2. CASE rows[f] # NoRow /\ mgr.op = "select" /\ rows' = [rows EXCEPT ![f].selected = TRUE]
  BY <1>0, <1>2, FlagTurns
<1>3. CASE mgr.op = "deselect" /\ UNCHANGED rows /\ rows[f] = NoRow
  BY <1>0, <1>3, SameTurn
<1>4. CASE /\ mgr.op = "deselect" /\ minted < MaxSessions /\ minted' = minted + 1
           /\ rows[f] # NoRow /\ rows' = [rows EXCEPT ![f] = Deselected(f)]
  <2>1. RowLike(Deselected(f), rows[f].target, minted + 1)
    <3>1. rows[f] \in RowSet /\ minted + 1 \in Sessions
      BY <1>0, <1>4, RowTyped, NextSession
    <3> QED BY <3>1, RowExcept DEF Deselected
  <2>2. minted + 1 \in (minted + 1)..minted'
    BY <1>4, NextSession
  <2>3. ~Live(f)
    BY <1>4 DEF Finished, Taken
  <2> HIDE DEF f
  <2> QED BY <1>0, <1>4, <2>1, <2>2, <2>3, OneTurn DEF RowLike
<1> QED BY <1>1, <1>2, <1>3, <1>4 DEF Finished

LEMMA RowStepTurns ==
  ASSUME Counted, Shaped, Filed, Taken, RowStep
  PROVE  RowsTurn
PROOF
<1>1. CASE ReplaceFolders
  BY <1>1, ReplaceTurns
<1>2. ASSUME NEW r \in reports, Report(r) PROVE RowsTurn
  <2>0. UNCHANGED mgr /\ \A f \in Folders : Deselecting(f) => Deselecting(f)'
    BY <1>2 DEF Report, Deselecting
  <2>1. CASE UNCHANGED rows
    BY <2>0, <2>1, SameTurn
  <2>2. CASE r.at = "clear" /\ clearTarget(r.folder)
    BY <2>0, <2>2, ClearTurns DEF Shaped
  <2> QED BY <1>2, <2>1, <2>2 DEF Report
<1>3. ASSUME NEW f \in Folders, setFolderDownloadOnly(f) PROVE RowsTurn
  <2>1. /\ rows[f] # NoRow /\ rows' = [rows EXCEPT ![f].downloadOnly = TRUE]
        /\ UNCHANGED mgr
    BY <1>3 DEF setFolderDownloadOnly
  <2>2. \A g \in Folders : Deselecting(g) => Deselecting(g)'
    BY <2>1 DEF Deselecting
  <2> QED BY <2>1, <2>2, FlagTurns
<1>4. CASE Told
  BY <1>4, ToldTurns
<1>5. CASE clearAccount
  <2>1. /\ rows' = [f \in Folders |-> NoRow]
        /\ UNCHANGED minted /\ minted \in Nat
    BY <1>5, Bounds DEF clearAccount, Counted
  <2>2. NoRow.session = 0 /\ \A f \in Folders : rows'[f] = NoRow
    BY <2>1, RowFacts
  <2> QED BY <2>1, <2>2 DEF RowsTurn
<1>6. CASE Finished
  BY <1>6, FinishedTurns
<1> QED BY <1>1, <1>2, <1>3, <1>4, <1>5, <1>6 DEF RowStep

-----------------------------------------------------------------------------
(* Nothing is filed of a resource under a session it was not known by.       *)
SaysLess == \A t \in Targets, s \in Sessions : Says(t, s)' => Says(t, s)
StillUnmade ==
  \A t \in Targets :
    Unmade(t) /\ (contents'[t] # NotBound \/ contents[t] = NotBound) => Unmade(t)'
ContentsFall ==
  \A t \in Targets : t <= made /\ contents'[t] # NotBound => contents[t] # NotBound
HooksNamed == \A h \in hooks : h.at = "record" => h.session \in Sessions

FilesGoal == SaysLess /\ StillUnmade /\ ContentsFall /\ HooksNamed' /\ GoneRight'

LEMMA FilesStill ==
  ASSUME HooksNamed, GoneRight, UNCHANGED <<contents, queues, bindings, hooks>>
  PROVE  FilesGoal
PROOF
<1>1. \A t \in Targets, s \in Sessions : Says(t, s)' <=> Says(t, s)
  BY DEF Says
<1>2. \A t \in Targets : Unmade(t)' <=> Unmade(t)
  BY <1>1 DEF Unmade
<1>3. HooksNamed' /\ GoneRight'
  BY DEF HooksNamed, GoneRight
<1> QED BY <1>1, <1>2, <1>3 DEF FilesGoal, SaysLess, StillUnmade, ContentsFall

(* New events have no session yet.                                           *)
LEMMA EventsCalm ==
  ASSUME HooksNamed, UNCHANGED <<queues, bindings>>, NEW t \in Targets,
         \A h \in hooks' : h \in hooks \/ (h.at = "event" /\ h.target = t /\ h.session = 0),
         hooks' = hooks \/ bindings[t] # NoBinding
           \/ (contents'[t] = NotBound /\ contents[t] # NotBound)
  PROVE  SaysLess /\ StillUnmade /\ HooksNamed'
PROOF
<1>1. ASSUME NEW u \in Targets, NEW s \in Sessions, Says(u, s)' PROVE Says(u, s)
  BY <1>1, Bounds DEF Says
<1>2. ASSUME NEW u \in Targets, Unmade(u), contents'[u] # NotBound \/ contents[u] = NotBound
      PROVE  Unmade(u)'
  <2>1. \A h \in hooks' : h.target # u
    BY <1>2 DEF Unmade
  <2> QED BY <1>1, <1>2, <2>1 DEF Unmade
<1>3. HooksNamed'
  BY DEF HooksNamed
<1> QED BY <1>1, <1>2, <1>3 DEF SaysLess, StillUnmade

LEMMA DeleteFiles ==
  ASSUME Shaped, HooksNamed, GoneRight, NEW t \in Targets, Delete(t),
         UNCHANGED <<queues, bindings>>
  PROVE  FilesGoal
PROOF
<1>1. contents' = [contents EXCEPT ![t] = NotBound]
  BY DEF Delete
<1>2. /\ hooks' = hooks \/ contents[t] # NotBound
      /\ \A h \in hooks' : h \in hooks \/ (h.at = "event" /\ h.target = t /\ h.session = 0)
  <2>1. CASE contents[t] = NotBound
    BY <2>1 DEF Delete
  <2>2. CASE contents[t] # NotBound
    <3>1. hooks' = hooks \cup {[at |-> "event", target |-> t, item |-> i,
                                op |-> "deleted", session |-> 0] :
                                  i \in {j \in Items : contents[t][j] # "gone"}}
      BY <2>2 DEF Delete
    <3> QED BY <2>2, <3>1
  <2> QED BY <2>1, <2>2
<1>3. contents'[t] = NotBound /\ \A u \in Targets : u # t => contents'[u] = contents[u]
  BY <1>1 DEF Shaped
<1>4. SaysLess /\ StillUnmade /\ HooksNamed'
  BY <1>2, <1>3, EventsCalm
<1>5. GoneRight'
  <2>1. ASSUME NEW u \in Targets, NEW i \in Items, contents'[u] # NotBound,
               contents'[u][i] # "gone"
        PROVE  /\ \A h \in hooks' : ~(h.target = u /\ h.item = i /\ h.op = "deleted")
               /\ \A s \in Sessions : ~Struck(queues[s], u, i)
    <3>1. u # t /\ contents[u] # NotBound /\ contents[u][i] # "gone"
      BY <1>3, <2>1
    <3>2. /\ \A h \in hooks : ~(h.target = u /\ h.item = i /\ h.op = "deleted")
          /\ \A s \in Sessions : ~Struck(queues[s], u, i)
      BY <3>1 DEF GoneRight
    <3> QED BY <1>2, <3>1, <3>2
  <2> QED BY <2>1 DEF GoneRight
<1>6. ContentsFall
  BY <1>3 DEF ContentsFall
<1> QED BY <1>4, <1>5, <1>6 DEF FilesGoal

LEMMA EditFiles ==
  ASSUME Shaped, CopiesTyped, HooksNamed, GoneRight, NEW t \in Targets, NEW i \in Items,
         NEW v \in Versions, UserEdit(t, i, v)
  PROVE  FilesGoal
PROOF
<1>1. /\ contents[t] # NotBound /\ bindings[t] # NoBinding
      /\ contents[t][i] # "gone"
      /\ contents' = [contents EXCEPT ![t] = [contents[t] EXCEPT ![i] = v]]
      /\ UNCHANGED <<queues, bindings>>
  BY DEF UserEdit, Resources, Shaped
<1> DEFINE e == [at |-> "event", target |-> t, item |-> i, session |-> 0,
                 op |-> IF v = "gone" THEN "deleted" ELSE "updated"]
<1>2. hooks' = hooks \cup {e}
  BY DEF UserEdit
<1>3. /\ e.at = "event" /\ e.target = t /\ e.item = i /\ e.session = 0
      /\ e.op = "deleted" => v = "gone"
  OBVIOUS
<1> HIDE DEF e
<1>4. SaysLess /\ StillUnmade /\ HooksNamed'
  BY <1>1, <1>2, <1>3, EventsCalm
<1>5. contents[t] \in [Items -> Versions]
  BY <1>1 DEF CopiesTyped, Copies
<1>6. /\ contents'[t][i] = v /\ \A j \in Items : j # i => contents'[t][j] = contents[t][j]
      /\ \A u \in Targets : u # t => contents'[u] = contents[u]
  <2>1. PICK c : c = [contents[t] EXCEPT ![i] = v]
    OBVIOUS
  <2>2. contents'[t] = c /\ \A u \in Targets : u # t => contents'[u] = contents[u]
    BY <1>1, <2>1 DEF Shaped
  <2>3. c[i] = v /\ \A j \in Items : j # i => c[j] = contents[t][j]
    BY <1>5, <2>1
  <2> QED BY <2>2, <2>3
<1>7. ASSUME NEW u \in Targets, NEW j \in Items, contents'[u] # NotBound,
             contents'[u][j] # "gone"
      PROVE  /\ \A h \in hooks' : ~(h.target = u /\ h.item = j /\ h.op = "deleted")
             /\ \A s \in Sessions : ~Struck(queues[s], u, j)
  <2>1. contents[u] # NotBound /\ contents[u][j] # "gone"
    BY <1>1, <1>6, <1>7
  <2>2. /\ \A h \in hooks : ~(h.target = u /\ h.item = j /\ h.op = "deleted")
        /\ \A s \in Sessions : ~Struck(queues[s], u, j)
    BY <2>1 DEF GoneRight
  <2>3. ~(e.target = u /\ e.item = j /\ e.op = "deleted")
    BY <1>3, <1>6, <1>7
  <2> QED BY <1>2, <2>2, <2>3
<1>8. GoneRight'
  BY <1>1, <1>7 DEF GoneRight
<1>9. ContentsFall
  BY <1>1, <1>6 DEF ContentsFall
<1> QED BY <1>4, <1>8, <1>9 DEF FilesGoal

LEMMA LookupFiles ==
  ASSUME Shaped, BindingsTyped, Known, GoneRight, NEW h \in hooks, lookupBinding(h)
  PROVE  FilesGoal
PROOF
<1> DEFINE g == [h EXCEPT !.at = "record", !.session = bindings[h.target].session]
<1>1. /\ hooks' \subseteq hooks \cup {g}
      /\ g \in hooks' => g \in hooks \/ bindings[h.target] # NoBinding
      /\ UNCHANGED <<contents, queues, bindings>>
  BY DEF lookupBinding
<1>2. /\ g.at = "record" /\ g.target = h.target /\ g.item = h.item /\ g.op = h.op
      /\ g.session = bindings[h.target].session
  <2>1. PICK a, t, i, o, s :
          h = [at |-> a, target |-> t, item |-> i, op |-> o, session |-> s]
    BY DEF Shaped
  <2> QED BY <2>1
<1> HIDE DEF g
<1>3. h.target \in Targets
  BY DEF Shaped
<1>4. ASSUME NEW t \in Targets, NEW s \in Sessions, Says(t, s)' PROVE Says(t, s)
  BY <1>1, <1>2, <1>4 DEF Says
<1>5. \A t \in Targets : Unmade(t) => Unmade(t)'
  <2>1. \A t \in Targets : Unmade(t) => \A k \in hooks' : k.target # t
    BY <1>1, <1>2 DEF Unmade
  <2> QED BY <1>1, <1>4, <2>1 DEF Unmade
<1>6. HooksNamed'
  <2>1. ASSUME bindings[h.target] # NoBinding PROVE g.session \in Sessions
    <3>1. bindings[h.target].session # 0
      BY <1>3, <2>1 DEF Known
    <3>2. bindings[h.target].session \in 0..MaxSessions
      BY <1>3 DEF BindingsTyped, Links
    <3> QED BY <1>2, <3>1, <3>2, Bounds
  <2> QED BY <1>1, <2>1 DEF Known, HooksNamed
<1>7. GoneRight'
  BY <1>1, <1>2 DEF GoneRight
<1> QED BY <1>1, <1>4, <1>5, <1>6, <1>7
        DEF FilesGoal, SaysLess, StillUnmade, ContentsFall

(* What record does to the queue of the event's session.                     *)
LEMMA RecordQueue ==
  ASSUME Shaped, QueuesTyped, EventsTyped, HooksNamed, NEW h \in hooks, record(h)
  PROVE  /\ h.target \in Targets /\ h.item \in Items /\ h.session \in Sessions
         /\ hooks' = hooks \ {h} /\ UNCHANGED <<contents, bindings>>
         /\ \A s \in Sessions : s # h.session => queues'[s] = queues[s]
         /\ \A t, i : Holds(queues'[h.session], t, i) <=>
              Holds(queues[h.session], t, i) \/ (t = h.target /\ i = h.item)
         /\ \A t, i : Struck(queues'[h.session], t, i) =>
              Struck(queues[h.session], t, i)
                \/ (t = h.target /\ i = h.item /\ h.op = "deleted")
PROOF
<1>1. /\ h.target \in Targets /\ h.item \in Items /\ h.session \in Sessions
      /\ h.op \in {"updated", "deleted"}
  BY DEF Shaped, EventsTyped, HooksNamed, record
<1>2. PICK q : q = applyEvent(queues[h.session], Id(h.target, h.item), h.item, h.op)
  OBVIOUS
<1>3. /\ queues' = [queues EXCEPT ![h.session] = q]
      /\ hooks' = hooks \ {h} /\ UNCHANGED <<contents, bindings>>
  BY <1>2 DEF record
<1>4. queues'[h.session] = q /\ \A s \in Sessions : s # h.session => queues'[s] = queues[s]
  BY <1>1, <1>3 DEF Shaped
<1>5. queues[h.session] \in Seq(Queued)
  BY <1>1 DEF QueuesTyped
<1>6. /\ \A t, i : Holds(q, t, i) <=>
           Holds(queues[h.session], t, i) \/ (t = h.target /\ i = h.item)
      /\ \A r \in Range(q) : \/ r \in Range(queues[h.session])
                             \/ /\ r.parent = h.target /\ r.item = h.item
                                /\ r.status = "deleted_by_user" => h.op = "deleted"
  BY <1>1, <1>2, <1>5, EventFacts
<1>7. \A t, i : Struck(q, t, i) =>
        Struck(queues[h.session], t, i) \/ (t = h.target /\ i = h.item /\ h.op = "deleted")
  BY <1>6 DEF Struck
<1> QED BY <1>1, <1>3, <1>4, <1>6, <1>7

LEMMA RecordFiles ==
  ASSUME Shaped, QueuesTyped, EventsTyped, HooksNamed, GoneRight, NEW h \in hooks, record(h)
  PROVE  FilesGoal
PROOF
<1>0. /\ h.target \in Targets /\ h.item \in Items /\ h.session \in Sessions
      /\ hooks' = hooks \ {h} /\ UNCHANGED <<contents, bindings>>
      /\ \A s \in Sessions : s # h.session => queues'[s] = queues[s]
      /\ \A t, i : Holds(queues'[h.session], t, i) =>
           Holds(queues[h.session], t, i) \/ (t = h.target /\ i = h.item)
      /\ \A t, i : Struck(queues'[h.session], t, i) =>
           Struck(queues[h.session], t, i) \/ (t = h.target /\ i = h.item /\ h.op = "deleted")
  BY RecordQueue
<1>1. ASSUME NEW t \in Targets, NEW s \in Sessions, Says(t, s)' PROVE Says(t, s)
  <2>1. CASE bindings'[t].session = s
    BY <1>0, <2>1 DEF Says
  <2>2. CASE \E k \in hooks' : k.target = t /\ k.session = s
    BY <1>0, <2>2 DEF Says
  <2>3. ASSUME NEW i \in Items, Holds(queues'[s], t, i) PROVE Says(t, s)
    <3>1. CASE s # h.session
      BY <1>0, <2>3, <3>1 DEF Says
    <3>2. CASE s = h.session
      BY <1>0, <2>3, <3>2 DEF Says
    <3> QED BY <3>1, <3>2
  <2> QED BY <1>1, <2>1, <2>2, <2>3 DEF Says
<1>2. \A t \in Targets : Unmade(t) => Unmade(t)'
  BY <1>0, <1>1 DEF Unmade
<1>3. ASSUME NEW t \in Targets, NEW i \in Items, contents[t] # NotBound, contents[t][i] # "gone"
      PROVE  /\ \A k \in hooks' : ~(k.target = t /\ k.item = i /\ k.op = "deleted")
             /\ \A s \in Sessions : ~Struck(queues'[s], t, i)
  <2>1. /\ \A k \in hooks : ~(k.target = t /\ k.item = i /\ k.op = "deleted")
        /\ \A s \in Sessions : ~Struck(queues[s], t, i)
    BY <1>3 DEF GoneRight
  <2>2. ASSUME NEW s \in Sessions PROVE ~Struck(queues'[s], t, i)
    <3>1. CASE s # h.session
      BY <1>0, <2>1, <3>1
    <3>2. CASE s = h.session
      BY <1>0, <2>1, <3>2
    <3> QED BY <3>1, <3>2
  <2> QED BY <1>0, <2>1, <2>2
<1>4. GoneRight' /\ HooksNamed'
  BY <1>0, <1>3 DEF GoneRight, HooksNamed
<1> QED BY <1>0, <1>1, <1>2, <1>4 DEF FilesGoal, SaysLess, StillUnmade, ContentsFall

LEMMA HostFiles ==
  ASSUME Shaped, Typed, Known, GoneRight, HostStep
  PROVE  FilesGoal /\ UNCHANGED <<bindings, server>>
PROOF
<1>0. /\ CopiesTyped /\ QueuesTyped /\ BindingsTyped /\ EventsTyped
      /\ HooksNamed
  BY DEF Typed, Known, HooksNamed
<1>1. ASSUME NEW listed \in SUBSET Folders, PushFolderList(listed)
      PROVE  FilesGoal /\ UNCHANGED <<bindings, server>>
  BY <1>0, <1>1, FilesStill DEF PushFolderList
<1>2. ASSUME NEW t \in Targets, DeleteDoomed(t) \/ UserDeletes(t) \/ deleteTargetsBestEffort(t)
      PROVE  FilesGoal /\ UNCHANGED <<bindings, server>>
  <2>1. Delete(t) /\ UNCHANGED <<queues, bindings, server>>
    BY <1>2 DEF DeleteDoomed, UserDeletes, deleteTargetsBestEffort
  <2> QED BY <1>0, <2>1, DeleteFiles
<1>3. ASSUME NEW r \in reports, LoseReport(r)
      PROVE  FilesGoal /\ UNCHANGED <<bindings, server>>
  BY <1>0, <1>3, FilesStill DEF LoseReport
<1>4. ASSUME NEW t \in Targets, NEW i \in Items, NEW v \in Versions, UserEdit(t, i, v)
      PROVE  FilesGoal /\ UNCHANGED <<bindings, server>>
  <2>1. UNCHANGED <<bindings, server>>
    BY <1>4 DEF UserEdit
  <2> QED BY <1>0, <1>4, <2>1, EditFiles
<1>5. ASSUME NEW h \in hooks, lookupBinding(h)
      PROVE  FilesGoal /\ UNCHANGED <<bindings, server>>
  <2>1. UNCHANGED <<bindings, server>>
    BY <1>5 DEF lookupBinding
  <2> QED BY <1>0, <1>5, <2>1, LookupFiles
<1>6. ASSUME NEW h \in hooks, record(h)
      PROVE  FilesGoal /\ UNCHANGED <<bindings, server>>
  <2>1. UNCHANGED <<bindings, server>>
    BY <1>6 DEF record
  <2> QED BY <1>0, <1>6, <2>1, RecordFiles
<1>7. ASSUME NEW f \in Folders, NEW selected \in BOOLEAN, selectFolder(f, selected)
      PROVE  FilesGoal /\ UNCHANGED <<bindings, server>>
  BY <1>0, <1>7, FilesStill DEF selectFolder
<1>8. ASSUME NEW op \in {"disconnect", "remove"}, Teardown(op)
      PROVE  FilesGoal /\ UNCHANGED <<bindings, server>>
  BY <1>0, <1>8, FilesStill DEF Teardown
<1>9. ASSUME Connect PROVE FilesGoal /\ UNCHANGED <<bindings, server>>
  BY <1>0, <1>9, FilesStill DEF Connect
<1> QED BY <1>1, <1>2, <1>3, <1>4, <1>5, <1>6, <1>7, <1>8, <1>9 DEF HostStep

-----------------------------------------------------------------------------
(* What such steps preserve.                                                 *)

LEMMA LiveWas ==
  ASSUME Counted, Marked, RowsTurn, ContentsFall, NEW f \in Folders, Live(f)'
  PROVE  /\ Live(f) /\ KeepsRow(f) /\ rows'[f].target = rows[f].target
         /\ rows[f].target \in Targets
PROOF
<1>1. rows'[f].target # NoTarget /\ contents'[rows'[f].target] # NotBound
  BY DEF Live
<1>2. rows'[f] # NoRow
  BY <1>1, RowFacts
<1>3. rows'[f].target = rows[f].target
  BY <1>1, <1>2 DEF RowsTurn, KeepsRow, RenewsRow
<1>4. rows[f].target \in Targets /\ rows[f].target <= made
  BY <1>1, <1>3, TargetFacts DEF Marked
<1>5. Live(f)
  BY <1>1, <1>3, <1>4 DEF ContentsFall, Live
<1> QED BY <1>1, <1>2, <1>3, <1>4, <1>5 DEF RowsTurn, RenewsRow

LEMMA ApartKept ==
  ASSUME Counted, Filed, Apart, RowsTurn
  PROVE  Apart'
PROOF
<1>1. ASSUME NEW f \in Folders, rows'[f].target # NoTarget
      PROVE  rows'[f].target = rows[f].target
  <2>1. rows'[f] # NoRow
    BY <1>1, RowFacts
  <2> QED BY <1>1, <2>1 DEF RowsTurn, KeepsRow, RenewsRow
<1>2. ASSUME NEW f \in Folders, NEW g \in Folders, rows'[f] # NoRow,
             rows'[f].session = rows'[g].session
      PROVE  f = g
  <2>0. /\ minted \in Nat /\ rows[f].session <= minted /\ rows[g].session <= minted
        /\ rows[f] # NoRow => rows[f].session \in Sessions
    BY TargetFacts, Bounds DEF Filed, Counted
  <2>1. CASE rows'[f].session > minted
    BY <1>2, <2>1 DEF RowsTurn
  <2>2. CASE ~(rows'[f].session > minted)
    <3>1. KeepsRow(f)
      BY <1>2, <2>0, <2>2 DEF RowsTurn, RenewsRow
    <3>2. rows[f] # NoRow /\ rows'[f].session = rows[f].session
      BY <3>1 DEF KeepsRow
    <3>3. rows'[g] # NoRow
      <4>1. NoRow.session = 0 /\ 0 \notin Sessions
        BY RowFacts, Bounds
      <4> QED BY <1>2, <2>0, <3>2, <4>1
    <3>4. KeepsRow(g)
      BY <1>2, <2>0, <2>2, <3>3 DEF RowsTurn, RenewsRow
    <3> QED BY <1>2, <3>2, <3>4 DEF KeepsRow, Apart
  <2> QED BY <2>1, <2>2
<1> QED BY <1>1, <1>2 DEF Apart

LEMMA OwnKept ==
  ASSUME Counted, Filed, Marked, OwnSession, OwnTarget, RowsTurn, SaysLess, ContentsFall,
         minted' \in minted..MaxSessions
  PROVE  OwnSession' /\ OwnTarget'
PROOF
<1>1. ASSUME NEW f \in Folders, Live(f)', NEW t \in Targets, t = rows'[f].target,
             NEW s \in Sessions, Says(t, s)'
      PROVE  s = rows'[f].session
  <2>1. Live(f) /\ KeepsRow(f) /\ t = rows[f].target
    BY <1>1, LiveWas
  <2>2. Says(t, s)
    BY <1>1 DEF SaysLess
  <2> QED BY <2>1, <2>2 DEF OwnSession, KeepsRow
<1>2. ASSUME NEW f \in Folders, rows'[f] # NoRow, ~Deselecting(f)', NEW t \in Targets,
             NEW s, s = rows'[f].session, Says(t, s)'
      PROVE  t = rows'[f].target
  <2>0. minted \in Nat /\ MaxSessions \in Nat /\ NoTarget \notin Targets
    BY Bounds DEF Counted
  <2>1. CASE RenewsRow(f)
    <3>1. s \in Sessions /\ ~(s <= minted)
      BY <1>2, <2>0, <2>1, Bounds DEF RenewsRow
    <3>2. Says(t, s)
      BY <1>2, <3>1 DEF SaysLess
    <3> QED BY <3>1, <3>2, SaysMinted
  <2>2. CASE KeepsRow(f)
    <3>1. /\ rows[f] # NoRow /\ s = rows[f].session
          /\ s \in Sessions /\ rows'[f].target = rows[f].target
      BY <1>2, <2>2, TargetFacts DEF KeepsRow
    <3>2. Says(t, s)
      BY <1>2, <3>1 DEF SaysLess
    <3>3. ~Deselecting(f)
      <4>1. s <= minted /\ s \in Nat
        BY <3>1, Bounds DEF Filed
      <4> QED BY <1>2, <2>0, <4>1 DEF RowsTurn
    <3> QED BY <3>1, <3>2, <3>3 DEF OwnTarget
  <2> QED BY <1>2, <2>1, <2>2 DEF RowsTurn
<1>3. OwnSession'
  <2>1. ASSUME NEW f \in Folders, Live(f)' PROVE rows'[f].target \in Targets
    BY <2>1, LiveWas
  <2> QED BY <1>1, <2>1 DEF OwnSession
<1>4. OwnTarget'
  BY <1>2 DEF OwnTarget
<1> QED BY <1>3, <1>4

LEMMA KnownKept ==
  ASSUME Counted, Marked, Known, RowsTurn, FilesGoal, UNCHANGED bindings,
         made' \in made..MaxTargets
  PROVE  Known'
PROOF
<1>1. ASSUME NEW f \in Folders, rows'[f].target # NoTarget
      PROVE  bindings[rows'[f].target].session # 0
  <2>1. rows'[f] # NoRow
    BY <1>1, RowFacts
  <2>2. rows'[f].target = rows[f].target
    BY <1>1, <2>1 DEF RowsTurn, KeepsRow, RenewsRow
  <2> QED BY <1>1, <2>2 DEF Known
<1>2. ASSUME NEW t \in Targets, t > made' PROVE Unmade(t)'
  <2>1. t > made /\ ~(t <= made)
    BY <1>2, Bounds DEF Counted
  <2>2. contents[t] = NotBound /\ Unmade(t)
    BY <2>1 DEF Marked, Known
  <2> QED BY <2>2 DEF FilesGoal, StillUnmade
<1>3. HooksNamed'
  BY DEF FilesGoal
<1> QED BY <1>1, <1>2, <1>3 DEF Known, HooksNamed

LEMMA FiledWellKept ==
  ASSUME Counted, Filed, Marked, FiledWell, RowsTurn, FilesGoal, UNCHANGED bindings,
         minted' \in minted..MaxSessions, made' \in made..MaxTargets
  PROVE  FiledWell'
PROOF
<1>1. Apart'
  BY ApartKept DEF FiledWell
<1>2. OwnSession' /\ OwnTarget'
  BY OwnKept DEF FiledWell, FilesGoal
<1>3. Known'
  BY KnownKept DEF FiledWell
<1>4. GoneRight'
  BY DEF FilesGoal
<1> QED BY <1>1, <1>2, <1>3, <1>4 DEF FiledWell

LEMMA SeenKept ==
  ASSUME Counted, Filed, Marked, SeenRight, RowsTurn, ContentsFall, UNCHANGED <<sync, made>>
  PROVE  SeenRight'
PROOF
<1> SUFFICES ASSUME sync.at = "remember", NEW f \in Folders, NEW g \in Folders
             PROVE  /\ Live(f)' /\ sync.seen[g].target = rows'[f].target
                         => sync.seen[g].session = rows'[f].session
                    /\ rows'[f] # NoRow /\ sync.seen[g].session = rows'[f].session
                         /\ sync.seen[g].target # NoTarget
                         => sync.seen[g].target = rows'[f].target \/ Deselecting(f)'
                    /\ sync.seen[g].target <= made
  BY DEF SeenRight
<1>0. /\ Live(f) /\ sync.seen[g].target = rows[f].target
           => sync.seen[g].session = rows[f].session
      /\ rows[f] # NoRow /\ sync.seen[g].session = rows[f].session
           /\ sync.seen[g].target # NoTarget
           => sync.seen[g].target = rows[f].target \/ Deselecting(f)
      /\ sync.seen[g].target <= made
  BY DEF SeenRight
<1>1. Live(f)' /\ sync.seen[g].target = rows'[f].target
        => sync.seen[g].session = rows'[f].session
  BY <1>0, LiveWas DEF KeepsRow
<1>2. ASSUME rows'[f] # NoRow, sync.seen[g].session = rows'[f].session,
             sync.seen[g].target # NoTarget, ~Deselecting(f)'
      PROVE  sync.seen[g].target = rows'[f].target
  <2>1. /\ minted \in Nat /\ sync.seen[g].session <= minted /\ rows[f].session <= minted
        /\ rows[f] # NoRow => rows[f].session \in Nat
    BY TargetFacts, Bounds DEF Filed, Counted
  <2>2. KeepsRow(f)
    BY <1>2, <2>1 DEF RowsTurn, RenewsRow
  <2>3. /\ rows[f] # NoRow /\ rows'[f].session = rows[f].session
        /\ rows'[f].target = rows[f].target
    BY <1>2, <2>2 DEF KeepsRow
  <2>4. ~Deselecting(f)
    BY <1>2, <2>1, <2>3 DEF RowsTurn
  <2> QED BY <1>0, <1>2, <2>3, <2>4
<1> QED BY <1>0, <1>1, <1>2

-----------------------------------------------------------------------------
(* Steps of another than the sync leave the sync what it counts on.          *)

LEMMA LostKept ==
  ASSUME Counted, Held, Lost, ContentsFall, UNCHANGED sync
  PROVE  Lost'
PROOF
<1>1. sync.at # "idle" /\ sync.target # NoTarget
  BY DEF Lost, Early
<1>2. sync.target \in 1..made
  BY <1>1, Bounds DEF Held, Counted
<1>3. sync.target \in Targets /\ sync.target <= made
  BY <1>2, Bounds DEF Counted
<1> QED BY <1>3 DEF Lost, Early, ContentsFall

(* Where the row of the sync's folder stands once the resource is bound.     *)
LEMMA HeldRow ==
  ASSUME Held, Late
  PROVE  /\ rows[sync.folder] # NoRow /\ sync.seen[sync.folder] # NoRow
         /\ rows[sync.folder].session = sync.seen[sync.folder].session
         /\ rows[sync.folder].target = sync.target
PROOF
  BY DEF Held, Late, Lost, Early

LEMMA AloneKept ==
  ASSUME Counted, Held, Alone, ContentsFall, UNCHANGED sync,
         sync.at # "idle" /\ push'.at = "replace" => sync.folder \in push'.listed,
         sync.at # "idle" /\ mgr'.at # "idle" =>
           mgr'.op \in {"select", "deselect"} /\ mgr'.folder # sync.folder,
         \A r \in reports' : r \in reports \/ r.at # "clear"
  PROVE  Alone'
PROOF
  BY LostKept DEF Alone

LEMMA BoundKept ==
  ASSUME Counted, Held, BoundOk, StillUnmade, UNCHANGED <<rows, sync, server>>,
         Late \/ sync.at = "updateFolder" =>
           contents'[sync.target] # NotBound /\ sync.target \notin doomed' \cup mgr'.targets,
         sync.at = "updateFolder" => contents'[sync.target] = contents[sync.target],
         sync.at = "settle" =>
           contents'[sync.target][sync.item] = contents[sync.target][sync.item]
  PROVE  BoundOk'
PROOF
<1>1. sync.at = "updateFolder" => sync.target \in Targets
  BY Bounds DEF Counted
<1>2. sync.at = "updateFolder" => Unmade(sync.target)'
  <2>1. ASSUME NEW t \in Targets, t = sync.target, sync.at = "updateFolder"
        PROVE  Unmade(t)'
    BY <2>1 DEF BoundOk, StillUnmade
  <2> QED BY <1>1, <2>1 DEF Unmade, Says
<1> QED BY <1>2 DEF BoundOk, Late

WellGoal == Alone' /\ BoundOk' /\ Taken'

(* Nothing of all this changes.                                              *)
LEMMA WellStill ==
  ASSUME Counted, Held, Alone, BoundOk, Taken, FilesGoal,
         UNCHANGED <<rows, sync, server, made, mgr, push, doomed, contents>>,
         reports' \subseteq reports
  PROVE  WellGoal
PROOF
<1>1. Alone'
  BY AloneKept DEF FilesGoal, Alone
<1>2. BoundOk'
  BY BoundKept DEF FilesGoal, BoundOk
<1>3. Taken'
  BY DEF Taken, Named, Live
<1> QED BY <1>1, <1>2, <1>3 DEF WellGoal

LEMMA PushWell ==
  ASSUME ~Overlap, Counted, Held, Alone, BoundOk, Taken, FilesGoal,
         NEW listed \in SUBSET Folders, PushFolderList(listed)
  PROVE  WellGoal
PROOF
<1>1. /\ push' = [at |-> "replace", listed |-> listed]
      /\ \A f \in Folders \ listed : ~(sync.at # "idle" /\ sync.folder = f)
      /\ UNCHANGED <<rows, sync, server, made, mgr, doomed, contents, reports>>
  BY DEF PushFolderList, Quiet, InSync
<1>2. sync.at # "idle" => sync.folder \in listed
  BY <1>1 DEF Counted
<1>3. Alone'
  BY <1>1, <1>2, AloneKept DEF FilesGoal, Alone
<1>4. BoundOk'
  BY <1>1, BoundKept DEF FilesGoal, BoundOk
<1>5. Taken'
  BY <1>1 DEF Taken, Named, Live
<1> QED BY <1>3, <1>4, <1>5 DEF WellGoal

LEMMA DeleteWell ==
  ASSUME Counted, Shaped, Marked, Held, Alone, BoundOk, Taken, FilesGoal,
         NEW t \in Targets, Delete(t), UNCHANGED <<rows, sync, server, made, push>>,
         doomed' \subseteq doomed,
         mgr' = mgr \/ mgr' = [mgr EXCEPT !.targets = mgr.targets \ {t}],
         Late \/ sync.at = "updateFolder" => t # sync.target
  PROVE  WellGoal
PROOF
<1>1. contents'[t] = NotBound /\ \A u \in Targets : u # t => contents'[u] = contents[u]
  BY DEF Delete, Shaped
<1>2. \A r \in reports' : r \in reports \/ (r.at = "host" /\ r.target = t /\ t <= made)
  <2>1. CASE contents[t] = NotBound
    BY <2>1 DEF Delete
  <2>2. CASE contents[t] # NotBound
    <3>1. reports' = reports \cup
               IF bindings[t] = NoBinding THEN {}
               ELSE {[at |-> "host", target |-> t, folder |-> bindings[t].folder]}
      BY <2>2 DEF Delete
    <3>2. t <= made
      BY <2>2 DEF Marked
    <3> QED BY <3>1, <3>2
  <2> QED BY <2>1, <2>2
<1>3. /\ mgr'.at = mgr.at /\ mgr'.op = mgr.op /\ mgr'.folder = mgr.folder
      /\ mgr'.targets = mgr.targets \/ mgr'.targets = mgr.targets \ {t}
  <2>1. CASE mgr' = mgr
    BY <2>1
  <2>2. CASE mgr' = [mgr EXCEPT !.targets = mgr.targets \ {t}]
    <3>1. PICK T : T = mgr.targets \ {t}
      OBVIOUS
    <3>2. mgr' = [at |-> mgr.at, op |-> mgr.op, folder |-> mgr.folder, targets |-> T]
      BY <2>2, <3>1, MgrExcept
    <3>3. mgr'.at = mgr.at /\ mgr'.op = mgr.op /\ mgr'.folder = mgr.folder /\ mgr'.targets = T
      BY <3>2
    <3> QED BY <3>1, <3>3
  <2> QED BY <2>1, <2>2
<1>4. Alone'
  BY <1>2, <1>3, AloneKept DEF FilesGoal, Alone
<1>5. BoundOk'
  <2>1. Late \/ sync.at = "updateFolder" =>
          /\ sync.target \in Targets
          /\ contents'[sync.target] = contents[sync.target]
          /\ sync.target \notin doomed' \cup mgr'.targets
    <3>1. ASSUME Late \/ sync.at = "updateFolder" PROVE sync.target \in Targets
      <4>1. sync.at # "idle" /\ sync.target # 0
        BY <3>1, Bounds DEF BoundOk, Late
      <4> QED BY <4>1, Bounds DEF Held, Counted
    <3> QED BY <1>1, <1>3, <3>1 DEF BoundOk
  <2> QED BY <2>1, BoundKept DEF FilesGoal, BoundOk, Late
<1>6. Taken'
  <2>1. doomed' \cap Named(rows') = {}
    BY DEF Taken
  <2>2. ASSUME NEW r \in reports' PROVE r.target \in 1..made /\ contents'[r.target] = NotBound
    <3>1. CASE r \in reports
      <4>1. r.target \in 1..made /\ contents[r.target] = NotBound
        BY <3>1 DEF Taken
      <4>2. r.target \in Targets
        BY <4>1, Bounds DEF Counted
      <4> QED BY <1>1, <4>1, <4>2
    <3>2. CASE r.target = t /\ t <= made
      BY <1>1, <3>2, Bounds DEF Counted
    <3> QED BY <1>2, <3>1, <3>2
  <2>3. \A f \in Folders : Live(f)' => Live(f) /\ rows[f].target # t
    <3>1. ASSUME NEW f \in Folders, Live(f)' PROVE Live(f) /\ rows[f].target # t
      <4>1. rows[f].target \in Targets
        BY <3>1, TargetFacts DEF Live
      <4> QED BY <1>1, <3>1, <4>1 DEF Live
    <3> QED BY <3>1
  <2>4. Taken =>
          /\ mgr.at = "idle" => mgr'.targets = {}
          /\ mgr.op \in {"select", "deselect"} =>
               \A f \in Folders : f # mgr.folder => rows[f].target \notin mgr'.targets
          /\ mgr.op = "deselect" /\ mgr.at \in {"told", "delete"} =>
               (Live(mgr.folder)' => rows[mgr.folder].target \in mgr'.targets)
    <3>1. mgr.folder \in Folders
      BY DEF Shaped
    <3>2. Live(mgr.folder)' => Live(mgr.folder) /\ rows[mgr.folder].target # t
      BY <1>3, <2>3, <3>1
    <3> QED BY <1>3, <3>2 DEF Taken
  <2> QED BY <1>3, <2>1, <2>2, <2>4 DEF Taken, Live
<1> QED BY <1>4, <1>5, <1>6 DEF WellGoal

LEMMA NotEmpty ==
  ASSUME NEW c \in [Items -> Versions], NEW i \in Items
  PROVE  c # NotBound
PROOF
<1>1. DOMAIN c = Items /\ DOMAIN <<>> = {}
  OBVIOUS
<1> QED BY <1>1 DEF NotBound

LEMMA EditWell ==
  ASSUME Counted, Shaped, CopiesTyped, Held, Alone, BoundOk, Taken, FilesGoal,
         NEW t \in Targets, NEW i \in Items, NEW v \in Versions, UserEdit(t, i, v)
  PROVE  WellGoal
PROOF
<1>1. /\ contents[t] # NotBound /\ bindings[t] # NoBinding
      /\ ~(sync.at = "settle" /\ sync.target = t /\ sync.item = i)
      /\ UNCHANGED <<rows, sync, server, made, mgr, push, doomed, reports>>
  BY DEF UserEdit, Resources
<1>2. contents[t] \in [Items -> Versions]
  BY <1>1 DEF CopiesTyped, Copies
<1>3. PICK c : c = [contents[t] EXCEPT ![i] = v]
  OBVIOUS
<1>4. c \in [Items -> Versions] /\ \A j \in Items : j # i => c[j] = contents[t][j]
  BY <1>2, <1>3
<1>5. contents' = [contents EXCEPT ![t] = c]
  BY <1>3 DEF UserEdit, Shaped
<1>6. contents'[t] = c /\ \A u \in Targets : u # t => contents'[u] = contents[u]
  BY <1>5 DEF Shaped
<1>7. \A u \in Targets : contents'[u] = NotBound <=> contents[u] = NotBound
  BY <1>1, <1>4, <1>6, NotEmpty
<1>8. Alone'
  BY <1>1, AloneKept DEF FilesGoal, Alone
<1>9. BoundOk'
  <2>1. Late \/ sync.at = "updateFolder" => sync.target \in Targets
    <3>1. Late \/ sync.at = "updateFolder" => sync.at # "idle" /\ sync.target # 0
      BY Bounds DEF BoundOk, Late
    <3> QED BY <3>1, Bounds DEF Held, Counted
  <2>2. sync.at = "updateFolder" => sync.target # t
    BY <1>1 DEF BoundOk, Unmade
  <2>3. sync.at = "settle" =>
          contents'[sync.target][sync.item] = contents[sync.target][sync.item]
    <3>1. CASE sync.target # t
      BY <1>6, <2>1, <3>1 DEF Late
    <3>2. CASE sync.target = t /\ sync.item # i
      <4>1. sync.at = "settle" => sync.item \in Items
        BY DEF BoundOk
      <4> QED BY <1>4, <1>6, <3>2, <4>1
    <3> QED BY <1>1, <3>1, <3>2
  <2>4. sync.at = "updateFolder" => contents'[sync.target] = contents[sync.target]
    BY <1>6, <2>1, <2>2
  <2>5. Late \/ sync.at = "updateFolder" =>
          contents'[sync.target] # NotBound /\ sync.target \notin doomed' \cup mgr'.targets
    BY <1>1, <1>7, <2>1 DEF BoundOk
  <2> QED BY <1>1, <2>3, <2>4, <2>5, BoundKept DEF FilesGoal
<1>10. Taken'
  <2>1. \A r \in reports' : r.target \in 1..made /\ contents'[r.target] = NotBound
    <3>1. ASSUME NEW r \in reports' PROVE r.target \in 1..made /\ contents'[r.target] = NotBound
      <4>1. r.target \in 1..made /\ contents[r.target] = NotBound
        BY <1>1 DEF Taken
      <4>2. r.target \in Targets
        BY <4>1, Bounds DEF Counted
      <4> QED BY <1>7, <4>1, <4>2
    <3> QED BY <3>1
  <2>2. \A f \in Folders : Live(f)' => Live(f)
    <3>1. ASSUME NEW f \in Folders, Live(f)' PROVE Live(f)
      <4>1. rows[f].target \in Targets
        BY <1>1, <3>1, TargetFacts DEF Live
      <4> QED BY <1>1, <1>7, <3>1, <4>1 DEF Live
    <3> QED BY <3>1
  <2>3. Live(mgr.folder)' => Live(mgr.folder)
    BY <1>1, <2>2 DEF Shaped
  <2> QED BY <1>1, <2>1, <2>3 DEF Taken, Named
<1> QED BY <1>8, <1>9, <1>10 DEF WellGoal

LEMMA SelectWell ==
  ASSUME ~Overlap, Counted, Shaped, Apart, Held, Alone, BoundOk, Taken, FilesGoal,
         NEW f \in Folders, NEW selected \in BOOLEAN, selectFolder(f, selected)
  PROVE  WellGoal
PROOF
<1>1. /\ sync.at # "idle" => sync.folder # f
      /\ rows[f] # NoRow
      /\ UNCHANGED <<rows, sync, server, made, push, doomed, reports, contents>>
  BY DEF selectFolder, Quiet, InSync
<1>2. PICK op \in {"select", "deselect"} :
        mgr' = [at |-> "told", op |-> op, folder |-> f, targets |-> {rows[f].target} \ {NoTarget}]
  BY DEF selectFolder, Ask
<1>3. /\ mgr'.at = "told" /\ mgr'.op = op /\ mgr'.folder = f
      /\ mgr'.targets = {rows[f].target} \ {NoTarget}
  BY <1>2
<1>4. Alone'
  BY <1>1, <1>3, AloneKept DEF FilesGoal, Alone
<1>5. BoundOk'
  <2>1. ASSUME Late \/ sync.at = "updateFolder" PROVE sync.target \notin mgr'.targets
    <3>1. CASE Late
      <4>1. rows[sync.folder].target = sync.target /\ sync.folder # f /\ sync.folder \in Folders
        BY <1>1, <3>1, HeldRow DEF Late, Counted
      <4> QED BY <1>3, <4>1 DEF Apart
    <3>2. CASE sync.at = "updateFolder"
      BY <1>3, <3>2 DEF BoundOk
    <3> QED BY <2>1, <3>1, <3>2
  <2>2. Late \/ sync.at = "updateFolder" =>
           contents'[sync.target] # NotBound /\ sync.target \notin doomed' \cup mgr'.targets
    BY <1>1, <2>1 DEF BoundOk
  <2> QED BY <1>1, <2>2, BoundKept DEF FilesGoal
<1>6. Taken'
  <2>1. doomed' \cap Named(rows') = {}
        /\ \A r \in reports' : r.target \in 1..made' /\ contents'[r.target] = NotBound
    BY <1>1 DEF Taken
  <2>2. \A g \in Folders : g # mgr'.folder => rows'[g].target \notin mgr'.targets
    BY <1>1, <1>3 DEF Apart
  <2>3. rows'[f].target # NoTarget => rows'[f].target \in mgr'.targets
    BY <1>1, <1>3
  <2> QED BY <1>3, <2>1, <2>2, <2>3 DEF Taken, Live
<1> QED BY <1>4, <1>5, <1>6 DEF WellGoal

LEMMA TeardownWell ==
  ASSUME ~Overlap, Counted, Taken, NEW op \in {"disconnect", "remove"}, Teardown(op)
  PROVE  WellGoal
PROOF
<1>1. /\ \A f \in Folders : ~(sync.at # "idle" /\ sync.folder = f)
      /\ UNCHANGED <<rows, sync, doomed, reports, contents, made>>
      /\ mgr' = [at |-> "told", op |-> op, folder |-> NoBinding.folder, targets |-> Named(rows)]
  BY DEF Teardown, Quiet, InSync, Ask
<1>2. sync'.at = "idle" /\ mgr'.at = "told" /\ mgr'.op = op
  BY <1>1 DEF Counted
<1>3. Alone' /\ BoundOk'
  BY <1>2 DEF Alone, BoundOk, Late
<1>4. Taken'
  <2>1. doomed' \cap Named(rows') = {}
        /\ \A r \in reports' : r.target \in 1..made' /\ contents'[r.target] = NotBound
    BY <1>1 DEF Taken
  <2> QED BY <1>2, <2>1 DEF Taken
<1> QED BY <1>3, <1>4 DEF WellGoal

LEMMA HostWell ==
  ASSUME ~Overlap, IInv, Typed, Bound, FilesGoal, HostStep
  PROVE  WellGoal
PROOF
<1>0. /\ Counted /\ Shaped /\ Marked /\ CopiesTyped
      /\ Apart /\ Held /\ Alone /\ BoundOk /\ Taken
  BY DEF IInv, Typed, Bound, FiledWell, SyncWell
<1>1. ASSUME NEW listed \in SUBSET Folders, PushFolderList(listed) PROVE WellGoal
  BY <1>0, <1>1, PushWell
<1>2. ASSUME NEW t \in Targets, DeleteDoomed(t) PROVE WellGoal
  <2>1. /\ Delete(t) /\ UNCHANGED <<rows, sync, server, made, push>>
        /\ doomed' \subseteq doomed /\ mgr' = mgr /\ t \in doomed
    BY <1>2 DEF DeleteDoomed
  <2>2. Late \/ sync.at = "updateFolder" => t # sync.target
    BY <1>0, <2>1 DEF BoundOk
  <2> QED BY <1>0, <2>1, <2>2, DeleteWell
<1>3. ASSUME NEW t \in Targets, UserDeletes(t) PROVE WellGoal
  <2>1. /\ Delete(t) /\ UNCHANGED <<rows, sync, server, made, push>>
        /\ doomed' \subseteq doomed /\ mgr' = mgr
        /\ \A f \in Folders : sync.at # "idle" /\ sync.folder = f => sync.target # t
    BY <1>3 DEF UserDeletes, InSync
  <2>2. Late \/ sync.at = "updateFolder" => t # sync.target
    BY <1>0, <2>1 DEF Counted, Late
  <2> QED BY <1>0, <2>1, <2>2, DeleteWell
<1>4. ASSUME NEW t \in Targets, deleteTargetsBestEffort(t) PROVE WellGoal
  <2>1. /\ Delete(t) /\ UNCHANGED <<rows, sync, server, made, push>>
        /\ doomed' \subseteq doomed /\ mgr' = [mgr EXCEPT !.targets = mgr.targets \ {t}]
        /\ t \in mgr.targets
    BY <1>0, <1>4 DEF deleteTargetsBestEffort, Shaped
  <2>2. Late \/ sync.at = "updateFolder" => t # sync.target
    BY <1>0, <2>1 DEF BoundOk
  <2> QED BY <1>0, <2>1, <2>2, DeleteWell
<1>5. ASSUME NEW r \in reports, LoseReport(r) PROVE WellGoal
  <2>1. /\ UNCHANGED <<rows, sync, server, made, mgr, push, doomed, contents>>
        /\ reports' \subseteq reports
    BY <1>5 DEF LoseReport
  <2> QED BY <1>0, <2>1, WellStill
<1>6. ASSUME NEW t \in Targets, NEW i \in Items, NEW v \in Versions, UserEdit(t, i, v)
      PROVE  WellGoal
  BY <1>0, <1>6, EditWell
<1>7. ASSUME NEW h \in hooks, lookupBinding(h) \/ record(h) PROVE WellGoal
  <2>1. /\ UNCHANGED <<rows, sync, server, made, mgr, push, doomed, contents>>
        /\ reports' \subseteq reports
    BY <1>7 DEF lookupBinding, record
  <2> QED BY <1>0, <2>1, WellStill
<1>8. ASSUME NEW f \in Folders, NEW selected \in BOOLEAN, selectFolder(f, selected)
      PROVE  WellGoal
  BY <1>0, <1>8, SelectWell
<1>9. ASSUME NEW op \in {"disconnect", "remove"}, Teardown(op) PROVE WellGoal
  BY <1>0, <1>9, TeardownWell
<1>10. ASSUME Connect PROVE WellGoal
  <2>1. /\ UNCHANGED <<rows, sync, server, made, mgr, push, doomed, contents>>
        /\ reports' \subseteq reports
    BY <1>10 DEF Connect
  <2> QED BY <1>0, <2>1, WellStill
<1> QED BY <1>1, <1>2, <1>3, <1>4, <1>5, <1>6, <1>7, <1>8, <1>9, <1>10 DEF HostStep

LEMMA HeldStill ==
  ASSUME Counted, Held, ContentsFall, UNCHANGED <<rows, sync, made>>
  PROVE  Held'
PROOF
  BY LostKept DEF Held, Early, Late

LEMMA HostTurns ==
  ASSUME Counted, Shaped, Filed, HostStep
  PROVE  RowsTurn
PROOF
<1>1. UNCHANGED <<rows, minted, made, sync>>
  BY HostStepRows
<1>2. \A f \in Folders : Deselecting(f) => Deselecting(f)'
  <2>1. CASE UNCHANGED mgr
    BY <2>1 DEF Deselecting
  <2>2. ASSUME NEW t \in Targets, deleteTargetsBestEffort(t)
        PROVE  \A f \in Folders : Deselecting(f) => Deselecting(f)'
    <3>1. PICK T : T = mgr.targets \ {t}
      OBVIOUS
    <3>2. mgr' = [mgr EXCEPT !.targets = T]
      BY <2>2, <3>1 DEF deleteTargetsBestEffort, Shaped
    <3>3. mgr' = [at |-> mgr.at, op |-> mgr.op, folder |-> mgr.folder, targets |-> T]
      BY <3>2, MgrExcept
    <3> QED BY <3>3 DEF Deselecting
  <2>3. CASE mgr.at = "idle"
    BY <2>3 DEF Deselecting
  <2>4. \/ UNCHANGED mgr \/ mgr.at = "idle"
        \/ \E t \in Targets : deleteTargetsBestEffort(t)
    BY DEF HostStep, PushFolderList, DeleteDoomed, UserDeletes, LoseReport, UserEdit,
           lookupBinding, record, selectFolder, Teardown, Connect
  <2> QED BY <2>1, <2>2, <2>3, <2>4
<1> QED BY <1>1, <1>2, SameTurn

LEMMA HostBound ==
  ASSUME ~Overlap, IInv, Typed, Bound, HostStep
  PROVE  Bound' /\ FilesGoal /\ UNCHANGED <<rows, bindings, server>>
PROOF
<1>0. /\ Counted /\ Shaped /\ Filed /\ Marked /\ Known /\ GoneRight /\ FiledWell
      /\ SeenRight /\ Held
  BY DEF IInv, Bound, FiledWell, SyncWell
<1>1. FilesGoal /\ UNCHANGED <<bindings, server>>
  BY <1>0, HostFiles
<1>2. UNCHANGED <<rows, minted, made, sync>>
  BY HostStepRows
<1>3. RowsTurn
  BY <1>0, HostTurns
<1>5. FiledWell'
  <2>1. minted' \in minted..MaxSessions /\ made' \in made..MaxTargets
    BY <1>0, <1>2, Bounds DEF Counted
  <2> QED BY <1>0, <1>1, <1>3, <2>1, FiledWellKept
<1>6. SeenRight'
  BY <1>0, <1>1, <1>2, <1>3, SeenKept DEF FilesGoal
<1>7. Held'
  BY <1>0, <1>1, <1>2, HeldStill DEF FilesGoal
<1>8. Alone' /\ BoundOk' /\ Taken'
  BY <1>1, HostWell DEF WellGoal
<1> QED BY <1>1, <1>2, <1>5, <1>6, <1>7, <1>8 DEF Bound, SyncWell

-----------------------------------------------------------------------------
(* Steps that write the rows: the manager's, the folder list's, the reports'. *)

LEMMA RowStepServer == RowStep => UNCHANGED server
PROOF
<1>1. ReplaceFolders => UNCHANGED server
  BY DEF ReplaceFolders
<1>2. ASSUME NEW r \in reports, Report(r) PROVE UNCHANGED server
  BY <1>2 DEF Report
<1>3. ASSUME NEW f \in Folders, setFolderDownloadOnly(f) PROVE UNCHANGED server
  BY <1>3 DEF setFolderDownloadOnly
<1>4. Told => UNCHANGED server
  BY DEF Told
<1>5. clearAccount => UNCHANGED server
  BY DEF clearAccount
<1>6. Finished => UNCHANGED server
  BY DEF Finished
<1> QED BY <1>1, <1>2, <1>3, <1>4, <1>5, <1>6 DEF RowStep

(* What becomes of the manager's operation.                                  *)
MgrTurn ==
  \/ UNCHANGED mgr
  \/ mgr' = IdleMgr
  \/ /\ mgr.at = "told" /\ mgr.op = "select"
     /\ mgr' = [mgr EXCEPT !.at = "update"]
  \/ /\ mgr.at = "told" /\ mgr.op = "deselect"
     /\ mgr' = [mgr EXCEPT !.at = "delete"]
  \/ /\ mgr.at = "told" /\ mgr.op \in {"disconnect", "remove"}
     /\ mgr' = [mgr EXCEPT !.at = "clear"]
  \/ /\ mgr.at = "clear"
     /\ mgr' = [mgr EXCEPT !.at = "delete"]

LEMMA RowStepMgr == RowStep => MgrTurn
PROOF
<1>1. ReplaceFolders => MgrTurn
  BY DEF ReplaceFolders, MgrTurn
<1>2. ASSUME NEW r \in reports, Report(r) PROVE MgrTurn
  BY <1>2 DEF Report, MgrTurn
<1>3. ASSUME NEW f \in Folders, setFolderDownloadOnly(f) PROVE MgrTurn
  BY <1>3 DEF setFolderDownloadOnly, MgrTurn
<1>4. Told => MgrTurn
  BY DEF Told, MgrTurn
<1>5. clearAccount => MgrTurn
  BY DEF clearAccount, MgrTurn
<1>6. Finished => MgrTurn
  BY DEF Finished, MgrTurn
<1> QED BY <1>1, <1>2, <1>3, <1>4, <1>5, <1>6 DEF RowStep

LEMMA MgrTurns ==
  ASSUME Shaped, MgrTurn
  PROVE  \/ UNCHANGED mgr
         \/ mgr'.at = "idle" /\ mgr'.op = "none" /\ mgr'.targets = {}
         \/ /\ mgr.at \in {"told", "clear"} /\ mgr'.op = mgr.op
            /\ mgr'.folder = mgr.folder /\ mgr'.targets = mgr.targets
            /\ \/ mgr'.at = "update" /\ mgr.at = "told" /\ mgr.op = "select"
               \/ mgr'.at = "delete" /\ mgr.at = "told" /\ mgr.op = "deselect"
               \/ mgr'.at = "clear" /\ mgr.op \in {"disconnect", "remove"}
               \/ mgr'.at = "delete" /\ mgr.at = "clear"
PROOF
<1>1. CASE UNCHANGED mgr
  BY <1>1
<1>2. CASE mgr' = IdleMgr
  BY <1>2 DEF IdleMgr
<1>3. ASSUME NEW b, mgr' = [mgr EXCEPT !.at = b]
      PROVE  /\ mgr'.at = b /\ mgr'.op = mgr.op /\ mgr'.folder = mgr.folder
             /\ mgr'.targets = mgr.targets
  <2>1. mgr' = [at |-> b, op |-> mgr.op, folder |-> mgr.folder, targets |-> mgr.targets]
    BY <1>3, MgrExcept
  <2> QED BY <2>1
<1> QED BY <1>1, <1>2, <1>3 DEF MgrTurn

(* The sync's row is left alone, unless the sync has lost its resource.      *)
SameRow(f) ==
  /\ rows'[f] # NoRow /\ rows'[f].session = rows[f].session
  /\ rows'[f].target = rows[f].target

LEMMA FlagSame ==
  ASSUME Counted, NEW f \in Folders, NEW g \in Folders, rows[f] # NoRow, rows[g] # NoRow,
         NEW b \in BOOLEAN,
         \/ rows' = [rows EXCEPT ![g].selected = b]
         \/ rows' = [rows EXCEPT ![g].downloadOnly = b]
  PROVE  SameRow(f)
PROOF
<1>0. /\ rows[g] \in RowSet /\ rows[g].session \in Sessions
      /\ NoTarget \in Targets \cup {NoTarget}
      /\ rows = [k \in Folders |-> rows[k]]
  BY RowTyped DEF Counted, Tables
<1>1. PICK a, c : /\ a = [rows[g] EXCEPT !.selected = b]
                  /\ c = [rows[g] EXCEPT !.downloadOnly = b]
  OBVIOUS
<1>2. /\ RowLike(a, rows[g].target, rows[g].session)
      /\ RowLike(c, rows[g].target, rows[g].session)
  BY <1>0, <1>1, RowExcept
<1>3. rows' = [rows EXCEPT ![g] = a] \/ rows' = [rows EXCEPT ![g] = c]
  BY <1>0, <1>1
<1>4. rows'[g] \in {a, c} /\ \A k \in Folders : k # g => rows'[k] = rows[k]
  BY <1>0, <1>3
<1>5. CASE f # g
  BY <1>4, <1>5 DEF SameRow
<1>6. CASE f = g
  BY <1>2, <1>4, <1>6, RowFacts DEF SameRow, RowLike
<1> QED BY <1>5, <1>6

LEMMA SyncRowKept ==
  ASSUME Counted, Shaped, Held, Alone, Taken, RowStep, sync.at # "idle", ~Lost
  PROVE  SameRow(sync.folder)
PROOF
<1> DEFINE f == sync.folder
<1>0. f \in Folders /\ rows[f] # NoRow
  BY DEF Held, Counted
<1>1. CASE ReplaceFolders
  <2>1. f \in push.listed
    BY <1>1 DEF ReplaceFolders, Alone
  <2>2. rows'[f] = rows[f]
    BY <1>0, <1>1, <2>1, ReplacedRow
  <2> QED BY <1>0, <2>2 DEF SameRow
<1>2. ASSUME NEW r \in reports, Report(r) PROVE SameRow(f)
  <2>1. CASE UNCHANGED rows
    BY <1>0, <2>1 DEF SameRow
  <2>2. CASE r.at = "clear" /\ clearTarget(r.folder)
    <3>1. r.folder # f
      BY <2>2 DEF Alone
    <3>2. rows'[f] = rows[f]
      BY <1>0, <2>2, <3>1 DEF clearTarget, Counted, Tables
    <3> QED BY <1>0, <3>2 DEF SameRow
  <2> QED BY <1>2, <2>1, <2>2 DEF Report
<1>3. ASSUME NEW g \in Folders, setFolderDownloadOnly(g) PROVE SameRow(f)
  <2>1. rows[g] # NoRow /\ rows' = [rows EXCEPT ![g].downloadOnly = TRUE]
    BY <1>3 DEF setFolderDownloadOnly
  <2> QED BY <1>0, <2>1, FlagSame
<1>4. mgr.at # "idle" => mgr.op \in {"select", "deselect"} /\ mgr.folder # f
  BY DEF Alone
<1>5. CASE Told
  <2>1. UNCHANGED rows \/ rows' = [rows EXCEPT ![mgr.folder].target = NoTarget]
    BY <1>4, <1>5 DEF Told
  <2>2. rows'[f] = rows[f]
    BY <1>0, <1>4, <1>5, <2>1 DEF Told, Counted, Tables
  <2> QED BY <1>0, <2>2 DEF SameRow
<1>6. CASE clearAccount
  BY <1>4, <1>6 DEF clearAccount, Taken
<1>7. CASE Finished
  <2>1. \/ UNCHANGED rows \/ rows' = [rows EXCEPT ![mgr.folder].selected = TRUE]
        \/ rows' = [rows EXCEPT ![mgr.folder] = Deselected(mgr.folder)]
    BY <1>4, <1>7 DEF Finished
  <2>2. rows'[f] = rows[f]
    BY <1>0, <1>4, <1>7, <2>1 DEF Finished, Counted, Tables
  <2> QED BY <1>0, <2>2 DEF SameRow
<1> QED BY <1>1, <1>2, <1>3, <1>5, <1>6, <1>7 DEF RowStep

LEMMA RowHeld ==
  ASSUME Counted, Shaped, Held, Alone, Taken, RowStep
  PROVE  Held'
PROOF
<1>1. UNCHANGED <<made, sync, contents>>
  BY RowStepRest
<1>2. Lost => Lost'
  BY <1>1 DEF Lost, Early
<1>3. sync.at # "idle" /\ ~Lost => SameRow(sync.folder)
  BY SyncRowKept
<1> QED BY <1>1, <1>2, <1>3 DEF Held, SameRow, Early, Late

(* What a step does to the reports and to what is to be deleted.             *)
LEMMA RowStepReports ==
  ASSUME Counted, RowStep
  PROVE  /\ \A q \in reports' :
              \/ q \in reports
              \/ /\ q.at = "clear"
                 /\ \E r \in reports : q.target = r.target /\ rows[q.folder].target = r.target
         /\ \/ UNCHANGED doomed
            \/ doomed' = doomed \cup (Named(rows) \ Named(rows'))
         /\ push'.at = "idle" \/ UNCHANGED push
PROOF
<1> DEFINE Goal == /\ \A q \in reports' :
                        \/ q \in reports
                        \/ /\ q.at = "clear"
                           /\ \E r \in reports :
                                q.target = r.target /\ rows[q.folder].target = r.target
                   /\ \/ UNCHANGED doomed
                      \/ doomed' = doomed \cup (Named(rows) \ Named(rows'))
                   /\ push'.at = "idle" \/ UNCHANGED push
<1>1. CASE ReplaceFolders
  <2>1. UNCHANGED reports /\ push'.at = "idle"
    BY <1>1 DEF ReplaceFolders, IdlePush
  <2>2. doomed' = doomed \cup (Named(rows) \ Named(rows'))
    BY <1>1 DEF ReplaceFolders, replaceAccountFolders
  <2> QED BY <2>1, <2>2
<1>2. ASSUME NEW r \in reports, Report(r) PROVE Goal
  <2>1. UNCHANGED <<doomed, push>>
    BY <1>2 DEF Report
  <2>2. \A q \in reports' :
          \/ q \in reports
          \/ q.at = "clear" /\ q.target = r.target /\ rows[q.folder].target = r.target
    BY <1>2 DEF Report
  <2> QED BY <2>1, <2>2
<1>3. ASSUME NEW f \in Folders, setFolderDownloadOnly(f) PROVE Goal
  BY <1>3 DEF setFolderDownloadOnly
<1>4. CASE Told
  BY <1>4 DEF Told
<1>5. CASE clearAccount
  BY <1>5 DEF clearAccount
<1>6. CASE Finished
  BY <1>6 DEF Finished
<1> QED BY <1>1, <1>2, <1>3, <1>4, <1>5, <1>6 DEF RowStep

LEMMA TargetTurn ==
  ASSUME Counted, RowsTurn
  PROVE  /\ \A f \in Folders : rows'[f].target = NoTarget \/ rows'[f].target = rows[f].target
         /\ Named(rows') \subseteq Named(rows)
PROOF
<1>1. ASSUME NEW f \in Folders, rows'[f].target # NoTarget
      PROVE  rows'[f].target = rows[f].target /\ rows[f] # NoRow
  <2>1. rows'[f] # NoRow
    BY <1>1, RowFacts
  <2> QED BY <1>1, <2>1 DEF RowsTurn, KeepsRow, RenewsRow
<1>2. Named(rows') \subseteq Named(rows)
  BY <1>1 DEF Named
<1> QED BY <1>1, <1>2

LEMMA RowTaken ==
  ASSUME Counted, Shaped, Marked, DirectoryTyped, Taken, RowsTurn, RowStep
  PROVE  Taken'
PROOF
<1>0. UNCHANGED <<made, sync, contents>> /\ ContentsFall
  BY RowStepRest DEF ContentsFall
<1>1. doomed' \cap Named(rows') = {}
  BY RowStepReports, TargetTurn DEF Taken
<1>2. \A q \in reports' : q.target \in 1..made /\ contents[q.target] = NotBound
  BY RowStepReports DEF Taken
<1>3. NoTarget \notin mgr.targets
  <2>1. mgr.targets \subseteq 1..made
    BY DEF DirectoryTyped
  <2>2. NoTarget \notin 1..made
    BY Bounds DEF Counted
  <2> QED BY <2>1, <2>2
<1>4. ASSUME mgr'.op = mgr.op, mgr'.folder = mgr.folder, mgr'.targets = mgr.targets,
             mgr.op \in {"select", "deselect"}
      PROVE  \A f \in Folders : f # mgr'.folder => rows'[f].target \notin mgr'.targets
  BY <1>3, <1>4, TargetTurn DEF Taken
<1>5. ASSUME NEW f \in Folders, f = mgr.folder, Live(f)', mgr.op = "deselect",
             mgr.at \in {"told", "delete"}
      PROVE  rows'[f].target \in mgr.targets
  <2>1. Live(f) /\ rows'[f].target = rows[f].target
    BY <1>0, <1>5, LiveWas
  <2> QED BY <1>5, <2>1 DEF Taken
<1>6. MgrTurn
  BY RowStepMgr
<1>7. CASE UNCHANGED mgr
  <2>1. mgr.op = "deselect" /\ mgr.at \in {"told", "delete"} =>
          (Live(mgr.folder)' => rows'[mgr.folder].target \in mgr.targets)
    BY <1>5, <1>7 DEF Shaped, Live
  <2> QED BY <1>0, <1>1, <1>2, <1>4, <1>7, <2>1 DEF Taken
<1>8. CASE mgr'.at = "idle" /\ mgr'.op = "none" /\ mgr'.targets = {}
  BY <1>0, <1>1, <1>2, <1>8 DEF Taken
<1>9. CASE /\ mgr.at \in {"told", "clear"} /\ mgr'.op = mgr.op
           /\ mgr'.folder = mgr.folder /\ mgr'.targets = mgr.targets
           /\ \/ mgr'.at = "update" /\ mgr.at = "told" /\ mgr.op = "select"
              \/ mgr'.at = "delete" /\ mgr.at = "told" /\ mgr.op = "deselect"
              \/ mgr'.at = "clear" /\ mgr.op \in {"disconnect", "remove"}
              \/ mgr'.at = "delete" /\ mgr.at = "clear"
  <2>0. mgr.folder \in Folders /\ mgr'.folder = mgr.folder /\ mgr'.op = mgr.op
    BY <1>9 DEF Shaped
  <2>1. mgr'.op = "deselect" /\ mgr'.at \in {"told", "delete"} =>
          (Live(mgr.folder)' => rows'[mgr'.folder].target \in mgr'.targets)
    <3>1. mgr.op = "deselect" /\ mgr'.at \in {"told", "delete"} => mgr.at = "told"
      BY <1>9 DEF Taken
    <3> QED BY <1>5, <1>9, <2>0, <3>1 DEF Live
  <2>2. /\ mgr'.at # "idle" /\ mgr'.op \in {"select", "deselect", "disconnect", "remove"}
        /\ mgr'.at = "update" => mgr'.op = "select"
        /\ mgr'.at = "clear" => mgr'.op \in {"disconnect", "remove"}
    BY <1>9 DEF Taken
  <2>3. mgr'.op \in {"select", "deselect"} =>
          \A f \in Folders : f # mgr'.folder => rows'[f].target \notin mgr'.targets
    BY <1>4, <1>9
  <2> QED BY <1>0, <1>1, <1>2, <2>1, <2>2, <2>3 DEF Taken
<1> QED BY <1>6, <1>7, <1>8, <1>9, MgrTurns

LEMMA RowAlone ==
  ASSUME Counted, Shaped, Held, Alone, BoundOk, Taken, RowStep
  PROVE  Alone'
PROOF
<1>0. UNCHANGED <<made, sync, contents>>
  BY RowStepRest
<1>1. Lost' <=> Lost
  BY <1>0 DEF Lost, Early
<1>2. ASSUME sync.at # "idle"
      PROVE  /\ push'.at = "replace" => sync.folder \in push'.listed
             /\ mgr'.at # "idle" =>
                  mgr'.op \in {"select", "deselect"} /\ mgr'.folder # sync.folder
  <2>1. push'.at = "replace" => sync.folder \in push'.listed
    BY <1>2, RowStepReports DEF Alone
  <2>2. mgr.at # "idle" => mgr.op \in {"select", "deselect"} /\ mgr.folder # sync.folder
    BY <1>2 DEF Alone
  <2>3. mgr'.at # "idle" => mgr.at # "idle" /\ mgr'.op = mgr.op /\ mgr'.folder = mgr.folder
    BY RowStepMgr, MgrTurns
  <2> QED BY <2>1, <2>2, <2>3
<1>3. ASSUME sync.at # "idle", NEW q \in reports', q.at = "clear", q.folder = sync.folder
      PROVE  Lost
  <2>1. CASE q \in reports
    BY <1>3, <2>1 DEF Alone
  <2>2. ASSUME NEW r \in reports, rows[q.folder].target = r.target PROVE Lost
    <3>1. r.target \in 1..made /\ contents[r.target] = NotBound
      BY <2>2 DEF Taken
    <3>2. r.target # NoTarget
      BY <3>1, Bounds DEF Counted
    <3>3. SUFFICES ASSUME ~Lost PROVE FALSE
      OBVIOUS
    <3>4. sync.at # "updateFolder" /\ sync.target = r.target
      BY <1>3, <2>2, <3>2, <3>3 DEF Held
    <3>5. CASE Early
      BY <3>1, <3>2, <3>3, <3>4, <3>5 DEF Lost
    <3>6. CASE Late
      BY <3>1, <3>4, <3>6 DEF BoundOk
    <3> QED BY <1>3, <3>4, <3>5, <3>6 DEF Held
  <2> QED BY <1>3, <2>1, <2>2, RowStepReports
<1> QED BY <1>0, <1>1, <1>2, <1>3 DEF Alone

LEMMA RowBoundOk ==
  ASSUME Counted, Shaped, Held, Alone, BoundOk, Taken, RowsTurn, RowStep
  PROVE  BoundOk'
PROOF
<1>0. UNCHANGED <<made, sync, contents, queues, bindings, hooks, server>>
  BY RowStepRest, RowStepServer
<1>1. mgr'.targets \subseteq mgr.targets
  BY RowStepMgr, MgrTurns
<1>2. ASSUME Late \/ sync.at = "updateFolder"
      PROVE  sync.target \notin doomed' \cup mgr'.targets
  <2>1. sync.target \notin doomed \cup mgr.targets /\ sync.target # NoTarget
    BY <1>2 DEF BoundOk
  <2>2. ASSUME sync.target \in Named(rows) PROVE sync.target \in Named(rows')
    <3>1. sync.at # "updateFolder"
      BY <2>2 DEF BoundOk, Named
    <3>2. Late /\ sync.at # "idle" /\ ~Lost
      BY <1>2, <3>1 DEF Late, Lost, Early
    <3>3. rows[sync.folder].target = sync.target /\ SameRow(sync.folder) /\ sync.folder \in Folders
      BY <3>2, HeldRow, SyncRowKept DEF Counted
    <3> QED BY <2>1, <3>3 DEF SameRow, Named
  <2> QED BY <1>1, <2>1, <2>2, RowStepReports
<1>3. ASSUME sync.at = "updateFolder"
      PROVE  \A g \in Folders : rows'[g].target # sync.target
  BY <1>3, TargetTurn DEF BoundOk
<1>4. Unmade(sync.target)' <=> Unmade(sync.target)
  BY <1>0 DEF Unmade, Says
<1> QED BY <1>0, <1>2, <1>3, <1>4 DEF BoundOk, Late

LEMMA RowBound ==
  ASSUME IInv, Typed, Bound, RowStep
  PROVE  Bound' /\ FilesGoal /\ RowsTurn /\ UNCHANGED <<contents, queues, bindings, hooks, server>>
PROOF
<1>0. /\ Counted /\ Shaped /\ Filed /\ Marked /\ Known /\ GoneRight /\ FiledWell
      /\ SeenRight /\ Held /\ Alone /\ BoundOk /\ Taken /\ DirectoryTyped /\ HooksNamed
  BY DEF IInv, Typed, Bound, FiledWell, SyncWell, Known, HooksNamed
<1>1. UNCHANGED <<made, sync, contents, queues, bindings, hooks, server>>
  BY RowStepRest, RowStepServer
<1>2. FilesGoal
  BY <1>0, <1>1, FilesStill
<1>3. RowsTurn
  BY <1>0, RowStepTurns
<1>4. FiledWell'
  <2>1. minted' \in minted..MaxSessions
    BY <1>0, RowStepMoves DEF RowsMove
  <2>2. made' \in made..MaxTargets
    BY <1>0, <1>1, Bounds DEF Counted
  <2> QED BY <1>0, <1>1, <1>2, <1>3, <2>1, <2>2, FiledWellKept
<1>5. SeenRight'
  BY <1>0, <1>1, <1>2, <1>3, SeenKept DEF FilesGoal
<1>6. Held' /\ Alone' /\ BoundOk' /\ Taken'
  BY <1>0, <1>3, RowHeld, RowAlone, RowBoundOk, RowTaken
<1> QED BY <1>1, <1>2, <1>3, <1>4, <1>5, <1>6 DEF Bound, SyncWell

-----------------------------------------------------------------------------
(* Steps of the sync.                                                        *)

LEMMA SyncFields ==
  ASSUME Counted, NEW b, NEW u, NEW j, NEW e
  PROVE  /\ sync' = [sync EXCEPT !.at = b] =>
              /\ sync'.at = b /\ sync'.folder = sync.folder /\ sync'.seen = sync.seen
              /\ sync'.target = sync.target /\ sync'.item = sync.item
         /\ sync' = [sync EXCEPT !.at = b, !.target = u] =>
              /\ sync'.at = b /\ sync'.folder = sync.folder /\ sync'.seen = sync.seen
              /\ sync'.target = u
         /\ sync' = [sync EXCEPT !.at = b, !.item = j, !.done = e] =>
              /\ sync'.at = b /\ sync'.folder = sync.folder /\ sync'.seen = sync.seen
              /\ sync'.target = sync.target /\ sync'.item = j
PROOF
<1>1. PICK a, f, n, t, i, d : sync = [at |-> a, folder |-> f, seen |-> n, target |-> t,
                                      item |-> i, done |-> d]
  BY DEF Counted
<1>2. sync \in SyncSet(a, f, n, t, i, d)
  BY <1>1 DEF SyncSet
<1>3. /\ [sync EXCEPT !.at = b] \in SyncSet(b, f, n, t, i, d)
      /\ [sync EXCEPT !.at = b, !.target = u] \in SyncSet(b, f, n, u, i, d)
      /\ [sync EXCEPT !.at = b, !.item = j, !.done = e] \in SyncSet(b, f, n, t, j, e)
  BY <1>2, SyncExcept
<1>4. \A q, c, v, k, x : q \in SyncSet(c, f, n, v, k, x) =>
        q.at = c /\ q.folder = f /\ q.seen = n /\ q.target = v /\ q.item = k
  BY DEF SyncSet
<1>5. sync.folder = f /\ sync.seen = n /\ sync.target = t /\ sync.item = i
  BY <1>1
<1> QED BY <1>3, <1>4, <1>5

LEMMA SyncDeselecting ==
  SyncUnchanged => \A f \in Folders : Deselecting(f)' <=> Deselecting(f)
PROOF
  BY DEF SyncUnchanged, Deselecting

(* Another sync's record over the same rows and resources.                   *)
LEMMA SyncTaken ==
  ASSUME Taken, UNCHANGED <<rows, made, contents>>, SyncUnchanged
  PROVE  Taken'
PROOF
  BY DEF Taken, SyncUnchanged, Named, Live

LEMMA SyncFiled ==
  ASSUME Counted, Filed, Marked, FiledWell, UNCHANGED <<rows, bindings>>, SyncUnchanged,
         FilesGoal, made' \in made..MaxTargets
  PROVE  FiledWell'
PROOF
<1>1. RowsTurn
  BY SyncDeselecting, SameTurn
<1>2. minted' \in minted..MaxSessions
  BY MintedSame DEF SyncUnchanged
<1> QED BY <1>1, <1>2, FiledWellKept

LEMMA SyncCalm ==
  ASSUME Counted, Filed, Marked, FiledWell, Taken,
         UNCHANGED <<rows, made, contents, queues, bindings>>, SyncUnchanged
  PROVE  FiledWell' /\ Taken' /\ FilesGoal
PROOF
<1>1. FilesGoal
  BY FilesStill DEF FiledWell, Known, HooksNamed, SyncUnchanged
<1>2. made' \in made..MaxTargets
  BY Bounds DEF Counted
<1> QED BY <1>1, <1>2, SyncFiled, SyncTaken

LEMMA IdleWell == sync' = IdleSync => SyncWell'
PROOF
  BY DEF IdleSync, SyncWell, SeenRight, Held, Alone, BoundOk, Late

LEMMA StartBound ==
  ASSUME ~Overlap, IInv, Typed, Bound, NEW f \in Folders, SyncStart(f)
  PROVE  Bound' /\ FilesGoal
PROOF
<1>0. /\ Counted /\ Filed /\ Marked /\ FiledWell /\ Taken /\ Apart
  BY DEF IInv, Bound, FiledWell
<1>1. /\ UNCHANGED <<rows, made, contents, queues, bindings>> /\ SyncUnchanged
      /\ push.at = "idle" /\ rows[f] # NoRow
      /\ \A r \in reports : ~(r.at = "clear" /\ r.folder = f)
      /\ mgr.at = "idle" \/ (mgr.op \in {"select", "deselect"} /\ mgr.folder # f)
  BY DEF SyncStart
<1>2. /\ sync'.at = "remember" /\ sync'.folder = f /\ sync'.seen = rows
      /\ sync'.target = rows[f].target
  BY DEF SyncStart, IdleSync
<1>3. FiledWell' /\ Taken' /\ FilesGoal
  BY <1>0, <1>1, SyncCalm
<1>4. ASSUME NEW g \in Folders PROVE rows[g].target \in 0..made
  <2>1. CASE rows[g].target = NoTarget
    BY <1>0, <2>1, Bounds DEF Counted
  <2>2. CASE rows[g].target # NoTarget
    <3>1. rows[g].target \in 1..made
      BY <1>0, <2>2, NamedMade
    <3> QED BY <1>0, <3>1, Bounds DEF Counted
  <2> QED BY <2>1, <2>2
<1>5. SeenRight'
  <2>1. ASSUME NEW k \in Folders, NEW g \in Folders
        PROVE  /\ Live(k)' /\ rows[g].target = rows[k].target
                    => rows[g].session = rows[k].session
               /\ rows[k] # NoRow /\ rows[g].session = rows[k].session
                    => rows[g].target = rows[k].target
               /\ rows[g].target <= made
    <3>1. Live(k)' /\ rows[g].target = rows[k].target => g = k
      BY <1>0, <1>1 DEF Live, Apart
    <3>2. rows[k] # NoRow /\ rows[g].session = rows[k].session => g = k
      BY <1>0 DEF Apart
    <3>3. rows[g].target <= made
      BY <1>0, <1>4, Bounds DEF Counted
    <3> QED BY <3>1, <3>2, <3>3
  <2> QED BY <1>1, <1>2, <2>1 DEF SeenRight
<1>6. Held'
  BY <1>1, <1>2, <1>4 DEF Held, Early
<1>7. Alone'
  BY <1>1, <1>2 DEF Alone, SyncUnchanged
<1>8. BoundOk'
  BY <1>2 DEF BoundOk, Late
<1> QED BY <1>3, <1>5, <1>6, <1>7, <1>8 DEF Bound, SyncWell

(* The sync reads on: the rows it read contradict none there is.             *)
LEMMA ReadOn ==
  ASSUME Held, Alone, Early, NEW b \in {"sweep", "bind"}, sync'.at = b,
         sync'.folder = sync.folder, sync'.seen = sync.seen, sync'.target = sync.target,
         UNCHANGED <<rows, made, contents>>, SyncUnchanged
  PROVE  SyncWell'
PROOF
<1>1. sync.at # "idle" /\ sync.at # "updateFolder"
  BY DEF Early
<1>2. Lost' <=> Lost
  BY DEF Lost, Early
<1>3. SeenRight' /\ BoundOk'
  BY DEF SeenRight, BoundOk, Late
<1>4. Held'
  BY <1>1, <1>2 DEF Held, Early
<1>5. Alone'
  BY <1>1, <1>2 DEF Alone, SyncUnchanged
<1> QED BY <1>3, <1>4, <1>5 DEF SyncWell

LEMMA RememberFiles ==
  ASSUME Counted, Shaped, SeenRight, FiledWell, SyncRemember
  PROVE  FiledWell'
PROOF
<1>0. /\ Apart /\ OwnSession /\ OwnTarget /\ Known /\ GoneRight
  BY DEF FiledWell
<1>1. /\ bindings' = rememberBindings(sync.seen) /\ sync.at = "remember"
      /\ UNCHANGED <<rows, made, contents, queues, hooks, mgr>>
  BY DEF SyncRemember, SyncUnchanged
<1>2. ASSUME NEW t \in Targets
      PROVE  \/ bindings'[t] = bindings[t]
             \/ \E g \in Folders :
                  /\ sync.seen[g].target = t /\ sync.seen[g] # NoRow
                  /\ bindings'[t].session = sync.seen[g].session
  <2>1. CASE t \notin Named(sync.seen)
    BY <1>1, <2>1 DEF rememberBindings
  <2>2. CASE t \in Named(sync.seen)
    <3> DEFINE P(g) == sync.seen[g] # NoRow /\ sync.seen[g].target = t
               f == CHOOSE g \in Folders : P(g)
    <3>1. \E g \in Folders : P(g)
      BY <2>2 DEF Named
    <3>2. f \in Folders /\ P(f)
      BY <3>1
    <3>3. bindings'[t] = [folder |-> f, session |-> sync.seen[f].session]
      BY <1>1, <2>2 DEF rememberBindings
    <3> HIDE DEF f
    <3> QED BY <3>2, <3>3
  <2> QED BY <2>1, <2>2
<1>3. ASSUME NEW t \in Targets, NEW s \in Sessions, Says(t, s)', ~Says(t, s)
      PROVE  \E g \in Folders : sync.seen[g].target = t /\ sync.seen[g].session = s
  BY <1>1, <1>2, <1>3 DEF Says
<1>4. \A f \in Folders : (Live(f)' <=> Live(f)) /\ (Deselecting(f)' <=> Deselecting(f))
  BY <1>1 DEF Live, Deselecting
<1>5. Apart' /\ GoneRight'
  BY <1>0, <1>1 DEF Apart, GoneRight
<1>6. OwnSession'
  <2>1. ASSUME NEW f \in Folders, Live(f), NEW s \in Sessions, NEW t, t = rows[f].target,
               Says(t, s)'
        PROVE  s = rows[f].session
    <3>1. t \in Targets
      BY <2>1, TargetFacts
    <3>2. CASE Says(t, s)
      BY <1>0, <2>1, <3>2 DEF OwnSession
    <3>3. ASSUME NEW g \in Folders, sync.seen[g].target = t, sync.seen[g].session = s
          PROVE  s = rows[f].session
      BY <1>1, <2>1, <3>3 DEF SeenRight
    <3> QED BY <1>3, <2>1, <3>1, <3>2, <3>3
  <2> QED BY <1>1, <1>4, <2>1 DEF OwnSession
<1>7. OwnTarget'
  <2>1. ASSUME NEW f \in Folders, rows[f] # NoRow, NEW t \in Targets,
               NEW s, s = rows[f].session, Says(t, s)'
        PROVE  t = rows[f].target \/ Deselecting(f)
    <3>1. s \in Sessions /\ t # NoTarget
      BY <2>1, TargetFacts, Bounds
    <3>2. CASE Says(t, s)
      BY <1>0, <2>1, <3>2 DEF OwnTarget
    <3>3. ASSUME NEW g \in Folders, sync.seen[g].target = t, sync.seen[g].session = s
          PROVE  t = rows[f].target \/ Deselecting(f)
      BY <1>1, <2>1, <3>1, <3>3 DEF SeenRight
    <3> QED BY <1>3, <2>1, <3>1, <3>2, <3>3
  <2> QED BY <1>1, <1>4, <2>1 DEF OwnTarget
<1>8. \A g \in Folders : sync.seen[g] # NoRow => sync.seen[g].session # 0
  <2>1. sync.seen \in Tables
    BY <1>1 DEF Counted
  <2> QED BY <2>1, Bounds DEF Tables, RowSet
<1>9. Known'
  <2>1. ASSUME NEW f \in Folders, rows[f].target # NoTarget
        PROVE  bindings'[rows[f].target].session # 0
    <3>1. rows[f].target \in Targets
      BY <2>1, TargetFacts
    <3>2. bindings[rows[f].target].session # 0
      BY <1>0, <2>1 DEF Known
    <3> QED BY <1>2, <1>8, <3>1, <3>2
  <2>2. ASSUME NEW t \in Targets, t > made PROVE Unmade(t)'
    <3>1. Unmade(t)
      BY <1>0, <2>2 DEF Known
    <3>2. ~ \E g \in Folders : sync.seen[g].target = t
      <4>1. made \in Nat /\ t \in Nat /\ ~(t <= made)
        BY <2>2, Bounds DEF Counted
      <4> QED BY <1>1, <4>1 DEF SeenRight
    <3>3. bindings'[t] = bindings[t]
      BY <1>2, <3>2
    <3> QED BY <1>1, <3>1, <3>3 DEF Unmade, Says
  <2>3. ASSUME NEW t \in Targets, bindings'[t].session = 0 PROVE bindings'[t] = NoBinding
    BY <1>0, <1>2, <1>8, <2>3 DEF Known
  <2> QED BY <1>0, <1>1, <2>1, <2>2, <2>3 DEF Known
<1> QED BY <1>5, <1>6, <1>7, <1>9 DEF FiledWell

LEMMA RememberBound ==
  ASSUME IInv, Typed, Bound, SyncRemember
  PROVE  Bound'
PROOF
<1>0. /\ Counted /\ Shaped /\ SeenRight /\ FiledWell /\ Held /\ Alone /\ Taken
  BY DEF IInv, Bound, SyncWell
<1>1. /\ sync.at = "remember" /\ sync' = [sync EXCEPT !.at = "sweep"]
      /\ UNCHANGED <<rows, made, contents>> /\ SyncUnchanged
  BY DEF SyncRemember
<1>2. FiledWell'
  BY <1>0, RememberFiles
<1>3. SyncWell'
  BY <1>0, <1>1, SyncFields, ReadOn DEF Early
<1>4. Taken'
  BY <1>0, <1>1, SyncTaken
<1> QED BY <1>2, <1>3, <1>4 DEF Bound

LEMMA SweepFiles ==
  ASSUME Counted, Shaped, Filed, Marked, FiledWell, sweep
  PROVE  FiledWell' /\ SaysLess
PROOF
<1>0. /\ Apart /\ OwnSession /\ OwnTarget /\ Known /\ GoneRight
  BY DEF FiledWell
<1>1. /\ sync.at = "sweep" /\ Reading /\ SyncUnchanged
      /\ UNCHANGED <<rows, made, contents, hooks, mgr, minted>>
  BY DEF sweep, SyncUnchanged, Reading
<1>2. \A s \in Sessions : queues'[s] = queues[s] \/ queues'[s] = <<>>
  BY DEF sweep
<1>3. \A t \in Targets :
        \/ bindings'[t] = bindings[t]
        \/ bindings'[t] = NoBinding /\ t \notin Named(sync.seen)
  BY DEF sweep, Orphaned
<1>4. NoBinding.session = 0
  BY DEF NoBinding
<1>5. Range(<<>>) = {}
  BY DEF Range
<1>6. SaysLess
  <2>1. ASSUME NEW t \in Targets, NEW s \in Sessions, Says(t, s)' PROVE Says(t, s)
    <3>1. CASE bindings'[t].session = s
      BY <1>3, <1>4, <3>1, Bounds DEF Says
    <3>2. CASE \E h \in hooks' : h.target = t /\ h.session = s
      BY <1>1, <3>2 DEF Says
    <3>3. CASE \E i \in Items : Holds(queues'[s], t, i)
      BY <1>2, <1>5, <3>3 DEF Says, Holds
    <3> QED BY <2>1, <3>1, <3>2, <3>3 DEF Says
  <2> QED BY <2>1 DEF SaysLess
<1>7. RowsTurn /\ ContentsFall
  BY <1>1, SyncDeselecting, SameTurn DEF ContentsFall
<1>8. Apart' /\ OwnSession' /\ OwnTarget'
  <2>1. minted' \in minted..MaxSessions
    BY <1>1, MintedSame
  <2> QED BY <1>0, <1>6, <1>7, <2>1, ApartKept, OwnKept
<1>9. GoneRight'
  <2>1. \A t, i : \A s \in Sessions : Struck(queues'[s], t, i) => Struck(queues[s], t, i)
    BY <1>2, <1>5 DEF Struck
  <2> QED BY <1>0, <1>1, <2>1 DEF GoneRight
<1>10. Known'
  <2>1. ASSUME NEW f \in Folders, rows[f].target # NoTarget
        PROVE  bindings'[rows[f].target].session # 0
    <3>1. rows[f].target \in Targets /\ rows[f].target \in Named(sync.seen)
      BY <1>1, <2>1, TargetFacts DEF Marked
    <3> QED BY <1>0, <1>3, <2>1, <3>1 DEF Known
  <2>2. ASSUME NEW t \in Targets, Unmade(t) PROVE Unmade(t)'
    BY <1>1, <1>3, <1>6, <2>2 DEF Unmade, SaysLess
  <2> QED BY <1>0, <1>1, <1>3, <2>1, <2>2 DEF Known
<1> QED BY <1>6, <1>8, <1>9, <1>10 DEF FiledWell

LEMMA SweepBound ==
  ASSUME IInv, Typed, Bound, sweep
  PROVE  Bound'
PROOF
<1>0. /\ Counted /\ Shaped /\ Filed /\ Marked /\ FiledWell /\ Held /\ Alone /\ Taken
  BY DEF IInv, Bound, SyncWell
<1>1. /\ sync.at = "sweep" /\ sync' = [sync EXCEPT !.at = "bind"]
      /\ UNCHANGED <<rows, made, contents>> /\ SyncUnchanged
  BY DEF sweep
<1>2. FiledWell'
  BY <1>0, SweepFiles
<1>3. SyncWell'
  BY <1>0, <1>1, SyncFields, ReadOn DEF Early
<1>4. Taken'
  BY <1>0, <1>1, SyncTaken
<1> QED BY <1>2, <1>3, <1>4 DEF Bound

(* A resource that is made holds what the server has.                        *)
LEMMA CreateFacts ==
  ASSUME Counted, Shaped, CopiesTyped, SyncCreate
  PROVE  /\ made + 1 \in Targets /\ made' = made + 1 /\ made' \in made..MaxTargets
         /\ contents'[made + 1] = server[sync.folder] /\ server[sync.folder] # NotBound
         /\ \A t \in Targets : t # made + 1 => contents'[t] = contents[t]
         /\ \A t \in 1..made : t \in Targets /\ t # made + 1
         /\ sync'.at = "updateFolder" /\ sync'.folder = sync.folder
         /\ sync'.seen = sync.seen /\ sync'.target = made + 1
         /\ UNCHANGED <<rows, queues, bindings, server>> /\ SyncUnchanged
PROOF
<1>1. /\ made < MaxTargets /\ made' = made + 1
      /\ contents' = [contents EXCEPT ![made + 1] = server[sync.folder]]
      /\ sync' = [sync EXCEPT !.at = "updateFolder", !.target = made + 1]
      /\ UNCHANGED <<rows, queues, bindings, server>> /\ SyncUnchanged
  BY DEF SyncCreate
<1>2. made \in Nat /\ made + 1 \in Targets /\ made' \in made..MaxTargets
  BY <1>1, Bounds DEF Counted
<1>3. /\ contents'[made + 1] = server[sync.folder]
      /\ \A t \in Targets : t # made + 1 => contents'[t] = contents[t]
  BY <1>1, <1>2 DEF Shaped
<1>4. server[sync.folder] # NotBound
  <2>1. server[sync.folder] \in [Items -> Versions]
    BY DEF CopiesTyped, Counted
  <2>2. PICK i \in Items : TRUE
    BY SessionsAssumption
  <2> QED BY <2>1, <2>2, NotEmpty
<1>5. \A t \in 1..made : t \in Targets /\ t # made + 1
  BY <1>1, <1>2, Bounds
<1>6. PICK u : u = made + 1
  OBVIOUS
<1>7. /\ sync'.at = "updateFolder" /\ sync'.folder = sync.folder
      /\ sync'.seen = sync.seen /\ sync'.target = made + 1
  <2>1. sync' = [sync EXCEPT !.at = "updateFolder", !.target = u]
    BY <1>1, <1>6
  <2> QED BY <1>6, <2>1, SyncFields
<1> QED BY <1>1, <1>2, <1>3, <1>4, <1>5, <1>7

LEMMA CreateBound ==
  ASSUME IInv, Typed, Bound, SyncCreate
  PROVE  Bound' /\ FilesGoal
PROOF
<1>0. /\ Counted /\ Shaped /\ Filed /\ Marked /\ FiledWell /\ Held /\ Alone /\ Taken
      /\ Known /\ GoneRight /\ CopiesTyped /\ DirectoryTyped
  BY DEF IInv, Typed, Bound, FiledWell, SyncWell
<1>u. PICK u : u = made + 1
  OBVIOUS
<1>1. /\ u \in Targets /\ made' = u /\ made' \in made..MaxTargets
      /\ contents'[u] = server[sync.folder] /\ server[sync.folder] # NotBound
      /\ \A t \in Targets : t # u => contents'[t] = contents[t]
      /\ \A t \in 1..made : t \in Targets /\ t # u
      /\ sync'.at = "updateFolder" /\ sync'.folder = sync.folder
      /\ sync'.seen = sync.seen /\ sync'.target = u
      /\ UNCHANGED <<rows, queues, bindings, server>> /\ SyncUnchanged
  BY <1>0, <1>u, CreateFacts
<1>2. made \in Nat /\ u > made /\ u \notin 1..made /\ u \in 1..made' /\ u # NoTarget
  BY <1>0, <1>1, <1>u, Bounds DEF Counted
<1>3. sync.at = "bind" /\ sync.target = NoTarget
  BY DEF SyncCreate
<1>4. Unmade(u)
  BY <1>0, <1>1, <1>2 DEF Known
<1>5. FilesGoal
  <2>1. SaysLess /\ StillUnmade /\ HooksNamed'
    BY <1>0, <1>1 DEF SaysLess, StillUnmade, HooksNamed, Known, Says, Unmade, SyncUnchanged
  <2>2. ContentsFall
    <3>1. \A t \in Targets : t <= made => t # u
      BY <1>2, Bounds
    <3> QED BY <1>1, <3>1 DEF ContentsFall
  <2>3. ASSUME NEW t \in Targets, NEW i \in Items, contents'[t] # NotBound,
               contents'[t][i] # "gone"
        PROVE  /\ \A h \in hooks : ~(h.target = t /\ h.item = i /\ h.op = "deleted")
               /\ \A s \in Sessions : ~Struck(queues[s], t, i)
    <3>1. CASE t # u
      BY <1>0, <1>1, <2>3, <3>1 DEF GoneRight
    <3>2. CASE t = u
      <4>1. ASSUME NEW s \in Sessions PROVE ~Struck(queues[s], u, i)
        BY <1>4 DEF Unmade, Says, Holds, Struck
      <4> QED BY <1>4, <3>2, <4>1 DEF Unmade
    <3> QED BY <3>1, <3>2
  <2>4. GoneRight'
    BY <1>1, <2>3 DEF GoneRight, SyncUnchanged
  <2> QED BY <2>1, <2>2, <2>4 DEF FilesGoal
<1>6. FiledWell'
  BY <1>0, <1>1, <1>5, SyncFiled
<1>7. ~Lost /\ sync.at # "idle"
  BY <1>3 DEF Lost
<1>8. SeenRight'
  BY <1>1 DEF SeenRight
<1>9. Held'
  <2>1. u \in 0..made'
    BY <1>1, <1>2
  <2> QED BY <1>0, <1>1, <1>3, <1>7, <2>1 DEF Held
<1>10. Alone'
  BY <1>0, <1>1, <1>7 DEF Alone, SyncUnchanged
<1>11. BoundOk'
  <2>1. u \notin doomed \cup mgr.targets
    BY <1>0, <1>2 DEF DirectoryTyped
  <2>2. \A g \in Folders : rows[g].target # u
    <3>1. \A g \in Folders : {rows[g].target} \ {NoTarget} \subseteq 1..made
      BY <1>0, NamedMade
    <3> QED BY <1>2, <3>1
  <2>3. Unmade(u)'
    BY <1>1, <1>4 DEF Unmade, Says, SyncUnchanged
  <2>4. Unmade(sync.target)' <=> Unmade(u)'
    BY <1>1 DEF Unmade, Says
  <2> QED BY <1>1, <1>2, <2>1, <2>2, <2>3, <2>4 DEF BoundOk, SyncUnchanged, Late
<1>12. Taken'
  <2>1. doomed' \cap Named(rows') = {} /\ UNCHANGED mgr
    BY <1>0, <1>1 DEF Taken, SyncUnchanged
  <2>2. \A r \in reports' : r.target \in 1..made' /\ contents'[r.target] = NotBound
    <3>1. ASSUME NEW r \in reports PROVE r.target \in 1..made' /\ contents'[r.target] = NotBound
      <4>1. r.target \in 1..made /\ contents[r.target] = NotBound
        BY <1>0 DEF Taken
      <4>2. r.target \in 1..made'
        BY <1>1, <1>2, <4>1
      <4> QED BY <1>1, <4>1, <4>2
    <3> QED BY <1>1, <3>1 DEF SyncUnchanged
  <2>3. \A f \in Folders : Live(f)' => Live(f)
    <3>1. ASSUME NEW f \in Folders, Live(f)' PROVE Live(f)
      <4>1. rows[f].target \in 1..made
        <5>1. {rows[f].target} \ {NoTarget} \subseteq 1..made
          BY <1>0, NamedMade
        <5> QED BY <1>1, <3>1, <5>1 DEF Live
      <4> QED BY <1>1, <3>1, <4>1 DEF Live
    <3> QED BY <3>1
  <2>4. Live(mgr.folder)' => Live(mgr.folder)
    BY <1>0, <2>1, <2>3 DEF Shaped
  <2> QED BY <1>0, <1>1, <2>1, <2>2, <2>4 DEF Taken
<1> QED BY <1>5, <1>6, <1>8, <1>9, <1>10, <1>11, <1>12 DEF Bound, SyncWell

(* The row of the sync's folder is there, and takes the new resource.        *)
LEMMA UpdateFacts ==
  ASSUME Counted, Shaped, Held, Alone, BoundOk, SyncUpdateFolder,
         NEW f, f = sync.folder, NEW u, u = sync.target
  PROVE  /\ f \in Folders /\ u \in Targets /\ u # NoTarget /\ u \in 1..made
         /\ rows[f] # NoRow /\ rows[f].target = NoTarget
         /\ sync.seen[f].session = rows[f].session /\ sync.seen[f] # NoRow
         /\ rows[f].session \in Sessions /\ rows[f].session # 0
         /\ rows'[f].target = u /\ rows'[f].session = rows[f].session /\ rows'[f] # NoRow
         /\ \A g \in Folders : g # f => rows'[g] = rows[g]
         /\ bindings'[u].session = rows[f].session
         /\ \A t \in Targets : t # u => bindings'[t] = bindings[t]
         /\ Unmade(u) /\ contents[u] # NotBound /\ u \notin doomed \cup mgr.targets
         /\ \A g \in Folders : rows[g].target # u
         /\ sync.at = "updateFolder" /\ sync'.at = "push" /\ sync'.folder = f
         /\ sync'.seen = sync.seen /\ sync'.target = u
         /\ UNCHANGED <<made, contents, queues, server>> /\ SyncUnchanged
PROOF
<1>1. sync.at = "updateFolder" /\ f \in Folders /\ ~Lost
  BY DEF SyncUpdateFolder, Counted, Lost, Early
<1>2. /\ rows[f] # NoRow /\ rows[f].target = NoTarget /\ sync.seen[f] # NoRow
      /\ sync.seen[f].session = rows[f].session
  BY <1>1 DEF Held
<1>3. /\ u # NoTarget /\ contents[u] # NotBound /\ u \notin doomed \cup mgr.targets
      /\ Unmade(u) /\ \A g \in Folders : rows[g].target # u
  BY <1>1 DEF BoundOk
<1>4. u \in 1..made /\ u \in Targets
  BY <1>1, <1>3, Bounds DEF Counted
<1>5. rows[f].session \in Sessions /\ rows[f].session # 0 /\ rows[f] \in RowSet
  BY <1>1, <1>2, RowTyped, TargetFacts, Bounds
<1>6. /\ rows' = [rows EXCEPT ![f].target = u]
      /\ bindings' = [bindings EXCEPT ![u] = [folder |-> f, session |-> sync.seen[f].session]]
      /\ sync' = [sync EXCEPT !.at = "push"]
      /\ UNCHANGED <<made, contents, queues, server>> /\ SyncUnchanged
  BY <1>2 DEF SyncUpdateFolder
<1>7. PICK r : r = [rows[f] EXCEPT !.target = u]
  OBVIOUS
<1>8. RowLike(r, u, rows[f].session)
  BY <1>4, <1>5, <1>7, RowExcept
<1>9. rows'[f] = r /\ \A g \in Folders : g # f => rows'[g] = rows[g]
  BY <1>1, <1>6, <1>7 DEF Counted, Tables
<1>10. rows'[f].target = u /\ rows'[f].session = rows[f].session /\ rows'[f] # NoRow
  BY <1>8, <1>9, RowFacts DEF RowLike
<1>11. PICK b : b = [folder |-> f, session |-> sync.seen[f].session]
  OBVIOUS
<1>12. bindings'[u] = b /\ \A t \in Targets : t # u => bindings'[t] = bindings[t]
  BY <1>4, <1>6, <1>11 DEF Shaped
<1>13. bindings'[u].session = rows[f].session
  BY <1>2, <1>11, <1>12
<1>14. /\ sync'.at = "push" /\ sync'.folder = f /\ sync'.seen = sync.seen /\ sync'.target = u
  BY <1>6, SyncFields
<1> QED BY <1>1, <1>2, <1>3, <1>4, <1>5, <1>6, <1>9, <1>10, <1>12, <1>13, <1>14

LEMMA UpdateFiled ==
  ASSUME Counted, Shaped, FiledWell, Held, Alone, BoundOk, SyncUpdateFolder
  PROVE  FiledWell'
PROOF
<1>f. PICK f : f = sync.folder
  OBVIOUS
<1>u. PICK u : u = sync.target
  OBVIOUS
<1>0. /\ Apart /\ OwnSession /\ OwnTarget /\ Known /\ GoneRight
  BY DEF FiledWell
<1>1. /\ f \in Folders /\ u \in Targets /\ u # NoTarget /\ u \in 1..made
      /\ rows[f] # NoRow /\ rows[f].target = NoTarget
      /\ rows[f].session \in Sessions /\ rows[f].session # 0
      /\ rows'[f].target = u /\ rows'[f].session = rows[f].session /\ rows'[f] # NoRow
      /\ \A g \in Folders : g # f => rows'[g] = rows[g]
      /\ bindings'[u].session = rows[f].session
      /\ \A t \in Targets : t # u => bindings'[t] = bindings[t]
      /\ Unmade(u) /\ contents[u] # NotBound
      /\ \A g \in Folders : rows[g].target # u
      /\ sync.at = "updateFolder"
      /\ UNCHANGED <<made, contents, queues, server>> /\ SyncUnchanged
  BY <1>f, <1>u, UpdateFacts
<1>2. ~Deselecting(f) /\ \A g \in Folders : Deselecting(g)' <=> Deselecting(g)
  <2>1. mgr.at # "idle" => mgr.folder # f
    BY <1>f, <1>1 DEF Alone
  <2> QED BY <1>1, <2>1, SyncDeselecting DEF Deselecting
<1>3. \A t \in Targets, s \in Sessions : Says(t, s)' <=> Says(t, s) \/ (t = u /\ s = rows[f].session)
  <2>1. ASSUME NEW t \in Targets, NEW s \in Sessions, t # u PROVE Says(t, s)' <=> Says(t, s)
    BY <1>1, <2>1 DEF Says, SyncUnchanged
  <2>2. ASSUME NEW s \in Sessions PROVE Says(u, s)' <=> s = rows[f].session
    BY <1>1 DEF Says, SyncUnchanged, Unmade
  <2>3. \A s \in Sessions : ~Says(u, s)
    BY <1>1 DEF Unmade
  <2> QED BY <2>1, <2>2, <2>3
<1>4. Apart'
  <2>1. ASSUME NEW g \in Folders, NEW h \in Folders, rows'[g].target = rows'[h].target,
               rows'[g].target # NoTarget
        PROVE  g = h
    BY <1>0, <1>1, <2>1 DEF Apart
  <2>2. ASSUME NEW g \in Folders, NEW h \in Folders, rows'[g].session = rows'[h].session,
               rows'[g] # NoRow
        PROVE  g = h
    <3>1. rows'[g].session = rows[g].session /\ rows'[h].session = rows[h].session
          /\ rows[g] # NoRow
      BY <1>1, <2>2
    <3> QED BY <1>0, <2>2, <3>1 DEF Apart
  <2> QED BY <2>1, <2>2 DEF Apart
<1>5. OwnSession'
  <2>1. ASSUME NEW g \in Folders, Live(g)', NEW s \in Sessions, NEW t, t = rows'[g].target,
               Says(t, s)'
        PROVE  s = rows'[g].session
    <3>1. CASE g = f
      <4>1. t = u /\ ~Says(u, s)
        BY <1>1, <2>1, <3>1 DEF Unmade
      <4> QED BY <1>1, <1>3, <2>1, <3>1, <4>1
    <3>2. CASE g # f
      <4>1. rows'[g] = rows[g] /\ Live(g)
        BY <1>1, <2>1, <3>2 DEF Live
      <4>2. t = rows[g].target /\ t \in Targets /\ t # u
        BY <1>1, <2>1, <4>1, TargetFacts
      <4>3. Says(t, s)
        BY <1>3, <2>1, <4>2
      <4> QED BY <1>0, <4>1, <4>2, <4>3 DEF OwnSession
    <3> QED BY <3>1, <3>2
  <2> QED BY <2>1 DEF OwnSession
<1>6. OwnTarget'
  <2>1. ASSUME NEW g \in Folders, rows'[g] # NoRow, NEW t \in Targets,
               NEW s, s = rows'[g].session, Says(t, s)'
        PROVE  t = rows'[g].target \/ Deselecting(g)'
    <3>0. rows[g] # NoRow /\ s = rows[g].session /\ s \in Sessions
      BY <1>1, <2>1, TargetFacts
    <3>1. CASE g = f
      <4>1. SUFFICES ASSUME t # u PROVE FALSE
        BY <1>1, <3>1
      <4>2. Says(t, s)
        BY <1>3, <2>1, <3>0, <4>1
      <4>3. t = rows[f].target
        BY <1>0, <1>2, <3>0, <3>1, <4>2 DEF OwnTarget
      <4> QED BY <1>1, <4>3, Bounds
    <3>2. CASE g # f
      <4>1. rows'[g] = rows[g] /\ s # rows[f].session
        BY <1>0, <1>1, <3>0, <3>2 DEF Apart
      <4>2. Says(t, s)
        BY <1>3, <2>1, <3>0, <4>1
      <4> QED BY <1>0, <1>2, <3>0, <4>1, <4>2 DEF OwnTarget
    <3> QED BY <3>1, <3>2
  <2> QED BY <2>1 DEF OwnTarget
<1>7. Known'
  <2>1. ASSUME NEW g \in Folders, rows'[g].target # NoTarget
        PROVE  bindings'[rows'[g].target].session # 0
    <3>1. CASE g = f
      BY <1>1, <3>1
    <3>2. CASE g # f
      <4>1. rows'[g] = rows[g] /\ rows[g].target \in Targets /\ rows[g].target # u
        BY <1>1, <2>1, <3>2, TargetFacts
      <4> QED BY <1>0, <1>1, <2>1, <4>1 DEF Known
    <3> QED BY <3>1, <3>2
  <2>2. ASSUME NEW t \in Targets, t > made PROVE Unmade(t)'
    <3>1. t # u /\ Unmade(t)
      BY <1>0, <1>1, <2>2, Bounds DEF Known, Counted
    <3> QED BY <1>1, <1>3, <3>1 DEF Unmade, SyncUnchanged
  <2>3. ASSUME NEW t \in Targets, bindings'[t].session = 0 PROVE bindings'[t] = NoBinding
    BY <1>0, <1>1, <2>3 DEF Known
  <2> QED BY <1>0, <1>1, <2>1, <2>2, <2>3 DEF Known, SyncUnchanged
<1>8. GoneRight'
  BY <1>0, <1>1 DEF GoneRight, SyncUnchanged
<1> QED BY <1>4, <1>5, <1>6, <1>7, <1>8 DEF FiledWell

LEMMA UpdateBound ==
  ASSUME IInv, Typed, Bound, SyncUpdateFolder
  PROVE  Bound'
PROOF
<1>f. PICK f : f = sync.folder
  OBVIOUS
<1>u. PICK u : u = sync.target
  OBVIOUS
<1>0. /\ Counted /\ Shaped /\ FiledWell /\ Held /\ Alone /\ BoundOk /\ Taken
  BY DEF IInv, Bound, SyncWell
<1>1. /\ f \in Folders /\ u \in Targets /\ u # NoTarget /\ u \in 1..made
      /\ sync.seen[f].session = rows[f].session /\ sync.seen[f] # NoRow
      /\ rows'[f].target = u /\ rows'[f].session = rows[f].session /\ rows'[f] # NoRow
      /\ \A g \in Folders : g # f => rows'[g] = rows[g]
      /\ contents[u] # NotBound /\ u \notin doomed \cup mgr.targets
      /\ sync.at = "updateFolder" /\ sync'.at = "push" /\ sync'.folder = f
      /\ sync'.seen = sync.seen /\ sync'.target = u
      /\ UNCHANGED <<made, contents, queues, server>> /\ SyncUnchanged
  BY <1>0, <1>f, <1>u, UpdateFacts
<1>2. FiledWell'
  BY <1>0, UpdateFiled
<1>3. ~Lost
  BY <1>1 DEF Lost, Early
<1>4. SeenRight'
  BY <1>1 DEF SeenRight
<1>5. Held'
  <2>1. u \in 0..made'
    BY <1>0, <1>1, Bounds DEF Counted
  <2> QED BY <1>1, <2>1 DEF Held, Late
<1>6. Alone'
  <2>1. /\ push.at = "replace" => f \in push.listed
        /\ mgr.at # "idle" => mgr.op \in {"select", "deselect"} /\ mgr.folder # f
        /\ \A r \in reports : ~(r.at = "clear" /\ r.folder = f)
    BY <1>0, <1>f, <1>1, <1>3 DEF Alone
  <2> QED BY <1>1, <2>1 DEF Alone, SyncUnchanged
<1>7. BoundOk'
  BY <1>1 DEF BoundOk, Late, SyncUnchanged
<1>8. Taken'
  <2>1. doomed' \cap Named(rows') = {}
    <3>1. Named(rows') \subseteq Named(rows) \cup {u}
      BY <1>1 DEF Named
    <3> QED BY <1>0, <1>1, <3>1 DEF Taken, SyncUnchanged
  <2>2. mgr.op \in {"select", "deselect"} =>
          \A g \in Folders : g # mgr.folder => rows'[g].target \notin mgr.targets
    <3>1. ASSUME mgr.op \in {"select", "deselect"}, NEW g \in Folders, g # mgr.folder
          PROVE  rows'[g].target \notin mgr.targets
      <4>1. CASE g = f
        BY <1>1, <4>1
      <4>2. CASE g # f
        BY <1>0, <1>1, <3>1, <4>2 DEF Taken
      <4> QED BY <4>1, <4>2
    <3> QED BY <3>1
  <2>3. mgr.op = "deselect" /\ mgr.at \in {"told", "delete"} =>
          (Live(mgr.folder)' => rows'[mgr.folder].target \in mgr.targets)
    <3>1. ASSUME mgr.op = "deselect", mgr.at \in {"told", "delete"}, Live(mgr.folder)'
          PROVE  rows'[mgr.folder].target \in mgr.targets
      <4>1. mgr.folder # f /\ mgr.folder \in Folders
        BY <1>0, <1>f, <1>1, <3>1 DEF Alone, Shaped
      <4>2. rows'[mgr.folder] = rows[mgr.folder]
        BY <1>1, <4>1
      <4>3. Live(mgr.folder)
        BY <1>1, <3>1, <4>2 DEF Live, SyncUnchanged
      <4> QED BY <1>0, <3>1, <4>2, <4>3 DEF Taken
    <3> QED BY <3>1
  <2> QED BY <1>0, <1>1, <2>1, <2>2, <2>3 DEF Taken, SyncUnchanged, Live
<1> QED BY <1>2, <1>4, <1>5, <1>6, <1>7, <1>8 DEF Bound, SyncWell

(* A bound resource that is there is nobody's to delete.                     *)
LEMMA BoundBound ==
  ASSUME IInv, Typed, Bound, SyncBound
  PROVE  Bound' /\ FilesGoal
PROOF
<1>0. /\ Counted /\ Filed /\ Marked /\ FiledWell /\ Held /\ Alone /\ Taken
  BY DEF IInv, Bound, SyncWell
<1>1. /\ sync.at = "bind" /\ sync.target # NoTarget
      /\ sync' = IF sync.target \in Resources THEN [sync EXCEPT !.at = "push"] ELSE IdleSync
      /\ UNCHANGED <<rows, made, contents, queues, bindings, server>> /\ SyncUnchanged
  BY DEF SyncBound
<1>2. FiledWell' /\ Taken' /\ FilesGoal
  BY <1>0, <1>1, SyncCalm
<1>3. CASE sync.target \notin Resources
  BY <1>1, <1>2, <1>3, IdleWell DEF Bound
<1>4. CASE sync.target \in Resources
  <2>1. /\ sync'.at = "push" /\ sync'.folder = sync.folder /\ sync'.seen = sync.seen
        /\ sync'.target = sync.target
    BY <1>0, <1>1, <1>4, SyncFields
  <2>2. ~Lost /\ contents[sync.target] # NotBound
    BY <1>4 DEF Resources, Lost
  <2>3. /\ rows[sync.folder] # NoRow /\ rows[sync.folder].target = sync.target
        /\ rows[sync.folder].session = sync.seen[sync.folder].session
        /\ sync.seen[sync.folder] # NoRow /\ sync.target \in 0..made
        /\ sync.folder \in Folders
    BY <1>0, <1>1, <2>2 DEF Held, Counted
  <2>4. SeenRight'
    BY <2>1 DEF SeenRight
  <2>5. Held'
    BY <1>1, <2>1, <2>3 DEF Held, Late
  <2>6. Alone'
    BY <1>0, <1>1, <2>1, <2>2 DEF Alone, SyncUnchanged
  <2>7. BoundOk'
    <3>1. sync.target \notin doomed
      BY <1>0, <1>1, <2>3 DEF Taken, Named
    <3>2. sync.target \notin mgr.targets
      <4>1. CASE mgr.at = "idle"
        BY <1>0, <4>1 DEF Taken
      <4>2. CASE mgr.at # "idle"
        <5>1. mgr.op \in {"select", "deselect"} /\ mgr.folder # sync.folder
          BY <1>0, <1>1, <4>2 DEF Alone
        <5> QED BY <1>0, <2>3, <5>1 DEF Taken
      <4> QED BY <4>1, <4>2
    <3> QED BY <1>1, <2>1, <2>2, <3>1, <3>2 DEF BoundOk, Late, SyncUnchanged
  <2> QED BY <1>2, <2>4, <2>5, <2>6, <2>7 DEF Bound, SyncWell
<1> QED BY <1>3, <1>4

(* What a sync that has bound its folder can count on.                       *)
LEMMA LateFacts ==
  ASSUME Counted, FiledWell, SyncWell, Late,
         NEW f, f = sync.folder, NEW t, t = sync.target, NEW s, s = sync.seen[f].session
  PROVE  /\ f \in Folders /\ t \in Targets /\ s \in Sessions
         /\ rows[f] # NoRow /\ rows[f].target = t /\ rows[f].session = s
         /\ contents[t] # NotBound /\ Live(f) /\ ~Deselecting(f)
         /\ \A u \in Targets : Says(u, s) => u = t
         /\ \A r \in reports : ~(r.at = "clear" /\ r.folder = f)
PROOF
<1>0. Held /\ Alone /\ BoundOk /\ OwnTarget
  BY DEF FiledWell, SyncWell
<1>1. sync.at # "idle" /\ ~Lost
  BY DEF Late, Lost, Early
<1>2. /\ f \in Folders /\ rows[f] # NoRow /\ rows[f].target = t /\ rows[f].session = s
  BY <1>0, HeldRow DEF Counted
<1>3. t # NoTarget /\ contents[t] # NotBound
  BY <1>0 DEF BoundOk
<1>4. t \in Targets /\ s \in Sessions
  BY <1>2, <1>3, TargetFacts
<1>5. ~Deselecting(f)
  BY <1>0, <1>1 DEF Alone, Deselecting
<1>6. \A u \in Targets : Says(u, s) => u = t
  BY <1>0, <1>2, <1>5 DEF OwnTarget
<1>7. \A r \in reports : ~(r.at = "clear" /\ r.folder = f)
  BY <1>0, <1>1 DEF Alone
<1>8. Live(f)
  BY <1>2, <1>3 DEF Live
<1> QED BY <1>2, <1>3, <1>4, <1>5, <1>6, <1>7, <1>8

LEMMA LateOn ==
  ASSUME Counted, FiledWell, SyncWell, Late, NEW b \in {"push", "settle", "failed"}, sync'.at = b,
         sync'.folder = sync.folder, sync'.seen = sync.seen, sync'.target = sync.target,
         UNCHANGED <<rows, made, contents>>, SyncUnchanged,
         b \in {"settle", "failed"} => sync'.item \in Items,
         b = "settle" =>
           server'[sync.folder][sync'.item] = contents[sync.target][sync'.item]
  PROVE  SyncWell'
PROOF
<1>0. Held /\ Alone /\ BoundOk
  BY DEF SyncWell
<1>1. sync.at # "idle" /\ ~Lost /\ sync.at # "updateFolder"
  BY DEF Late, Lost, Early
<1>2. SeenRight'
  BY DEF SeenRight
<1>3. Held'
  BY <1>0, <1>1 DEF Held, Late
<1>4. Alone'
  BY <1>0, <1>1 DEF Alone, SyncUnchanged
<1>5. BoundOk'
  <2>1. sync'.target # NoTarget /\ contents'[sync'.target] # NotBound
    BY <1>0 DEF BoundOk
  <2>2. sync'.target \notin doomed' \cup mgr'.targets
    BY <1>0 DEF BoundOk, SyncUnchanged
  <2> QED BY <2>1, <2>2 DEF BoundOk
<1> QED BY <1>2, <1>3, <1>4, <1>5 DEF SyncWell

(* A queued item of folder f is sent from resource t, or it is not.          *)
Sends(f, t, s) ==
  \E i \in Items :
    /\ Holds(queues[s], t, i)
    /\ \/ /\ server' = [server EXCEPT ![f][i] = contents[t][i]]
          /\ sync'.at = "settle"
       \/ UNCHANGED server /\ sync'.at = "failed"
    /\ sync'.folder = sync.folder /\ sync'.seen = sync.seen
    /\ sync'.target = sync.target /\ sync'.item = i

(* What is sent is what the resource holds, for a deletion is filed only of  *)
(* what is gone from it.                                                     *)
LEMMA SendFacts ==
  ASSUME IInv, Typed, Bound, SyncSend, NEW f, f = sync.folder, NEW t, t = sync.target,
         NEW s, s = sync.seen[f].session
  PROVE  Sends(f, t, s)
PROOF
<1>0. /\ Counted /\ FiledWell /\ SyncWell /\ QueuesTyped /\ OwnTarget /\ GoneRight
  BY DEF IInv, Typed, Bound, FiledWell
<1>1. sync.at = "push" /\ Pending # <<>> /\ Late
  BY DEF SyncSend, Late
<1>2. /\ f \in Folders /\ t \in Targets /\ s \in Sessions
      /\ contents[t] # NotBound /\ \A u \in Targets : Says(u, s) => u = t
  BY <1>0, <1>1, LateFacts
<1>3. PICK r : r = Pending[1]
  OBVIOUS
<1>4. r \in Range(queues[s]) /\ r \in Queued
  BY <1>0, <1>1, <1>2, <1>3, PendingFacts
<1>5. r.parent \in Targets /\ r.item \in Items
  BY <1>4 DEF Queued
<1>6. PICK i \in Items : i = r.item
  BY <1>5
<1>7. Holds(queues[s], r.parent, i)
  BY <1>4, <1>6 DEF Holds
<1>8. r.parent = t
  BY <1>2, <1>5, <1>6, <1>7 DEF Says
<1>9. r.status = "deleted_by_user" => contents[t][i] = "gone"
  <2>1. r.status = "deleted_by_user" => Struck(queues[s], t, i)
    BY <1>4, <1>6, <1>8 DEF Struck
  <2> QED BY <1>0, <1>2, <2>1 DEF GoneRight
<1> DEFINE now == IF Pending[1].status = "deleted_by_user" \/ contents[sync.target] = NotBound
                  THEN "gone" ELSE contents[sync.target][Pending[1].item]
<1>10. now = contents[t][i]
  BY <1>2, <1>3, <1>6, <1>9
<1> HIDE DEF now
<1>11. \/ /\ server' = [server EXCEPT ![sync.folder][Pending[1].item] = now]
          /\ sync' = [sync EXCEPT !.at = "settle", !.item = Pending[1].item,
                                  !.done = sync.done \cup {Pending[1].item}]
       \/ /\ UNCHANGED server
          /\ sync' = [sync EXCEPT !.at = "failed", !.item = Pending[1].item,
                                  !.done = sync.done \cup {Pending[1].item}]
  <2>1. sync = [at |-> sync.at, folder |-> sync.folder, seen |-> sync.seen,
             target |-> sync.target, item |-> sync.item, done |-> sync.done]
    BY <1>0 DEF Counted
  <2> QED BY <2>1 DEF SyncSend, now
<1>12. PICK d : d = sync.done \cup {i}
  OBVIOUS
<1>13. PICK n : n = contents[t][i]
  OBVIOUS
<1>14. \/ /\ server' = [server EXCEPT ![f][i] = n]
          /\ sync' = [sync EXCEPT !.at = "settle", !.item = i, !.done = d]
       \/ /\ UNCHANGED server
          /\ sync' = [sync EXCEPT !.at = "failed", !.item = i, !.done = d]
  BY <1>3, <1>6, <1>10, <1>11, <1>12, <1>13
<1>15. /\ sync'.folder = sync.folder /\ sync'.seen = sync.seen
       /\ sync'.target = sync.target /\ sync'.item = i
       /\ \/ server' = [server EXCEPT ![f][i] = n] /\ sync'.at = "settle"
          \/ UNCHANGED server /\ sync'.at = "failed"
  <2>1. ASSUME NEW b, sync' = [sync EXCEPT !.at = b, !.item = i, !.done = d]
        PROVE  /\ sync'.at = b /\ sync'.folder = sync.folder /\ sync'.seen = sync.seen
               /\ sync'.target = sync.target /\ sync'.item = i
    BY <1>0, <2>1, SyncFields
  <2> QED BY <1>14, <2>1
<1> QED BY <1>7, <1>8, <1>13, <1>15 DEF Sends

LEMMA SendBound ==
  ASSUME IInv, Typed, Bound, SyncSend
  PROVE  Bound'
PROOF
<1>f. PICK f : f = sync.folder
  OBVIOUS
<1>t. PICK t : t = sync.target
  OBVIOUS
<1>s. PICK s : s = sync.seen[f].session
  OBVIOUS
<1>0. /\ Counted /\ Filed /\ Marked /\ FiledWell /\ SyncWell /\ Taken /\ CopiesTyped
  BY DEF IInv, Typed, Bound
<1>1. /\ UNCHANGED <<rows, made, contents, queues, bindings>> /\ SyncUnchanged /\ Late
  BY DEF SyncSend, Late
<1>2. f \in Folders
  BY <1>0, <1>f DEF Counted
<1>3. PICK i \in Items :
        /\ Holds(queues[s], t, i)
        /\ \/ /\ server' = [server EXCEPT ![f][i] = contents[t][i]]
              /\ sync'.at = "settle"
           \/ UNCHANGED server /\ sync'.at = "failed"
        /\ sync'.folder = sync.folder /\ sync'.seen = sync.seen
        /\ sync'.target = sync.target /\ sync'.item = i
  <2>1. Sends(f, t, s)
    BY <1>f, <1>t, <1>s, SendFacts
  <2> QED BY <2>1 DEF Sends
<1>4. sync'.at = "settle" => server'[f][i] = contents[t][i]
  <2>1. PICK n : n = contents[t][i]
    OBVIOUS
  <2>2. server \in [Folders -> [Items -> Versions]]
    BY <1>0 DEF CopiesTyped
  <2>3. PICK c : c = [server[f] EXCEPT ![i] = n]
    OBVIOUS
  <2>4. c[i] = n
    BY <1>2, <2>2, <2>3
  <2>5. sync'.at = "settle" => server' = [server EXCEPT ![f] = c]
    BY <1>3, <2>1, <2>3
  <2> QED BY <1>2, <2>1, <2>2, <2>4, <2>5
<1>5. FiledWell' /\ Taken'
  BY <1>0, <1>1, SyncCalm
<1>6. SyncWell'
  BY <1>0, <1>1, <1>3, <1>4, <1>f, <1>t, LateOn
<1> QED BY <1>5, <1>6 DEF Bound

(* A row is taken out of the queue, or its item is left for the next sync.   *)
LEMMA SettleFacts ==
  ASSUME Counted, Shaped, QueuesTyped, FiledWell, SyncWell, SyncSettle,
         NEW f, f = sync.folder, NEW t, t = sync.target,
         NEW s, s = sync.seen[f].session, NEW i, i = sync.item
  PROVE  /\ i \in Items /\ Late /\ sync'.at = "push"
         /\ \A z \in Sessions : z # s => queues'[z] = queues[z]
         /\ Range(queues'[s]) \subseteq Range(queues[s])
         /\ \A u, j : Holds(queues'[s], u, j) <=>
              Holds(queues[s], u, j) /\ ~(sync.at = "settle" /\ u = t /\ j = i)
PROOF
<1>1. /\ sync.at \in {"settle", "failed"} /\ Late
      /\ sync' = [sync EXCEPT !.at = "push"]
  BY DEF SyncSettle, Late
<1>2. f \in Folders /\ t \in Targets /\ s \in Sessions
  BY <1>1, LateFacts
<1>3. i \in Items /\ BY_USER \in {BY_USER, FOR_SENDMAIL}
  BY <1>1 DEF SyncWell, BoundOk
<1>4. PICK q : q = IF sync.at = "settle" THEN removeEntryUpdater(queues[s], Id(t, i))
                   ELSE moveToTailUpdater(queues[s], {Id(t, i)})
  OBVIOUS
<1>5. queues' = [queues EXCEPT ![s] = q]
  <2>1. queues' = [queues EXCEPT ![s] = IF sync.at = "settle" THEN removeEntryUpdater(@, Id(t, i))
                                        ELSE moveToTailUpdater(@, {Id(t, i)})]
    BY DEF SyncSettle
  <2> QED BY <1>2, <1>4, <2>1 DEF Shaped
<1>6. queues'[s] = q /\ \A z \in Sessions : z # s => queues'[z] = queues[z]
  BY <1>2, <1>5 DEF Shaped
<1>7. queues[s] \in Seq(Queued)
  BY <1>2 DEF QueuesTyped
<1>8. CASE sync.at = "settle"
  <2>1. q = Drop(queues[s], Id(t, i), BY_USER)
    BY <1>4, <1>8 DEF removeEntryUpdater
  <2>2. /\ Range(q) \subseteq Range(queues[s])
        /\ \A u, j : Holds(q, u, j) <=>
             Holds(queues[s], u, j) /\ ~(BY_USER = BY_USER /\ u = t /\ j = i)
    BY <1>2, <1>3, <1>7, <2>1, DropFacts
  <2> QED BY <1>1, <1>3, <1>6, <1>8, <2>2, SyncFields
<1>9. CASE sync.at = "failed"
  <2>1. q = moveToTailUpdater(queues[s], {Id(t, i)})
    BY <1>4, <1>9
  <2>2. /\ Range(q) \subseteq Range(queues[s])
        /\ \A u, j : Holds(q, u, j) <=> Holds(queues[s], u, j)
    BY <1>7, <2>1, TailFacts
  <2> QED BY <1>1, <1>3, <1>6, <1>9, <2>2, SyncFields
<1> QED BY <1>1, <1>8, <1>9

LEMMA SettleBound ==
  ASSUME IInv, Typed, Bound, SyncSettle
  PROVE  Bound'
PROOF
<1>f. PICK f : f = sync.folder
  OBVIOUS
<1>s. PICK s : s = sync.seen[f].session
  OBVIOUS
<1>0. /\ Counted /\ Shaped /\ Filed /\ Marked /\ FiledWell /\ SyncWell /\ Taken /\ QueuesTyped
      /\ Known /\ GoneRight
  BY DEF IInv, Typed, Bound, FiledWell
<1>1. /\ UNCHANGED <<rows, made, contents, bindings, server>> /\ SyncUnchanged
      /\ sync' = [sync EXCEPT !.at = "push"]
  BY DEF SyncSettle
<1>2. /\ Late /\ \A z \in Sessions : z # s => queues'[z] = queues[z]
      /\ Range(queues'[s]) \subseteq Range(queues[s])
  BY <1>0, <1>f, <1>s, SettleFacts
<1>3. \A z \in Sessions : Range(queues'[z]) \subseteq Range(queues[z])
  BY <1>2
<1>4. SaysLess
  BY <1>1, <1>3 DEF SaysLess, Says, Holds, SyncUnchanged
<1>5. FilesGoal
  <2>1. StillUnmade
    BY <1>1, <1>4 DEF StillUnmade, SaysLess, Unmade, SyncUnchanged
  <2>2. HooksNamed'
    BY <1>0, <1>1 DEF HooksNamed, Known, SyncUnchanged
  <2>3. GoneRight'
    BY <1>0, <1>1, <1>3 DEF GoneRight, Struck, SyncUnchanged
  <2> QED BY <1>1, <1>4, <2>1, <2>2, <2>3 DEF FilesGoal, ContentsFall
<1>6. FiledWell'
  <2>1. made' \in made..MaxTargets
    BY <1>0, <1>1, Bounds DEF Counted
  <2> QED BY <1>0, <1>1, <1>5, <2>1, SyncFiled
<1>7. SyncWell'
  BY <1>0, <1>1, <1>2, SyncFields, LateOn
<1>8. Taken'
  BY <1>0, <1>1, SyncTaken
<1> QED BY <1>6, <1>7, <1>8 DEF Bound

LEMMA EndBound ==
  ASSUME IInv, Bound, SyncEnd
  PROVE  Bound' /\ FilesGoal
PROOF
<1>0. /\ Counted /\ Filed /\ Marked /\ FiledWell /\ Taken
  BY DEF IInv, Bound
<1>1. /\ UNCHANGED <<rows, made, contents, queues, bindings, server>> /\ SyncUnchanged
      /\ sync' = IdleSync
  BY DEF SyncEnd
<1>2. FiledWell' /\ Taken' /\ FilesGoal
  BY <1>0, <1>1, SyncCalm
<1> QED BY <1>1, <1>2, IdleWell DEF Bound

-----------------------------------------------------------------------------
(* All together.                                                             *)

LEMMA BoundInit == Init => Bound
PROOF
<1> SUFFICES ASSUME Init PROVE Bound
  OBVIOUS
<1>0. Counted
  BY InitKeeps DEF IInv
<1>1. PICK first \in [Folders -> 1..Cardinality(Folders)] :
        /\ \A f, g \in Folders : first[f] = first[g] => f = g
        /\ rows = [f \in Folders |-> [NewRow(first[f]) EXCEPT !.selected = TRUE]]
  BY DEF Init
<1>2. ASSUME NEW f \in Folders
      PROVE  rows[f].target = NoTarget /\ rows[f].session = first[f]
  BY <1>1 DEF NewRow
<1>3. /\ sync = IdleSync /\ mgr = IdleMgr /\ push = IdlePush /\ hooks = {} /\ reports = {}
      /\ doomed = {} /\ made = 0
      /\ \A t \in Targets : bindings[t] = NoBinding /\ contents[t] = NotBound
      /\ \A s \in Sessions : queues[s] = <<>>
  BY DEF Init
<1>4. sync.at = "idle" /\ mgr.at = "idle" /\ mgr.op = "none" /\ mgr.targets = {}
  BY <1>3 DEF IdleSync, IdleMgr
<1>5. \A f \in Folders : ~Live(f)
  BY <1>2 DEF Live
<1>6. \A t \in Targets, s \in Sessions : ~Says(t, s)
  <2>1. NoBinding.session = 0 /\ Range(<<>>) = {}
    BY DEF NoBinding, Range
  <2> QED BY <1>3, <2>1, Bounds DEF Says, Holds
<1>7. Apart
  BY <1>1, <1>2 DEF Apart
<1>8. OwnSession /\ OwnTarget
  <2>1. \A f \in Folders : rows[f] # NoRow => rows[f].session \in Sessions
    BY <1>0, TargetFacts
  <2> QED BY <1>5, <1>6, <2>1 DEF OwnSession, OwnTarget
<1>9. Known
  BY <1>2, <1>3, <1>6 DEF Known, Unmade
<1>10. GoneRight
  BY <1>3 DEF GoneRight
<1>11. SyncWell
  BY <1>4 DEF SyncWell, SeenRight, Held, Alone, BoundOk, Late
<1>12. Taken
  BY <1>3, <1>4 DEF Taken
<1> QED BY <1>7, <1>8, <1>9, <1>10, <1>11, <1>12 DEF Bound, FiledWell

LEMMA BoundNext ==
  ASSUME ~Overlap, IInv, Typed, Bound, [Next]_vars
  PROVE  Bound'
PROOF
<1>1. CASE HostStep
  BY <1>1, HostBound
<1>2. CASE RowStep
  BY <1>2, RowBound
<1>3. CASE SyncStep
  BY <1>3, StartBound, RememberBound, SweepBound, CreateBound, UpdateBound, BoundBound,
     SendBound, SettleBound, EndBound DEF SyncStep
<1>4. CASE UNCHANGED vars
  BY <1>4 DEF vars, Bound, FiledWell, SyncWell, Apart, OwnSession, OwnTarget, Known, GoneRight,
              SeenRight, Held, Alone, BoundOk, Taken, Live, Deselecting, Early, Late, Lost,
              Says, Unmade, Named
<1> QED BY <1>1, <1>2, <1>3, <1>4, Steps

LEMMA BoundInvariance ==
  ASSUME ~Overlap
  PROVE  Spec => [](IInv /\ Typed /\ Bound)
PROOF
<1>1. Init => Bound
  BY BoundInit
<1>2. (IInv /\ Typed) /\ Bound /\ [Next]_vars => Bound'
  BY BoundNext
<1> QED BY <1>1, <1>2, TypedInvariance, PTL DEF Spec

-----------------------------------------------------------------------------
(* Every step is a step of the ledger, or none.                              *)

(* Something of item i of resource t is filed under s, or on its way.        *)
OwedAt(t, s, i) ==
  Holds(queues[s], t, i) \/ \E h \in hooks : h.target = t /\ h.item = i

LEMMA LocalFacts ==
  ASSUME Counted, QueuesTyped, NEW f \in Folders
  PROVE  /\ LocalCopy(f) = IF Live(f) THEN contents[rows[f].target] ELSE NotBound
         /\ LocalCopy(f) # NotBound <=> Live(f)
         /\ ~Live(f) => OwedItems(f) = {}
         /\ Live(f) => OwedItems(f) = {i \in Items : OwedAt(rows[f].target, rows[f].session, i)}
PROOF
<1>1. NoRow.target = NoTarget /\ NoTarget \notin Targets
  BY RowFacts, Bounds
<1>2. Live(f) <=> ~(rows[f] = NoRow \/ rows[f].target \notin Resources)
  BY <1>1, TargetFacts DEF Live, Resources
<1>3. LocalCopy(f) = IF Live(f) THEN contents[rows[f].target] ELSE NotBound
  BY <1>2 DEF LocalCopy
<1>4. LocalCopy(f) # NotBound <=> Live(f)
  BY <1>3 DEF Live
<1>5. ~Live(f) => OwedItems(f) = {}
  BY <1>4 DEF OwedItems
<1>6. ASSUME Live(f)
      PROVE  OwedItems(f) = {i \in Items : OwedAt(rows[f].target, rows[f].session, i)}
  <2>1. PICK t \in Targets, s \in Sessions : t = rows[f].target /\ s = rows[f].session
    BY <1>6, TargetFacts
  <2>2. queues[s] \in Seq(Queued)
    BY DEF QueuesTyped
  <2>3. \A i \in Items : UserStatus(queues[s], Id(t, i)) # NoStatus <=> Holds(queues[s], t, i)
    BY <2>2, StatusFacts
  <2> QED BY <1>4, <1>6, <2>1, <2>3 DEF OwedItems, OwedAt
<1> QED BY <1>3, <1>4, <1>5, <1>6

(* The copy and the owed items of a folder that nothing of a step concerns.  *)
LEMMA FolderNext ==
  ASSUME Counted', QueuesTyped', NEW f \in Folders, NEW t \in Targets, NEW s \in Sessions,
         Live(f)', t = rows'[f].target, s = rows'[f].session
  PROVE  /\ LocalCopy(f)' = contents'[t]
         /\ OwedItems(f)' = {i \in Items : OwedAt(t, s, i)'}
PROOF
<1>1. /\ (LocalCopy(f) = IF Live(f) THEN contents[rows[f].target] ELSE NotBound)'
      /\ (Live(f) =>
            OwedItems(f) = {i \in Items : OwedAt(rows[f].target, rows[f].session, i)})'
  BY LocalFacts, PTL
<1> QED BY <1>1 DEF OwedAt

LEMMA FolderEnded ==
  ASSUME Counted', QueuesTyped', NEW f \in Folders, ~Live(f)'
  PROVE  LocalCopy(f)' = NotBound /\ OwedItems(f)' = {}
PROOF
<1>1. (LocalCopy(f) # NotBound <=> Live(f))' /\ (~Live(f) => OwedItems(f) = {})'
  BY LocalFacts, PTL
<1> QED BY <1>1

LEMMA FolderSame ==
  ASSUME Counted, Counted', QueuesTyped, QueuesTyped', NEW f \in Folders,
         rows'[f].target = rows[f].target, rows'[f].session = rows[f].session,
         \A t \in Targets, s \in Sessions :
           t = rows[f].target /\ s = rows[f].session =>
             /\ contents'[t] = contents[t]
             /\ \A i \in Items : OwedAt(t, s, i)' <=> OwedAt(t, s, i)
  PROVE  LocalCopy(f)' = LocalCopy(f) /\ OwedItems(f)' = OwedItems(f)
PROOF
<1>1. CASE rows[f].target = NoTarget
  <2>1. ~Live(f) /\ ~Live(f)'
    BY <1>1 DEF Live
  <2> QED BY <2>1, FolderEnded, LocalFacts
<1>2. CASE rows[f].target # NoTarget
  <2>1. PICK t \in Targets, s \in Sessions : t = rows[f].target /\ s = rows[f].session
    BY <1>2, TargetFacts
  <2>2. /\ contents'[t] = contents[t] /\ (Live(f)' <=> Live(f))
        /\ \A i \in Items : OwedAt(t, s, i)' <=> OwedAt(t, s, i)
    BY <1>2, <2>1 DEF Live
  <2>3. CASE ~Live(f)
    BY <2>2, <2>3, FolderEnded, LocalFacts
  <2>4. CASE Live(f)
    <3>1. LocalCopy(f) = contents[t] /\ OwedItems(f) = {i \in Items : OwedAt(t, s, i)}
      BY <2>1, <2>4, LocalFacts
    <3>2. LocalCopy(f)' = contents'[t] /\ OwedItems(f)' = {i \in Items : OwedAt(t, s, i)'}
      BY <2>1, <2>2, <2>4, FolderNext
    <3> QED BY <2>2, <3>1, <3>2
  <2> QED BY <2>3, <2>4
<1> QED BY <1>1, <1>2

LEMMA EndStep ==
  ASSUME UNCHANGED server,
         \A f \in Folders :
           \/ LocalCopy(f)' = NotBound /\ OwedItems(f)' = {}
           \/ LocalCopy(f)' = LocalCopy(f) /\ OwedItems(f)' = OwedItems(f)
  PROVE  Owed!Next
PROOF
<1>1. PICK fs : fs = {f \in Folders : LocalCopy(f)' = NotBound /\ OwedItems(f)' = {}}
  OBVIOUS
<1>2. fs \in SUBSET Folders
  BY <1>1
<1>3. [f \in Folders |-> LocalCopy(f)]' =
        [f \in Folders |-> IF f \in fs THEN NotBound ELSE [g \in Folders |-> LocalCopy(g)][f]]
  BY <1>1
<1>4. [f \in Folders |-> OwedItems(f)]' =
        [f \in Folders |-> IF f \in fs THEN {} ELSE [g \in Folders |-> OwedItems(g)][f]]
  BY <1>1
<1>5. Owed!End(fs)
  BY <1>3, <1>4 DEF Owed!End
<1> QED BY <1>2, <1>5 DEF Owed!Next

(* A step that leaves the bound resources and what is filed of them alone.   *)
LEMMA Steady ==
  ASSUME Counted, Counted', QueuesTyped, QueuesTyped', Marked, RowsTurn, ContentsFall,
         UNCHANGED server,
         \A f \in Folders, t \in Targets, s \in Sessions :
           Live(f) /\ t = rows[f].target /\ s = rows[f].session /\ contents'[t] # NotBound =>
             /\ contents'[t] = contents[t]
             /\ \A i \in Items : OwedAt(t, s, i)' <=> OwedAt(t, s, i)
  PROVE  Owed!Next
PROOF
<1>1. \A f \in Folders : ~Live(f)' => LocalCopy(f)' = NotBound /\ OwedItems(f)' = {}
  BY FolderEnded
<1>2. ASSUME NEW f \in Folders, Live(f)'
      PROVE  LocalCopy(f)' = LocalCopy(f) /\ OwedItems(f)' = OwedItems(f)
  <2>1. /\ Live(f) /\ rows'[f].target = rows[f].target /\ rows[f].target \in Targets
        /\ rows'[f].session = rows[f].session /\ rows[f] # NoRow
        /\ contents'[rows'[f].target] # NotBound
    BY <1>2, LiveWas DEF KeepsRow, Live
  <2> QED BY <2>1, FolderSame
<1> QED BY <1>1, <1>2, EndStep

(* The rows, resources, queues and events the ledger reads are left alone.   *)
LEMMA StillSteady ==
  ASSUME Counted, Counted', QueuesTyped, QueuesTyped', Marked, RowsTurn,
         UNCHANGED <<contents, queues, hooks, server>>
  PROVE  Owed!Next
PROOF
<1>1. ContentsFall
  BY DEF ContentsFall
<1>2. \A t \in Targets, s \in Sessions, i \in Items : OwedAt(t, s, i)' <=> OwedAt(t, s, i)
  BY DEF OwedAt
<1> QED BY <1>1, <1>2, Steady

LEMMA DeleteLedger ==
  ASSUME Counted, Counted', Shaped, QueuesTyped, QueuesTyped', Marked, RowsTurn, ContentsFall,
         NEW u \in Targets, Delete(u), UNCHANGED <<queues, server>>
  PROVE  Owed!Next
PROOF
<1>1. contents'[u] = NotBound /\ \A t \in Targets : t # u => contents'[t] = contents[t]
  BY DEF Delete, Shaped
<1>2. \A h : h.target # u => (h \in hooks' <=> h \in hooks)
  <2>1. CASE contents[u] = NotBound
    BY <2>1 DEF Delete
  <2>2. CASE contents[u] # NotBound
    <3>1. hooks' = hooks \cup {[at |-> "event", target |-> u, item |-> i,
                                op |-> "deleted", session |-> 0] :
                                  i \in {j \in Items : contents[u][j] # "gone"}}
      BY <2>2 DEF Delete
    <3> QED BY <3>1
  <2> QED BY <2>1, <2>2
<1>3. \A t \in Targets, s \in Sessions, i \in Items :
        t # u => (OwedAt(t, s, i)' <=> OwedAt(t, s, i))
  BY <1>2 DEF OwedAt
<1> QED BY <1>1, <1>3, Steady

LEMMA LookupLedger ==
  ASSUME Counted, Counted', Shaped, Known, QueuesTyped, QueuesTyped', Marked, RowsTurn,
         ContentsFall, NEW h \in hooks, lookupBinding(h)
  PROVE  Owed!Next
PROOF
<1> DEFINE g == [h EXCEPT !.at = "record", !.session = bindings[h.target].session]
<1>1. /\ UNCHANGED <<contents, queues, server>>
      /\ hooks' = (hooks \ {h}) \cup IF bindings[h.target] = NoBinding THEN {} ELSE {g}
  BY DEF lookupBinding
<1>2. g.target = h.target /\ g.item = h.item
  <2>1. PICK a, t, i, o, s :
          h = [at |-> a, target |-> t, item |-> i, op |-> o, session |-> s]
    BY DEF Shaped
  <2> QED BY <2>1
<1> HIDE DEF g
<1>3. NoBinding.session = 0
  BY DEF NoBinding
<1>4. ASSUME NEW f \in Folders, NEW t \in Targets, NEW s \in Sessions, Live(f),
             t = rows[f].target, NEW i \in Items
      PROVE  OwedAt(t, s, i)' <=> OwedAt(t, s, i)
  <2>1. bindings[t] # NoBinding
    BY <1>3, <1>4 DEF Known, Live
  <2>2. (\E k \in hooks' : k.target = t /\ k.item = i)
          <=> (\E k \in hooks : k.target = t /\ k.item = i)
    <3>1. CASE h.target = t
      <4>1. hooks' = (hooks \ {h}) \cup {g}
        BY <1>1, <2>1, <3>1
      <4> QED BY <1>2, <4>1
    <3>2. CASE h.target # t
      BY <1>1, <1>2, <3>2
    <3> QED BY <3>1, <3>2
  <2> QED BY <1>1, <2>2 DEF OwedAt
<1> QED BY <1>1, <1>4, Steady

(* An event is filed under the session its resource's row has.               *)
LEMMA RecordLedger ==
  ASSUME Counted, Counted', Shaped, Known, EventsTyped, QueuesTyped, QueuesTyped', Marked,
         OwnSession, RowsTurn, ContentsFall, NEW h \in hooks, record(h)
  PROVE  Owed!Next
PROOF
<1>0. HooksNamed
  BY DEF Known, HooksNamed
<1>1. /\ h.target \in Targets /\ h.item \in Items /\ h.session \in Sessions
      /\ hooks' = hooks \ {h} /\ UNCHANGED <<contents, bindings>>
      /\ \A s \in Sessions : s # h.session => queues'[s] = queues[s]
      /\ \A t, i : Holds(queues'[h.session], t, i) <=>
           Holds(queues[h.session], t, i) \/ (t = h.target /\ i = h.item)
  BY <1>0, RecordQueue
<1>2. UNCHANGED server
  BY DEF record
<1>3. ASSUME NEW f \in Folders, NEW t \in Targets, NEW s \in Sessions, Live(f),
             t = rows[f].target, s = rows[f].session, NEW i \in Items
      PROVE  OwedAt(t, s, i)' <=> OwedAt(t, s, i)
  <2>1. CASE h.target = t /\ h.item = i
    <3>1. Says(t, h.session)
      BY <2>1 DEF Says
    <3>2. h.session = s
      BY <1>1, <1>3, <3>1 DEF OwnSession
    <3>3. Holds(queues'[s], t, i)
      BY <1>1, <2>1, <3>2
    <3> QED BY <2>1, <3>3 DEF OwedAt
  <2>2. CASE ~(h.target = t /\ h.item = i)
    <3>1. (\E k \in hooks' : k.target = t /\ k.item = i)
            <=> (\E k \in hooks : k.target = t /\ k.item = i)
      BY <1>1, <2>2
    <3>2. Holds(queues'[s], t, i) <=> Holds(queues[s], t, i)
      <4>1. CASE s = h.session
        BY <1>1, <2>2, <4>1
      <4>2. CASE s # h.session
        BY <1>1, <4>2
      <4> QED BY <4>1, <4>2
    <3> QED BY <3>1, <3>2 DEF OwedAt
  <2> QED BY <2>1, <2>2
<1> QED BY <1>1, <1>2, <1>3, Steady

(* An edit of what a row names is an edit of the ledger's.                   *)
LEMMA EditLedger ==
  ASSUME Counted, Counted', Shaped, CopiesTyped, QueuesTyped, QueuesTyped', Marked, Apart,
         RowsTurn, ContentsFall, NEW u \in Targets, NEW j \in Items, NEW v \in Versions,
         UserEdit(u, j, v), UNCHANGED rows
  PROVE  Owed!Next
PROOF
<1>1. /\ contents[u] # NotBound /\ contents[u][j] # v
      /\ contents' = [contents EXCEPT ![u] = [contents[u] EXCEPT ![j] = v]]
      /\ UNCHANGED <<queues, server>>
  BY DEF UserEdit, Resources, Shaped
<1>2. PICK c : c = [contents[u] EXCEPT ![j] = v]
  OBVIOUS
<1>3. contents'[u] = c /\ \A t \in Targets : t # u => contents'[t] = contents[t]
  BY <1>1, <1>2 DEF Shaped
<1>4. c # NotBound
  <2>1. contents[u] \in [Items -> Versions]
    BY <1>1 DEF CopiesTyped, Copies
  <2>2. c \in [Items -> Versions]
    BY <1>2, <2>1
  <2> QED BY <2>2, NotEmpty
<1> DEFINE e == [at |-> "event", target |-> u, item |-> j, session |-> 0,
                 op |-> IF v = "gone" THEN "deleted" ELSE "updated"]
<1>5. hooks' = hooks \cup {e} /\ e.target = u /\ e.item = j
  BY DEF UserEdit
<1> HIDE DEF e
<1>6. \A t \in Targets, s \in Sessions, i \in Items :
        OwedAt(t, s, i)' <=> OwedAt(t, s, i) \/ (t = u /\ i = j)
  BY <1>1, <1>5 DEF OwedAt
<1>7. CASE \A f \in Folders : rows[f].target # u
  BY <1>1, <1>3, <1>6, <1>7, Steady
<1>8. ASSUME NEW f \in Folders, rows[f].target = u PROVE Owed!Next
  <2>1. Live(f) /\ Live(f)' /\ u \in Targets
    BY <1>1, <1>3, <1>4, <1>8, Bounds DEF Live
  <2>2. PICK s \in Sessions : s = rows[f].session
    BY <2>1, TargetFacts
  <2>3. LocalCopy(f) = contents[u] /\ OwedItems(f) = {i \in Items : OwedAt(u, s, i)}
    BY <1>8, <2>1, <2>2, LocalFacts
  <2>4. LocalCopy(f)' = c /\ OwedItems(f)' = OwedItems(f) \cup {j}
    <3>1. LocalCopy(f)' = contents'[u] /\ OwedItems(f)' = {i \in Items : OwedAt(u, s, i)'}
      BY <1>8, <2>1, <2>2, FolderNext
    <3>2. {i \in Items : OwedAt(u, s, i)'} = {i \in Items : OwedAt(u, s, i)} \cup {j}
      BY <1>6
    <3> QED BY <1>3, <2>3, <3>1, <3>2
  <2>5. ASSUME NEW g \in Folders, g # f
        PROVE  LocalCopy(g)' = LocalCopy(g) /\ OwedItems(g)' = OwedItems(g)
    <3>1. rows[g].target # u
      BY <1>8, <2>1, <2>5 DEF Apart, Live
    <3> QED BY <1>3, <1>6, <3>1, FolderSame
  <2>6. Owed!Edit(f, j, v)
    <3>1. LocalCopy(f) # NotBound /\ LocalCopy(f)[j] # v
      BY <1>1, <2>3
    <3>2. LocalCopy(f)' = [LocalCopy(f) EXCEPT ![j] = v]
      BY <1>2, <2>3, <2>4
    <3>3. [g \in Folders |-> LocalCopy(g)]' =
            [[g \in Folders |-> LocalCopy(g)] EXCEPT ![f] = LocalCopy(f)']
      BY <2>5
    <3>4. [g \in Folders |-> OwedItems(g)]' =
            [[g \in Folders |-> OwedItems(g)] EXCEPT ![f] = OwedItems(f) \cup {j}]
      BY <2>4, <2>5
    <3> QED BY <1>1, <3>1, <3>2, <3>3, <3>4 DEF Owed!Edit
  <2> QED BY <2>6 DEF Owed!Next
<1> QED BY <1>7, <1>8

(* A sweep empties only queues no row names.                                 *)
LEMMA SweepLedger ==
  ASSUME IInv, IInv', Typed, Typed', sweep
  PROVE  Owed!Next
PROOF
<1>0. Counted /\ Counted' /\ Filed /\ QueuesTyped /\ QueuesTyped'
  BY DEF IInv, Typed
<1>1. UNCHANGED <<rows, contents, hooks, server>> /\ Reading
  BY DEF sweep, SyncUnchanged, Reading
<1>2. ASSUME NEW f \in Folders, NEW t \in Targets, NEW s \in Sessions, t = rows[f].target,
             s = rows[f].session
      PROVE  contents'[t] = contents[t] /\ \A i \in Items : OwedAt(t, s, i)' <=> OwedAt(t, s, i)
  <2>1. rows[f] # NoRow
    BY <1>0, <1>2, Bounds, TargetFacts
  <2>2. queues'[s] = IF s \in SessionsOf(sync.seen) THEN queues[s] ELSE <<>>
    BY DEF sweep, Claimed
  <2>3. s \in SessionsOf(sync.seen) \/ queues[s] = <<>>
    BY <1>0, <1>1, <1>2, <2>1 DEF Filed, Unfiled
  <2>4. queues'[s] = queues[s]
    BY <2>2, <2>3
  <2> QED BY <1>1, <2>4 DEF OwedAt
<1>3. \A f \in Folders : LocalCopy(f)' = LocalCopy(f) /\ OwedItems(f)' = OwedItems(f)
  BY <1>0, <1>1, <1>2, FolderSame
<1> QED BY <1>1, <1>3, EndStep

(* No row names the resource a sync makes.                                   *)
LEMMA CreateLedger ==
  ASSUME IInv, IInv', Typed, Typed', SyncCreate
  PROVE  Owed!Next
PROOF
<1>0. /\ Counted /\ Counted' /\ Shaped /\ Marked /\ CopiesTyped
      /\ QueuesTyped /\ QueuesTyped'
  BY DEF IInv, Typed
<1>1. /\ UNCHANGED <<rows, queues, hooks, server>>
      /\ \A t \in Targets : t # made + 1 => contents'[t] = contents[t]
  BY <1>0, CreateFacts DEF SyncUnchanged
<1>2. ASSUME NEW f \in Folders, NEW t \in Targets, NEW s \in Sessions, t = rows[f].target,
             s = rows[f].session
      PROVE  contents'[t] = contents[t] /\ \A i \in Items : OwedAt(t, s, i)' <=> OwedAt(t, s, i)
  <2>1. t # made + 1
    BY <1>0, <1>2, Bounds DEF Marked, Counted
  <2> QED BY <1>1, <2>1 DEF OwedAt
<1>3. \A f \in Folders : LocalCopy(f)' = LocalCopy(f) /\ OwedItems(f)' = OwedItems(f)
  BY <1>0, <1>1, <1>2, FolderSame
<1> QED BY <1>1, <1>3, EndStep

(* A folder is bound to a fresh copy of what the server has.                 *)
LEMMA BindLedger ==
  ASSUME IInv, IInv', Typed, Typed', Bound, SyncUpdateFolder
  PROVE  Owed!Next
PROOF
<1>0. /\ Counted /\ Counted' /\ Shaped /\ Held /\ Alone /\ BoundOk
      /\ QueuesTyped /\ QueuesTyped'
  BY DEF IInv, Typed, Bound, SyncWell
<1>1. PICK f, u : f = sync.folder /\ u = sync.target
  OBVIOUS
<1>2. /\ f \in Folders /\ u \in Targets /\ rows[f].target = NoTarget
      /\ rows[f].session \in Sessions
      /\ rows'[f].target = u /\ rows'[f].session = rows[f].session
      /\ \A g \in Folders : g # f => rows'[g] = rows[g]
      /\ Unmade(u) /\ contents[u] # NotBound /\ u # NoTarget
      /\ UNCHANGED <<contents, queues, server, hooks>>
  BY <1>0, <1>1, UpdateFacts DEF SyncUnchanged
<1>3. contents[u] = server[f]
  BY <1>0, <1>1 DEF BoundOk, SyncUpdateFolder
<1>4. ASSUME NEW g \in Folders, g # f
      PROVE  LocalCopy(g)' = LocalCopy(g) /\ OwedItems(g)' = OwedItems(g)
  <2>1. \A t \in Targets, s \in Sessions, i \in Items : OwedAt(t, s, i)' <=> OwedAt(t, s, i)
    BY <1>2 DEF OwedAt
  <2> QED BY <1>0, <1>2, <1>4, <2>1, FolderSame
<1>5. LocalCopy(f) = NotBound /\ OwedItems(f) = {}
  <2>1. ~Live(f)
    BY <1>2 DEF Live
  <2> QED BY <1>0, <1>2, <2>1, LocalFacts
<1>6. LocalCopy(f)' = server[f] /\ OwedItems(f)' = {}
  <2>1. PICK s \in Sessions : s = rows[f].session
    BY <1>2
  <2>2. Live(f)'
    BY <1>2 DEF Live
  <2>3. LocalCopy(f)' = contents'[u] /\ OwedItems(f)' = {i \in Items : OwedAt(u, s, i)'}
    BY <1>0, <1>2, <2>1, <2>2, FolderNext
  <2>4. ASSUME NEW i \in Items PROVE ~OwedAt(u, s, i)'
    BY <1>2 DEF OwedAt, Unmade, Says
  <2> QED BY <1>2, <1>3, <2>3, <2>4
<1>7. Owed!Bind(f)
  <2>1. [g \in Folders |-> LocalCopy(g)]' =
          [[g \in Folders |-> LocalCopy(g)] EXCEPT ![f] = server[f]]
    BY <1>2, <1>4, <1>6
  <2>2. [g \in Folders |-> OwedItems(g)]' = [g \in Folders |-> OwedItems(g)]
    BY <1>4, <1>5, <1>6
  <2>3. [g \in Folders |-> LocalCopy(g)][f] = NotBound
    BY <1>2, <1>5
  <2> QED BY <1>2, <2>1, <2>2, <2>3 DEF Owed!Bind
<1> QED BY <1>2, <1>7 DEF Owed!Next

(* What is sent is owed, and is what the copy holds.                         *)
LEMMA SendLedger ==
  ASSUME IInv, IInv', Typed, Typed', Bound, SyncSend
  PROVE  Owed!Next
PROOF
<1>0. /\ Counted /\ Counted' /\ Filed /\ Marked /\ FiledWell /\ SyncWell /\ Late
      /\ QueuesTyped /\ QueuesTyped'
  BY DEF IInv, Typed, Bound, Late, SyncSend
<1>1. PICK f, t : f = sync.folder /\ t = sync.target
  OBVIOUS
<1>2. PICK s : s = sync.seen[f].session
  OBVIOUS
<1>3. /\ f \in Folders /\ t \in Targets /\ s \in Sessions
      /\ rows[f].target = t /\ rows[f].session = s /\ Live(f)
  BY <1>0, <1>1, <1>2, LateFacts
<1>4. Sends(f, t, s)
  BY <1>1, <1>2, SendFacts
<1>5. UNCHANGED <<rows, contents, queues, hooks>>
  BY DEF SyncSend, SyncUnchanged
<1>6. \A g \in Folders : LocalCopy(g)' = LocalCopy(g) /\ OwedItems(g)' = OwedItems(g)
  <2>1. \A u \in Targets, z \in Sessions, i \in Items : OwedAt(u, z, i)' <=> OwedAt(u, z, i)
    BY <1>5 DEF OwedAt
  <2> QED BY <1>0, <1>5, <2>1, FolderSame
<1>7. PICK i \in Items :
        /\ Holds(queues[s], t, i)
        /\ server' = [server EXCEPT ![f][i] = contents[t][i]] \/ UNCHANGED server
  BY <1>4 DEF Sends
<1>8. CASE UNCHANGED server
  BY <1>6, <1>8, EndStep
<1>9. CASE server' = [server EXCEPT ![f][i] = contents[t][i]]
  <2>1. LocalCopy(f) = contents[t] /\ i \in OwedItems(f)
    BY <1>0, <1>3, <1>7, LocalFacts DEF OwedAt
  <2>2. /\ [g \in Folders |-> LocalCopy(g)]' = [g \in Folders |-> LocalCopy(g)]
        /\ [g \in Folders |-> OwedItems(g)]' = [g \in Folders |-> OwedItems(g)]
    BY <1>6
  <2>3. /\ [g \in Folders |-> LocalCopy(g)][f] = contents[t]
        /\ i \in [g \in Folders |-> OwedItems(g)][f]
    BY <1>3, <2>1
  <2>4. Owed!Push(f, i)
    BY <1>9, <2>2, <2>3 DEF Owed!Push
  <2> QED BY <1>3, <2>4 DEF Owed!Next
<1> QED BY <1>7, <1>8, <1>9

(* What is settled is what the server has; an event on its way keeps it owed.*)
LEMMA SettleLedger ==
  ASSUME IInv, IInv', Typed, Typed', Bound, SyncSettle
  PROVE  Owed!Next
PROOF
<1>0. /\ Counted /\ Counted' /\ Shaped /\ Filed /\ Marked /\ FiledWell /\ SyncWell /\ Late
      /\ Apart /\ BoundOk /\ QueuesTyped /\ QueuesTyped'
  BY DEF IInv, Typed, Bound, FiledWell, SyncWell, Late, SyncSettle
<1>1. PICK f, t, i : f = sync.folder /\ t = sync.target /\ i = sync.item
  OBVIOUS
<1>2. PICK s : s = sync.seen[f].session
  OBVIOUS
<1>3. /\ f \in Folders /\ t \in Targets /\ s \in Sessions
      /\ rows[f] # NoRow /\ rows[f].target = t /\ rows[f].session = s /\ Live(f)
  BY <1>0, <1>1, <1>2, LateFacts
<1>4. /\ i \in Items
      /\ \A z \in Sessions : z # s => queues'[z] = queues[z]
      /\ \A u, j : Holds(queues'[s], u, j) <=>
           Holds(queues[s], u, j) /\ ~(sync.at = "settle" /\ u = t /\ j = i)
  BY <1>0, <1>1, <1>2, SettleFacts
<1>5. UNCHANGED <<rows, contents, hooks, server>>
  BY DEF SyncSettle, SyncUnchanged
<1>6. ASSUME NEW g \in Folders, g # f
      PROVE  LocalCopy(g)' = LocalCopy(g) /\ OwedItems(g)' = OwedItems(g)
  <2>1. rows[g].session # s
    BY <1>0, <1>3, <1>6 DEF Apart
  <2>2. \A u \in Targets, z \in Sessions, j \in Items :
          z # s => (OwedAt(u, z, j)' <=> OwedAt(u, z, j))
    BY <1>4, <1>5 DEF OwedAt
  <2> QED BY <1>0, <1>5, <2>1, <2>2, FolderSame
<1>7. LocalCopy(f) = contents[t] /\ OwedItems(f) = {j \in Items : OwedAt(t, s, j)}
  BY <1>0, <1>3, LocalFacts
<1>8. LocalCopy(f)' = contents[t] /\ OwedItems(f)' = {j \in Items : OwedAt(t, s, j)'}
  <2>1. Live(f)' /\ rows'[f].target = t /\ rows'[f].session = s /\ contents'[t] = contents[t]
    BY <1>3, <1>5 DEF Live
  <2> QED BY <1>0, <1>3, <2>1, FolderNext
<1>9. CASE \A j \in Items : OwedAt(t, s, j)' <=> OwedAt(t, s, j)
  <2>1. OwedItems(f)' = OwedItems(f)
    BY <1>7, <1>8, <1>9
  <2>2. \A g \in Folders : LocalCopy(g)' = LocalCopy(g) /\ OwedItems(g)' = OwedItems(g)
    BY <1>6, <1>7, <1>8, <2>1
  <2> QED BY <1>5, <2>2, EndStep
<1>10. CASE \E j \in Items : ~(OwedAt(t, s, j)' <=> OwedAt(t, s, j))
  <2>1. sync.at = "settle" /\ OwedAt(t, s, i) /\ ~OwedAt(t, s, i)'
    BY <1>4, <1>5, <1>10 DEF OwedAt
  <2>2. \A j \in Items : j # i => (OwedAt(t, s, j)' <=> OwedAt(t, s, j))
    BY <1>4, <1>5 DEF OwedAt
  <2>3. i \in OwedItems(f) /\ OwedItems(f)' = OwedItems(f) \ {i}
    BY <1>4, <1>7, <1>8, <2>1, <2>2
  <2>4. server[f][i] = contents[t][i]
    BY <1>0, <1>1, <2>1 DEF BoundOk
  <2>5. Owed!Settle(f, i)
    <3>1. [g \in Folders |-> LocalCopy(g)]' = [g \in Folders |-> LocalCopy(g)]
      BY <1>6, <1>7, <1>8
    <3>2. [g \in Folders |-> OwedItems(g)]' =
            [[g \in Folders |-> OwedItems(g)] EXCEPT ![f] = OwedItems(f) \ {i}]
      BY <1>6, <2>3
    <3>3. /\ [g \in Folders |-> LocalCopy(g)][f] = contents[t]
          /\ [g \in Folders |-> OwedItems(g)][f] = OwedItems(f)
      BY <1>3, <1>7
    <3> QED BY <1>5, <2>3, <2>4, <3>1, <3>2, <3>3 DEF Owed!Settle
  <2> QED BY <1>3, <1>4, <2>5 DEF Owed!Next
<1> QED BY <1>9, <1>10

(* The steps of a sync that touch neither resources nor queues.              *)
LEMMA ReadLedger ==
  ASSUME IInv, IInv', Typed, Typed', UNCHANGED <<rows, contents, queues, hooks, server>>
  PROVE  Owed!Next
PROOF
<1>0. Counted /\ Counted' /\ QueuesTyped /\ QueuesTyped'
  BY DEF IInv, Typed
<1>1. \A t \in Targets, s \in Sessions, i \in Items : OwedAt(t, s, i)' <=> OwedAt(t, s, i)
  BY DEF OwedAt
<1>2. \A f \in Folders : LocalCopy(f)' = LocalCopy(f) /\ OwedItems(f)' = OwedItems(f)
  BY <1>0, <1>1, FolderSame
<1> QED BY <1>2, EndStep

LEMMA SyncLedger ==
  ASSUME IInv, IInv', Typed, Typed', Bound, SyncStep
  PROVE  Owed!Next
PROOF
<1>1. CASE sweep \/ SyncCreate \/ SyncUpdateFolder \/ SyncSend \/ SyncSettle
  BY <1>1, SweepLedger, CreateLedger, BindLedger, SendLedger, SettleLedger
<1>2. CASE ~(sweep \/ SyncCreate \/ SyncUpdateFolder \/ SyncSend \/ SyncSettle)
  <2>1. UNCHANGED <<rows, contents, queues, hooks, server>>
    BY <1>2 DEF SyncStep, SyncStart, SyncRemember, SyncBound, SyncEnd, SyncUnchanged
  <2> QED BY <2>1, ReadLedger
<1> QED BY <1>1, <1>2

LEMMA HostLedger ==
  ASSUME ~Overlap, IInv, IInv', Typed, Typed', Bound, HostStep
  PROVE  Owed!Next
PROOF
<1>0. /\ Counted /\ Counted' /\ Shaped /\ Filed /\ Marked /\ CopiesTyped /\ EventsTyped
      /\ QueuesTyped /\ QueuesTyped' /\ Apart /\ OwnSession /\ Known
  BY DEF IInv, Typed, Bound, FiledWell
<1>1. ContentsFall /\ UNCHANGED <<rows, server>>
  BY HostBound DEF FilesGoal
<1>2. RowsTurn
  BY <1>0, HostTurns
<1>3. ASSUME NEW t \in Targets, DeleteDoomed(t) \/ UserDeletes(t) \/ deleteTargetsBestEffort(t)
      PROVE  Owed!Next
  <2>1. Delete(t) /\ UNCHANGED <<queues, server>>
    BY <1>3 DEF DeleteDoomed, UserDeletes, deleteTargetsBestEffort
  <2> QED BY <1>0, <1>1, <1>2, <2>1, DeleteLedger
<1>4. ASSUME NEW t \in Targets, NEW i \in Items, NEW v \in Versions, UserEdit(t, i, v)
      PROVE  Owed!Next
  BY <1>0, <1>1, <1>2, <1>4, EditLedger
<1>5. ASSUME NEW h \in hooks, lookupBinding(h)
      PROVE  Owed!Next
  BY <1>0, <1>1, <1>2, <1>5, LookupLedger
<1>6. ASSUME NEW h \in hooks, record(h)
      PROVE  Owed!Next
  BY <1>0, <1>1, <1>2, <1>6, RecordLedger
<1>7. CASE UNCHANGED <<contents, queues, hooks>>
  BY <1>1, <1>7, ReadLedger
<1>8. \/ UNCHANGED <<contents, queues, hooks>>
      \/ \E t \in Targets : DeleteDoomed(t) \/ UserDeletes(t) \/ deleteTargetsBestEffort(t)
      \/ \E t \in Targets, i \in Items, v \in Versions : UserEdit(t, i, v)
      \/ \E h \in hooks : lookupBinding(h) \/ record(h)
  BY DEF HostStep, PushFolderList, LoseReport, selectFolder, Teardown, Connect
<1> QED BY <1>3, <1>4, <1>5, <1>6, <1>7, <1>8

LEMMA RowLedger ==
  ASSUME IInv, IInv', Typed, Typed', Bound, RowStep
  PROVE  Owed!Next
PROOF
<1>0. Counted /\ Counted' /\ Marked /\ QueuesTyped /\ QueuesTyped'
  BY DEF IInv, Typed
<1>1. RowsTurn /\ UNCHANGED <<contents, queues, hooks, server>>
  BY RowBound
<1> QED BY <1>0, <1>1, StillSteady

LEMMA LedgerStep ==
  ASSUME ~Overlap, IInv, IInv', Typed, Typed', Bound, [Next]_vars
  PROVE  [Owed!Next]_(Owed!vars)
PROOF
<1>1. CASE HostStep
  BY <1>1, HostLedger
<1>2. CASE RowStep
  BY <1>2, RowLedger
<1>3. CASE SyncStep
  BY <1>3, SyncLedger
<1>4. CASE UNCHANGED vars
  <2>1. UNCHANGED <<rows, contents, queues, hooks, server>>
    BY <1>4 DEF vars
  <2> QED BY <2>1, ReadLedger
<1> QED BY <1>1, <1>2, <1>3, <1>4, Steps

LEMMA LedgerInit == Init => Owed!Init
PROOF
<1> SUFFICES ASSUME Init PROVE Owed!Init
  OBVIOUS
<1>0. Counted /\ QueuesTyped
  BY InitKeeps, TypedInit DEF IInv, Typed
<1>1. ASSUME NEW f \in Folders PROVE LocalCopy(f) = NotBound /\ OwedItems(f) = {}
  <2>1. rows[f].target = NoTarget
    BY DEF Init, NewRow
  <2> QED BY <1>0, <2>1, LocalFacts DEF Live
<1>2. server \in [Folders -> [Items -> Versions]]
  BY DEF Init, Versions
<1> QED BY <1>1, <1>2 DEF Owed!Init
(* No resource a folder row points at is marked as orphaned: the sync judges *)
(* by the rows it read at its start, but no row comes to point at a resource *)
(* afterwards that none of those rows pointed at.                            *)
THEOREM ResourcesUnmarked == Spec => []OrphansUnnamed
PROOF
<1>1. IInv => OrphansUnnamed
  BY DEF IInv, Marked, OrphansUnnamed, Named
<1> QED BY <1>1, Invariance, PTL

(* A sweep empties no queue under a session that a row names: a session that *)
(* was minted after the rows were read has no queue yet.                     *)
THEOREM QueuesKept == Spec => NamedQueuesKept
PROOF
<1> DEFINE Kept == \A f \in Folders :
                     (rows[f] # NoRow /\ sync.at = "sweep" /\ sync'.at = "bind")
                       => queues'[rows[f].session] = queues[rows[f].session]
<1>1. ASSUME IInv, Next, NEW f \in Folders, rows[f] # NoRow, sync.at = "sweep", sync'.at = "bind"
      PROVE  queues'[rows[f].session] = queues[rows[f].session]
  <2>1. rows[f].session \in Sessions
    BY <1>1 DEF IInv, Counted, Tables, RowSet
  <2>2. CASE sweep
    <3>1. queues'[rows[f].session] = IF rows[f].session \in SessionsOf(sync.seen)
                                     THEN queues[rows[f].session] ELSE <<>>
      BY <2>1, <2>2 DEF sweep, Claimed
    <3>2. \/ rows[f].session \in SessionsOf(sync.seen)
          \/ queues[rows[f].session] = <<>>
      BY <1>1 DEF IInv, Filed, Reading, Unfiled
    <3> QED BY <3>1, <3>2
  <2>3. CASE ~sweep
    <3>1. UNCHANGED sync \/ sync.at # "sweep"
      <4>1. HostStep \/ RowStep => UNCHANGED sync
        BY HostStepRows, RowStepRest
      <4>2. SyncStep => sync.at # "sweep"
        BY <2>3, <1>1 DEF SyncStep, SyncStart, SyncRemember, SyncCreate, SyncUpdateFolder,
                          SyncBound, SyncSend, SyncSettle, SyncEnd
      <4> QED BY <1>1, <4>1, <4>2, Steps
    <3> QED BY <1>1, <3>1
  <2> QED BY <2>2, <2>3
<1>2. IInv /\ [Next]_vars => [Kept]_vars
  BY <1>1
<1> QED BY <1>2, Invariance, PTL DEF Spec, NamedQueuesKept

(* A folder the server dropped and lists again comes back selected and as    *)
(* the user had restricted it: only a folder list brings a row back, and     *)
(* until then the cache holds what the row held.                             *)
THEOREM CustomisationRestored == Spec => CustomisationKept
PROOF
<1> DEFINE Kept == \A f \in Folders :
                     (gone[f] # NoRow /\ rows[f] = NoRow /\ rows'[f] # NoRow)
                       => rows'[f].selected /\ rows'[f].downloadOnly = gone[f].downloadOnly
<1>1. ASSUME IInv, Next, NEW f \in Folders, gone[f] # NoRow, rows[f] = NoRow, rows'[f] # NoRow
      PROVE  rows'[f].selected /\ rows'[f].downloadOnly = gone[f].downloadOnly
  <2>0. Counted /\ Shaped /\ Marked /\ Remembered
    BY <1>1 DEF IInv
  <2>1. RowsMove
    <3>1. HostStep => RowsMove
      BY <2>0, HostStepRows, RowsSame, MintedSame
    <3>2. RowStep => RowsMove
      BY <2>0, RowStepMoves
    <3>3. SyncStep => RowsMove
      BY <2>0, SyncStepMoves DEF SyncGoal
    <3> QED BY <1>1, <3>1, <3>2, <3>3, Steps
  <2>2. ReplaceFolders
    BY <1>1, <2>1 DEF RowsMove, RowMoves
  <2>3. PICK s \in Sessions : rows'[f] = Restored(f, s)
    <3>1. f \in push.listed
      BY <1>1, <2>0, <2>2, ReplacedRow
    <3> QED BY <1>1, <2>0, <2>2, <3>1, ReplacedRow, Zenon
  <2>4. cache[f] = Bag(gone[f]) /\ cache[f] # NoBag
    BY <1>1, <2>0 DEF Remembered, Bag, NoBag
  <2>5. gone[f].downloadOnly \in BOOLEAN
    BY <1>1, <2>0 DEF Remembered, Tables, RowSet
  <2>6. (cache[f] = "download only") = gone[f].downloadOnly
    BY <2>4, <2>5 DEF Bag
  <2> QED BY <2>3, <2>4, <2>6, RestoredTyped
<1>2. IInv /\ [Next]_vars => [Kept]_vars
  BY <1>1
<1> QED BY <1>2, Invariance, PTL DEF Spec, CustomisationKept

(* What the user did to a bound copy reaches the server, and nothing else    *)
(* does: when no binding is ended under a sync of its folder, every step of  *)
(* manager, host, observers and sync is a step of the ledger or none.        *)
THEOREM LedgerImplemented ==
  ASSUME ~Overlap
  PROVE  Spec => ImplementsLedger
PROOF
<1>1. Init => Owed!Init
  BY LedgerInit
<1>2. IInv /\ IInv' /\ Typed /\ Typed' /\ Bound /\ [Next]_vars => [Owed!Next]_(Owed!vars)
  BY LedgerStep
<1>3. Spec => [](IInv /\ Typed /\ Bound)
  BY BoundInvariance
<1> QED BY <1>1, <1>2, <1>3, PTL DEF Spec, ImplementsLedger, Owed!Spec
=============================================================================
