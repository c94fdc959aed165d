------------------------ MODULE SyncCoordinator_proofs ------------------------
(***************************************************************************)
(* Invariants of SyncCoordinator, for any number of coroutines, windows    *)
(* and folders and any bound on reruns and nesting.                        *)
(***************************************************************************)
EXTENDS SyncCoordinator, TLAPS

(* A rerun is only waited for while the count of runs leaves room for it.  *)
RerunsCounted ==
  \A t \in Tasks : pc[t] \in {"backoff", "rerunnable"} =>
    job[t].runs \in 1..MaxReruns

Coroutines ==
  /\ pc \in [Tasks -> Pcs]
  /\ job \in [Tasks -> Job]
  /\ frames \in [Tasks -> Seq(SUBSET Folders)]
  /\ reply \in [Tasks -> AnyReply \cup {"none"}]

LEMMA NewJobType ==
  ASSUME NEW scope \in Folders \cup {All}
  PROVE  NewJob(scope) \in Job
  BY ConstantsAssumption DEF NewJob, Job, Outcomes, Errors

LEMMA RestType ==
  ASSUME Coroutines, NEW t \in Tasks, Rest(t)
  PROVE  /\ pc' \in [Tasks -> Pcs] /\ job' \in [Tasks -> Job]
         /\ frames' \in [Tasks -> Seq(SUBSET Folders)]
  BY NewJobType DEF Coroutines, Rest, Pcs

LEMMA CallType ==
  ASSUME Coroutines, NEW t \in Tasks, NEW scope \in Folders \cup {All},
         NEW stack \in Seq(SUBSET Folders), CallFrom(t, stack, scope)
  PROVE  /\ pc' \in [Tasks -> Pcs] /\ job' \in [Tasks -> Job]
         /\ frames' \in [Tasks -> Seq(SUBSET Folders)]
  BY NewJobType DEF Coroutines, CallFrom, Pcs

LEMMA OpenFrameType ==
  ASSUME NEW stack \in Seq(SUBSET Folders)
  PROVE  OpenFrame(stack) \in Seq(SUBSET Folders)
  <1>1. <<{}>> \in Seq(SUBSET Folders)
    OBVIOUS
  <1>2. <<{}>> \o stack \in Seq(SUBSET Folders)
    BY <1>1
  <1> QED BY <1>2 DEF OpenFrame

LEMMA DrainType ==
  ASSUME Coroutines, pendingWork \in Work, NEW t \in Tasks,
         NEW open \in Seq(SUBSET Folders), NEW lock \in BOOLEAN,
         DrainFrom(t, open, lock)
  PROVE  /\ pc' \in [Tasks -> Pcs] /\ job' \in [Tasks -> Job]
         /\ frames' \in [Tasks -> Seq(SUBSET Folders)]
         /\ pendingWork' \in Work
         /\ pc' = [pc EXCEPT ![t] = pc'[t]]
         /\ pc'[t] \in {"idle", "entry", "spinning"}
         /\ job' = [job EXCEPT ![t] = job'[t]]
  <1> DEFINE stack == IF open # <<>> /\ Head(open) = {} /\ pendingWork = NoWork
                      THEN Tail(open) ELSE open
  <1>1. stack \in Seq(SUBSET Folders)
    OBVIOUS
  <1>2. NoWork \in Work
    BY DEF NoWork, Work
  <1> HIDE DEF stack
  <1>3. CASE stack = <<>> /\ Rest(t) /\ UNCHANGED pendingWork
    BY <1>3, RestType DEF Rest, Coroutines
  <1>4. CASE Rest(t) /\ pendingWork' = NoWork
    BY <1>4, <1>2, RestType DEF Rest, Coroutines
  <1>5. CASE /\ pc' = [pc EXCEPT ![t] = "spinning"]
             /\ UNCHANGED <<job, frames, pendingWork>>
    BY <1>5 DEF Coroutines, Pcs
  <1>6. CASE /\ stack # <<>> /\ ~lock /\ ~Refused
             /\ IF Head(stack) # {}
                THEN /\ \E f \in Head(stack) :
                          CallFrom(t, <<Head(stack) \ {f}>> \o Tail(stack), f)
                     /\ UNCHANGED pendingWork
                ELSE /\ pendingWork' = NoWork
                     /\ IF pendingWork.full
                        THEN CallFrom(t, stack, All)
                        ELSE \E f \in pendingWork.folderIds :
                               CallFrom(t, <<pendingWork.folderIds \ {f}>>
                                           \o Tail(stack), f)
    <2>1. PICK called \in Seq(SUBSET Folders), scope \in Folders \cup {All} :
            CallFrom(t, called, scope)
      <3>1. ASSUME NEW f \in Folders, NEW rest \in SUBSET Folders
            PROVE  <<rest \ {f}>> \o Tail(stack) \in Seq(SUBSET Folders)
        BY <1>1, <1>6
      <3>2. Head(stack) \in SUBSET Folders
        BY <1>1, <1>6
      <3>3. pendingWork.folderIds \in SUBSET Folders
        BY DEF Work
      <3> QED BY <1>1, <1>6, <3>1, <3>2, <3>3
    <2>2. pendingWork' \in Work
      BY <1>2, <1>6
    <2> QED BY <2>1, <2>2, CallType DEF CallFrom, Coroutines
  <1> QED BY <1>3, <1>4, <1>5, <1>6 DEF DrainFrom, stack

-----------------------------------------------------------------------------
(* The steps that the actions of syncAccount share: where they leave the   *)
(* coroutine, and that they touch no other.                                *)
OnlyMoves(t) ==
  /\ pc' \in [Tasks -> Pcs] /\ pc' = [pc EXCEPT ![t] = pc'[t]]
  /\ job' \in [Tasks -> Job] /\ job' = [job EXCEPT ![t] = job'[t]]

LEMMA GotoMoves ==
  ASSUME Coroutines, NEW t \in Tasks, NEW p \in Pcs, Goto(t, p),
         UNCHANGED job
  PROVE  OnlyMoves(t) /\ pc'[t] = p
  BY DEF Coroutines, Goto, OnlyMoves

LEMMA FinallyMoves ==
  ASSUME Coroutines, NEW t \in Tasks, NEW outcome \in Outcomes,
         Finally(t, outcome)
  PROVE  OnlyMoves(t) /\ pc'[t] = "residual" /\ syncing' = FALSE
  <1>1. [NewJob(job[t].scope) EXCEPT !.outcome =
          IF cancelling /\ outcome # "failed" THEN "cancelled" ELSE outcome]
          \in Job
    <2>1. job[t].scope \in Folders \cup {All}
      BY DEF Coroutines, Job
    <2>2. NewJob(job[t].scope) \in Job
      BY <2>1, NewJobType
    <2> QED BY <2>2 DEF Job, Outcomes
  <1> QED BY <1>1 DEF Coroutines, Finally, Goto, OnlyMoves, Pcs, Unwinding

LEMMA TodoTyped ==
  ASSUME Coroutines, NEW t \in Tasks, NEW todo \in SUBSET Folders,
         NEW cur \in Folders \cup {All},
         job' = [job EXCEPT ![t] = [@ EXCEPT !.todo = todo, !.cur = cur]]
  PROVE  job' \in [Tasks -> Job]
  <1>1. [job[t] EXCEPT !.todo = todo, !.cur = cur] \in Job
    BY DEF Coroutines, Job
  <1> HIDE DEF Job
  <1> QED BY <1>1 DEF Coroutines

LEMMA CheckMarkMoves ==
  ASSUME Coroutines, NEW t \in Tasks, NEW todo \in SUBSET Folders,
         NEW p \in Pcs, CheckMark(t, todo, p), syncing \in BOOLEAN
  PROVE  /\ OnlyMoves(t) /\ syncing' \in BOOLEAN
         /\ pc'[t] = "residual" \/ (pc'[t] = p /\ job'[t].runs = job[t].runs)
         /\ pc'[t] # "residual" => syncing' = syncing
         /\ pc'[t] = "residual" => syncing' = FALSE \/ p = "residual"
  <1>1. CASE Finally(t, "cancelled")
    BY <1>1, FinallyMoves DEF Outcomes
  <1>2. CASE /\ Goto(t, p)
             /\ job' = [job EXCEPT ![t].todo = todo, ![t].cur = All]
             /\ UNCHANGED syncing
    <2>1. job' = [job EXCEPT ![t] = [@ EXCEPT !.todo = todo, !.cur = All]]
      BY <1>2
    <2>2. job' \in [Tasks -> Job]
      BY <2>1, TodoTyped
    <2>3. job'[t].runs = job[t].runs /\ job' = [job EXCEPT ![t] = job'[t]]
      BY <2>1 DEF Coroutines, Job
    <2>4. pc' \in [Tasks -> Pcs] /\ pc'[t] = p /\ pc' = [pc EXCEPT ![t] = pc'[t]]
      BY <1>2 DEF Coroutines, Goto
    <2>5. OnlyMoves(t)
      BY <2>2, <2>3, <2>4 DEF OnlyMoves
    <2> QED BY <1>2, <2>3, <2>4, <2>5
  <1> QED BY <1>1, <1>2 DEF CheckMark

LEMMA CatchMoves ==
  ASSUME Coroutines, NEW t \in Tasks, NEW code \in Rejections,
         Catch(t, code), syncing \in BOOLEAN
  PROVE  /\ OnlyMoves(t) /\ syncing' \in BOOLEAN
         /\ \/ pc'[t] = "residual" /\ syncing' = FALSE
            \/ pc'[t] = "flag" /\ syncing' = syncing
  <1>1. CASE /\ Goto(t, "flag")
             /\ job' = [job EXCEPT ![t].todo = {}, ![t].cur = All]
             /\ UNCHANGED syncing
    <2>1. job' = [job EXCEPT ![t] = [@ EXCEPT !.todo = {}, !.cur = All]]
      BY <1>1
    <2>2. job' \in [Tasks -> Job]
      BY <2>1, TodoTyped
    <2> QED BY <1>1, <2>1, <2>2
            DEF Coroutines, Goto, OnlyMoves, Pcs, Holding
  <1>2. CASE Finally(t, IF code = "cancelled" THEN "cancelled" ELSE "threw")
    BY <1>2, FinallyMoves DEF Outcomes
  <1> QED BY <1>1, <1>2 DEF Catch

LEMMA ReturnMoves ==
  ASSUME Coroutines, pendingWork \in Work, syncing \in BOOLEAN,
         maintaining \in BOOLEAN, NEW t \in Tasks,
         ReturnWithoutDrain(t) \/ ReturnAndDrain(t)
  PROVE  /\ OnlyMoves(t)
         /\ pc'[t] \in {"idle", "entry", "spinning"}
         /\ frames' \in [Tasks -> Seq(SUBSET Folders)]
         /\ pendingWork' \in Work
  <1>1. frames[t] \in Seq(SUBSET Folders)
    BY DEF Coroutines
  <1>2. OpenFrame(frames[t]) \in Seq(SUBSET Folders)
    BY <1>1, OpenFrameType
  <1>3. Busy \in BOOLEAN
    BY DEF Busy
  <1>4. PICK open \in Seq(SUBSET Folders), lock \in BOOLEAN :
          DrainFrom(t, open, lock)
    BY <1>1, <1>2, <1>3, Zenon DEF ReturnWithoutDrain, ReturnAndDrain
  <1>5. /\ pc' \in [Tasks -> Pcs] /\ job' \in [Tasks -> Job]
        /\ frames' \in [Tasks -> Seq(SUBSET Folders)]
        /\ pendingWork' \in Work
        /\ pc' = [pc EXCEPT ![t] = pc'[t]]
        /\ pc'[t] \in {"idle", "entry", "spinning"}
        /\ job' = [job EXCEPT ![t] = job'[t]]
    BY <1>4, DrainType, Zenon
  <1> QED BY <1>5 DEF OnlyMoves

LEMMA SettleMoves ==
  ASSUME Coroutines, pendingWork \in Work, syncing \in BOOLEAN,
         maintaining \in BOOLEAN, NEW t \in Tasks, Settle(t)
  PROVE  /\ OnlyMoves(t)
         /\ pc'[t] \in {"idle", "entry", "spinning", "settle", "stampAccount"}
         /\ frames' \in [Tasks -> Seq(SUBSET Folders)]
         /\ pendingWork' \in Work
  <1>1. CASE ReturnWithoutDrain(t) \/ ReturnAndDrain(t)
    BY <1>1, ReturnMoves
  <1>2. CASE Goto(t, "settle") /\ UNCHANGED job /\ InCall
    BY <1>2, GotoMoves DEF Coroutines, InCall, Pcs, Unwinding
  <1>3. CASE Goto(t, "stampAccount") /\ UNCHANGED job /\ InCall
    BY <1>3, GotoMoves DEF Coroutines, InCall, Pcs, Unwinding
  <1> QED BY <1>1, <1>2, <1>3 DEF Settle

-----------------------------------------------------------------------------
Stored ==
  /\ acc \in Account
  /\ rows \in SUBSET Folders /\ selected \in SUBSET rows
  /\ status \in [Folders -> Statuses]

(* What a step of t's sync may do: keep the types, touch no coroutine but  *)
(* t, and hold the lock, if anyone does, only while t or another is at a   *)
(* place that releases it.                                                 *)
SyncEffect(t) ==
  /\ OnlyMoves(t)
  /\ frames' \in [Tasks -> Seq(SUBSET Folders)]
  /\ reply' \in [Tasks -> AnyReply \cup {"none"}]
  /\ pendingWork' \in Work
  /\ Stored'
  /\ syncing' \in BOOLEAN
  /\ pc'[t] \in {"backoff", "rerunnable"} => job'[t].runs \in 1..MaxReruns
  /\ syncing' => pc'[t] \in Holding \/ (syncing /\ pc[t] \notin Holding)
  /\ pc[t] \in Holding => pc'[t] \in Holding \cup {"residual"}

LEMMA SetStatusTyped ==
  ASSUME Stored, NEW f, NEW value \in Statuses, SetStatus(f, value)
  PROVE  status' \in [Folders -> Statuses]
  BY DEF Stored, SetStatus

LEMMA ReplaceFoldersTyped ==
  ASSUME Stored, NEW list \in SUBSET Folders, NEW chosen \in SUBSET list,
         ReplaceFolders(list, chosen)
  PROVE  /\ rows' \in SUBSET Folders /\ selected' \in SUBSET rows'
         /\ status' \in [Folders -> Statuses]
  BY DEF Stored, ReplaceFolders, Statuses

LEMMA PostMoves ==
  ASSUME Coroutines, NEW t \in Tasks, NEW cmd \in Pcs, Post(t, cmd)
  PROVE  /\ pc' = [pc EXCEPT ![t] = cmd] /\ pc' \in [Tasks -> Pcs]
         /\ reply' \in [Tasks -> AnyReply \cup {"none"}]
  BY DEF Coroutines, Post, Goto, AnyReply

LEMMA TakenTyped ==
  ASSUME Coroutines, NEW t \in Tasks, Taken(t)
  PROVE  reply' \in [Tasks -> AnyReply \cup {"none"}]
  BY DEF Coroutines, Taken

LEMMA JobNoted ==
  ASSUME Coroutines, NEW t \in Tasks, NEW p \in {"writeError", "recomputeRows"},
         Goto(t, p), NEW error \in Errors,
         job' = [job EXCEPT ![t].next = error]
  PROVE  OnlyMoves(t) /\ pc'[t] = p
  <1>1. job' \in [Tasks -> Job]
    BY DEF Coroutines, Job
  <1> QED BY <1>1 DEF Coroutines, Goto, OnlyMoves, Pcs, Unwinding

LEMMA RunCounted ==
  ASSUME Coroutines, NEW t \in Tasks, job[t].runs \in 0..MaxReruns,
         job' = [job EXCEPT ![t].runs = @ + 1]
  PROVE  job' \in [Tasks -> Job]
  <1> DEFINE n == job[t].runs + 1
  <1>1. n \in 0..MaxReruns + 1
    BY ConstantsAssumption
  <1>2. job' = [job EXCEPT ![t].runs = n]
    OBVIOUS
  <1> HIDE DEF n
  <1> QED BY <1>1, <1>2 DEF Coroutines, Job

(* Each action of syncAccount is such a step.                              *)
LEMMA SyncStepEffect ==
  ASSUME TypeOK, RerunsCounted, NEW t \in Tasks, SyncStep(t)
  PROVE  SyncEffect(t)
  <1> USE DEF InCall, folderRows, Holding
  <1>0. /\ Coroutines /\ Stored
        /\ syncing \in BOOLEAN /\ maintaining \in BOOLEAN
        /\ pendingWork \in Work
    BY DEF TypeOK, Coroutines, Stored
  <1>1. CASE Enter(t)
    <2>0. pc[t] = "entry" /\ UNCHANGED <<acc, rows, selected, status, reply>>
      BY <1>1 DEF Enter
    <2>1. CASE ReturnWithoutDrain(t) /\ UNCHANGED syncing
      BY <1>0, <2>0, <2>1, ReturnMoves
         DEF SyncEffect, Stored, Coroutines
    <2>2. CASE Finally(t, "cancelled") /\ InCall
      BY <1>0, <2>0, <2>2, FinallyMoves
         DEF SyncEffect, Stored, Coroutines, Outcomes
    <2>3. CASE Goto(t, "runnable") /\ syncing' = TRUE /\ UNCHANGED job /\ InCall
      BY <1>0, <2>0, <2>3, GotoMoves
         DEF SyncEffect, Stored, Coroutines, Pcs
    <2> QED BY <1>1, <2>1, <2>2, <2>3 DEF Enter
  <1>2. CASE Runnable(t)
    <2>0. pc[t] = "runnable" /\ InCall /\ UNCHANGED <<acc, rows, selected, status>>
      BY <1>2 DEF Runnable
    <2>1. CASE (Finally(t, "cancelled") \/ Finally(t, "ran")) /\ UNCHANGED reply
      BY <1>0, <2>0, <2>1, FinallyMoves
         DEF SyncEffect, Stored, Coroutines, Outcomes
    <2>2. CASE /\ job[t].runs \in 1..MaxReruns
               /\ Goto(t, "backoff") /\ UNCHANGED <<syncing, job, reply>>
      BY <1>0, <2>0, <2>2, GotoMoves
         DEF SyncEffect, Stored, Coroutines, Pcs
    <2>3. CASE /\ job[t].runs = 0
               /\ Post(t, "SYNC_ACCOUNT")
               /\ job' = [job EXCEPT ![t].runs = @ + 1]
               /\ UNCHANGED syncing
      <3>1. "SYNC_ACCOUNT" \in Pcs
        BY DEF Pcs
      <3>2. job' \in [Tasks -> Job]
        <4>1. job[t].runs \in 0..MaxReruns
          BY <2>3, ConstantsAssumption
        <4> QED BY <1>0, <2>3, <4>1, RunCounted
      <3> QED BY <1>0, <2>0, <2>3, <3>1, <3>2, PostMoves
              DEF SyncEffect, Stored, Coroutines, OnlyMoves
    <2> QED BY <1>2, <2>1, <2>2, <2>3 DEF Runnable
  <1>3. CASE BackoffElapsed(t)
    <2>1. /\ pc[t] = "backoff" /\ CheckMark(t, {}, "rerunnable") /\ InCall
          /\ UNCHANGED <<acc, rows, selected, status, reply>>
      BY <1>3 DEF BackoffElapsed
    <2>2. job[t].runs \in 1..MaxReruns
      BY <2>1 DEF RerunsCounted
    <2>3. "rerunnable" \in Pcs
      BY DEF Pcs
    <2> QED BY <1>0, <2>1, <2>2, <2>3, CheckMarkMoves
            DEF SyncEffect, Stored, Coroutines
  <1>4. CASE Rerun(t)
    <2>0. pc[t] = "rerunnable" /\ InCall /\ UNCHANGED <<acc, rows, selected, status>>
      BY <1>4 DEF Rerun
    <2>1. CASE Finally(t, "cancelled") /\ UNCHANGED reply
      BY <1>0, <2>0, <2>1, FinallyMoves
         DEF SyncEffect, Stored, Coroutines, Outcomes
    <2>2. CASE /\ Post(t, "SYNC_ACCOUNT")
               /\ job' = [job EXCEPT ![t].runs = @ + 1]
               /\ UNCHANGED syncing
      <3>1. "SYNC_ACCOUNT" \in Pcs
        BY DEF Pcs
      <3>2. job[t].runs \in 1..MaxReruns
        BY <2>0 DEF RerunsCounted
      <3>3. job' \in [Tasks -> Job]
        <4>1. job[t].runs \in 0..MaxReruns
          BY <3>2, ConstantsAssumption
        <4> QED BY <1>0, <2>2, <4>1, RunCounted
      <3> QED BY <1>0, <2>0, <2>2, <3>1, <3>3, PostMoves
              DEF SyncEffect, Stored, Coroutines, OnlyMoves
    <2> QED BY <1>4, <2>1, <2>2 DEF Rerun
  <1>5. CASE AccountSynced(t)
    <2>0. /\ pc[t] = "SYNC_ACCOUNT" /\ InCall
          /\ UNCHANGED <<acc, rows, selected, status>>
      BY <1>5 DEF AccountSynced
    <2>1. CASE Finally(t, "failed") /\ Taken(t)
      BY <1>0, <2>0, <2>1, FinallyMoves, TakenTyped
         DEF SyncEffect, Stored, Coroutines, Outcomes
    <2>2. CASE reply[t] \in Rejections /\ Catch(t, reply[t]) /\ Taken(t)
      BY <1>0, <2>0, <2>2, CatchMoves, TakenTyped
         DEF SyncEffect, Stored, Coroutines
    <2>3. CASE Post(t, "GET_SORTED_FOLDERS") /\ UNCHANGED <<syncing, job>>
      <3>1. "GET_SORTED_FOLDERS" \in Pcs
        BY DEF Pcs
      <3> QED BY <1>0, <2>0, <2>3, <3>1, PostMoves
              DEF SyncEffect, Stored, Coroutines, OnlyMoves
    <2> QED BY <1>5, <2>1, <2>2, <2>3 DEF AccountSynced
  <1>6. CASE FoldersListed(t)
    <2>0. /\ pc[t] = "GET_SORTED_FOLDERS" /\ InCall /\ Taken(t)
          /\ UNCHANGED <<acc, rows, selected, status>>
      BY <1>6 DEF FoldersListed
    <2>1. CASE reply[t] \in Rejections /\ Catch(t, reply[t])
      BY <1>0, <2>0, <2>1, CatchMoves, TakenTyped
         DEF SyncEffect, Stored, Coroutines
    <2>2. CASE (Goto(t, "replace") \/ Goto(t, "list")) /\ UNCHANGED <<syncing, job>>
      BY <1>0, <2>0, <2>2, GotoMoves, TakenTyped
         DEF SyncEffect, Stored, Coroutines, Pcs
    <2> QED BY <1>6, <2>1, <2>2 DEF FoldersListed
  <1>7. CASE Replaced(t)
    <2>1. /\ pc[t] = "replace" /\ Goto(t, "list") /\ InCall
          /\ UNCHANGED <<acc, syncing, job, reply>>
      BY <1>7 DEF Replaced
    <2>2. /\ rows' \in SUBSET Folders /\ selected' \in SUBSET rows'
          /\ status' \in [Folders -> Statuses]
      BY <1>0, <1>7, ReplaceFoldersTyped DEF Replaced
    <2> QED BY <1>0, <2>1, <2>2, GotoMoves
            DEF SyncEffect, Stored, Coroutines, Pcs
  <1>8. ASSUME NEW todo \in SUBSET Folders, NextFolder(t, todo)
        PROVE  /\ OnlyMoves(t) /\ pc'[t] \in {"residual", "folder"}
               /\ syncing' \in BOOLEAN
               /\ syncing' => pc'[t] \in Holding
    <2>1. CASE todo = {}
      BY <1>0, <1>8, <2>1, FinallyMoves DEF NextFolder, Outcomes
    <2>2. CASE todo # {}
      <3>1. "folder" \in Pcs
        BY DEF Pcs
      <3> QED BY <1>0, <1>8, <2>2, <3>1, CheckMarkMoves DEF NextFolder
    <2> QED BY <2>1, <2>2
  <1>9. CASE List(t)
    <2>1. /\ NextFolder(t, ToSync(job[t].scope)) /\ InCall
          /\ UNCHANGED <<acc, rows, selected, status, reply>>
      BY <1>9 DEF List
    <2>2. ToSync(job[t].scope) \in SUBSET Folders
      BY <1>0 DEF ToSync, Stored
    <2> QED BY <1>0, <1>8, <2>1, <2>2 DEF SyncEffect, Stored, Coroutines
  <1>10. CASE Folder(t)
    <2>0. /\ pc[t] = "folder" /\ InCall
          /\ UNCHANGED <<acc, rows, selected, status, reply>>
      BY <1>10 DEF Folder
    <2>1. CASE Finally(t, "cancelled")
      BY <1>0, <2>0, <2>1, FinallyMoves
         DEF SyncEffect, Stored, Coroutines, Outcomes
    <2>2. CASE /\ \E f \in job[t].todo :
                    job' = [job EXCEPT ![t].todo = @ \ {f}, ![t].cur = f]
               /\ Goto(t, "stamp") /\ UNCHANGED syncing
      <3>1. PICK f \in job[t].todo :
              job' = [job EXCEPT ![t].todo = @ \ {f}, ![t].cur = f]
        BY <2>2
      <3>2. job[t].todo \in SUBSET Folders
        BY <1>0 DEF Coroutines, Job
      <3>3. job' \in [Tasks -> Job]
        <4> DEFINE rest == job[t].todo \ {f}
        <4>1. rest \in SUBSET Folders /\ f \in Folders \cup {All}
          BY <3>2
        <4>2. job' = [job EXCEPT ![t] = [@ EXCEPT !.todo = rest, !.cur = f]]
          BY <3>1
        <4> HIDE DEF rest
        <4> QED BY <1>0, <4>1, <4>2, TodoTyped
      <3> QED BY <1>0, <2>0, <2>2, <3>1, <3>3
              DEF SyncEffect, Stored, Coroutines, OnlyMoves, Goto, Pcs
    <2> QED BY <1>10, <2>1, <2>2 DEF Folder
  <1>11. CASE Stamp(t)
    <2>1. /\ pc[t] = "stamp" /\ SetStatus(job[t].cur, "pending")
          /\ Post(t, "SYNC_FOLDER") /\ InCall
          /\ UNCHANGED <<acc, rows, selected, syncing, job>>
      BY <1>11 DEF Stamp
    <2>2. status' \in [Folders -> Statuses]
      BY <1>0, <2>1, SetStatusTyped DEF Statuses
    <2>3. "SYNC_FOLDER" \in Pcs
      BY DEF Pcs
    <2> QED BY <1>0, <2>1, <2>2, <2>3, PostMoves
            DEF SyncEffect, Stored, Coroutines, OnlyMoves
  <1>12. CASE FolderSynced(t)
    <2>0. /\ pc[t] = "SYNC_FOLDER" /\ InCall
          /\ UNCHANGED <<acc, rows, selected, status>>
      BY <1>12 DEF FolderSynced
    <2>1. CASE CheckMark(t, {}, "runnable") /\ Taken(t)
      <3>1. "runnable" \in Pcs
        BY DEF Pcs
      <3> QED BY <1>0, <2>0, <2>1, <3>1, CheckMarkMoves, TakenTyped
              DEF SyncEffect, Stored, Coroutines
    <2>2. CASE reply[t] \in {"auth", "cancelled"} /\ Catch(t, reply[t]) /\ Taken(t)
      <3>1. reply[t] \in Rejections
        BY <2>2 DEF Rejections
      <3> QED BY <1>0, <2>0, <2>2, <3>1, CatchMoves, TakenTyped
              DEF SyncEffect, Stored, Coroutines
    <2>3. CASE Goto(t, "record") /\ UNCHANGED <<syncing, job, reply>>
      BY <1>0, <2>0, <2>3, GotoMoves
         DEF SyncEffect, Stored, Coroutines, Pcs
    <2> QED BY <1>12, <2>1, <2>2, <2>3 DEF FolderSynced
  <1>13. CASE Recorded(t)
    <2>1. /\ SetStatus(job[t].cur, IF reply[t] = "ok" THEN "done" ELSE "error")
          /\ NextFolder(t, job[t].todo) /\ Taken(t) /\ InCall
          /\ UNCHANGED <<acc, rows, selected>>
      BY <1>13 DEF Recorded
    <2>2. status' \in [Folders -> Statuses]
      BY <1>0, <2>1, SetStatusTyped DEF Statuses
    <2>3. job[t].todo \in SUBSET Folders
      BY <1>0 DEF Coroutines, Job
    <2> QED BY <1>0, <1>8, <2>1, <2>2, <2>3, TakenTyped
            DEF SyncEffect, Stored, Coroutines
  <1>14. CASE FlagAccountForReauth(t)
    <2>1. /\ acc' = IF acc.exists THEN [acc EXCEPT !.error = "auth"] ELSE acc
          /\ Finally(t, "auth") /\ InCall
          /\ UNCHANGED <<rows, selected, status, reply>>
      BY <1>14 DEF FlagAccountForReauth
    <2>2. acc' \in Account
      BY <1>0, <2>1 DEF Stored, Account, Errors
    <2> QED BY <1>0, <2>1, <2>2, FinallyMoves
            DEF SyncEffect, Stored, Coroutines, Outcomes
  <1>15. CASE Residual(t)
    <2>0. pc[t] = "residual" /\ UNCHANGED <<acc, rows, selected, status, syncing, reply>>
      BY <1>15 DEF Residual
    <2>1. CASE Settle(t)
      BY <1>0, <2>0, <2>1, SettleMoves
         DEF SyncEffect, Stored, Coroutines
    <2>2. CASE /\ Goto(t, "downgrade") /\ InCall
               /\ job' = [job EXCEPT ![t].todo =
                                {f \in rows : status[f] = "pending"}]
      <3>1. job' \in [Tasks -> Job]
        BY <1>0, <2>2 DEF Coroutines, Job, Stored
      <3> QED BY <1>0, <2>0, <2>2, <3>1
              DEF SyncEffect, Stored, Coroutines, OnlyMoves, Goto,
                  Unwinding, Pcs
    <2> QED BY <1>15, <2>1, <2>2 DEF Residual
  <1>16. CASE Downgrade(t)
    <2>1. PICK f \in job[t].todo :
            /\ SetStatus(f, "aborted")
            /\ IF job[t].todo = {f} THEN Settle(t)
               ELSE /\ job' = [job EXCEPT ![t].todo = @ \ {f}]
                    /\ UNCHANGED pc /\ InCall
      BY <1>16 DEF Downgrade
    <2>2. /\ pc[t] = "downgrade"
          /\ UNCHANGED <<acc, rows, selected, syncing, reply>>
      BY <1>16 DEF Downgrade
    <2>3. status' \in [Folders -> Statuses]
      BY <1>0, <2>1, SetStatusTyped DEF Statuses
    <2>4. CASE Settle(t)
      BY <1>0, <2>2, <2>3, <2>4, SettleMoves
         DEF SyncEffect, Stored, Coroutines
    <2>5. CASE /\ job' = [job EXCEPT ![t].todo = @ \ {f}]
               /\ UNCHANGED pc /\ InCall
      <3>1. job' \in [Tasks -> Job]
        BY <1>0, <2>5 DEF Coroutines, Job
      <3> QED BY <1>0, <2>2, <2>3, <2>5, <3>1
              DEF SyncEffect, Stored, Coroutines, OnlyMoves
    <2> QED BY <2>1, <2>4, <2>5
  <1>17. CASE SettleFailed(t)
    <2>0. /\ pc[t] = "settle"
          /\ UNCHANGED <<acc, rows, selected, status, syncing, reply>>
      BY <1>17 DEF SettleFailed
    <2>1. CASE ReturnWithoutDrain(t)
      BY <1>0, <2>0, <2>1, ReturnMoves
         DEF SyncEffect, Stored, Coroutines
    <2>2. CASE /\ Goto(t, "writeError") /\ InCall
               /\ job' = [job EXCEPT ![t].next = "account"]
      BY <1>0, <2>0, <2>2, JobNoted
         DEF SyncEffect, Stored, Coroutines, Errors
    <2> QED BY <1>17, <2>1, <2>2 DEF SettleFailed
  <1>18. CASE StampAccount(t)
    <2>1. /\ pc[t] = "stampAccount" /\ Goto(t, "recompute") /\ InCall
          /\ acc' = IF acc.exists
                    THEN [acc EXCEPT !.lastSync = job[t].outcome] ELSE acc
          /\ UNCHANGED <<rows, selected, status, syncing, job, reply>>
      BY <1>18 DEF StampAccount
    <2>2. acc' \in Account
      <3>1. job[t].outcome \in Outcomes
        BY <1>0 DEF Coroutines, Job
      <3> QED BY <1>0, <2>1, <3>1 DEF Stored, Account
    <2> QED BY <1>0, <2>1, <2>2, GotoMoves
            DEF SyncEffect, Stored, Coroutines, Unwinding, Pcs
  <1>19. CASE Recompute(t)
    <2>0. /\ pc[t] = "recompute"
          /\ UNCHANGED <<acc, rows, selected, status, syncing, reply>>
      BY <1>19 DEF Recompute
    <2>1. CASE ReturnAndDrain(t)
      BY <1>0, <2>0, <2>1, ReturnMoves
         DEF SyncEffect, Stored, Coroutines
    <2>2. CASE /\ Goto(t, "recomputeRows") /\ InCall
               /\ job' = [job EXCEPT ![t].next = acc.error]
      BY <1>0, <2>0, <2>2, JobNoted
         DEF SyncEffect, Stored, Coroutines, Account
    <2> QED BY <1>19, <2>1, <2>2 DEF Recompute
  <1>20. CASE RecomputeRows(t)
    <2>0. /\ pc[t] = "recomputeRows"
          /\ UNCHANGED <<acc, rows, selected, status, syncing, reply>>
      BY <1>20 DEF RecomputeRows
    <2>1. CASE ReturnAndDrain(t)
      BY <1>0, <2>0, <2>1, ReturnMoves
         DEF SyncEffect, Stored, Coroutines
    <2>2. CASE /\ Goto(t, "writeError") /\ InCall
               /\ job' = [job EXCEPT ![t].next = FolderError]
      <3>1. FolderError \in Errors
        BY DEF FolderError, Errors
      <3> QED BY <1>0, <2>0, <2>2, <3>1, JobNoted
              DEF SyncEffect, Stored, Coroutines
    <2> QED BY <1>20, <2>1, <2>2 DEF RecomputeRows
  <1>21. CASE WriteError(t)
    <2>1. /\ pc[t] = "writeError"
          /\ ReturnWithoutDrain(t) \/ ReturnAndDrain(t)
          /\ acc' = IF acc.exists THEN [acc EXCEPT !.error = job[t].next] ELSE acc
          /\ UNCHANGED <<rows, selected, status, syncing, reply>>
      BY <1>21 DEF WriteError
    <2>2. acc' \in Account
      <3>1. job[t].next \in Errors
        BY <1>0 DEF Coroutines, Job
      <3> QED BY <1>0, <2>1, <3>1 DEF Stored, Account
    <2> QED BY <1>0, <2>1, <2>2, ReturnMoves
            DEF SyncEffect, Stored, Coroutines
  <1> QED
    BY <1>1, <1>2, <1>3, <1>4, <1>5, <1>6, <1>7, <1>9, <1>10, <1>11, <1>12,
       <1>13, <1>14, <1>15, <1>16, <1>17, <1>18, <1>19, <1>20, <1>21
       DEF SyncStep

-----------------------------------------------------------------------------
(* Type correctness and the count of reruns.                               *)
Owners == Tasks \cup Windows \cup {Toggler}

LEMMA RequeueTyped ==
  ASSUME writes \in Seq(Owners), NEW x \in Owners, NEW wrote, NEW writesNext,
         wrote => Turn(x), Requeue(x, wrote, writesNext)
  PROVE  writes' \in Seq(Owners)
  <1>1. (IF wrote THEN Tail(writes) ELSE writes) \in Seq(Owners)
    BY DEF Turn
  <1>2. (IF writesNext THEN <<x>> ELSE <<>>) \in Seq(Owners)
    OBVIOUS
  <1> QED BY <1>1, <1>2 DEF Requeue

LEMMA RerunsKept ==
  ASSUME Coroutines, RerunsCounted, NEW t \in Tasks, OnlyMoves(t),
         pc'[t] \in {"backoff", "rerunnable"} => job'[t].runs \in 1..MaxReruns
  PROVE  RerunsCounted'
  <1>1. ASSUME NEW u \in Tasks, u # t
        PROVE  pc'[u] = pc[u] /\ job'[u] = job[u]
    BY <1>1 DEF Coroutines, OnlyMoves
  <1> QED BY <1>1 DEF RerunsCounted

LEMMA SyncStepTyped ==
  ASSUME TypeOK, RerunsCounted, NEW t \in Tasks, SyncStep(t)
  PROVE  TypeOK' /\ RerunsCounted'
  <1>1. SyncEffect(t)
    BY SyncStepEffect
  <1>2. /\ pc[t] \in WritePcs => Turn(t)
        /\ Requeue(t, pc[t] \in WritePcs, pc'[t] \in WritePcs)
        /\ UNCHANGED <<maintaining, cancelling, settingUp, busyFolders,
                       connected, window, toggle>>
    BY DEF SyncStep
  <1>3. writes' \in Seq(Owners)
    <2>1. writes \in Seq(Owners) /\ t \in Owners
      BY DEF TypeOK, Owners
    <2> QED BY <1>2, <2>1, RequeueTyped, Zenon
  <1>4. Coroutines
    BY DEF TypeOK, Coroutines
  <1>5. RerunsCounted'
    BY <1>1, <1>4, RerunsKept DEF SyncEffect
  <1> QED BY <1>1, <1>2, <1>3, <1>5
          DEF TypeOK, SyncEffect, Stored, OnlyMoves, Owners

LEMMA MaintainStepTyped ==
  ASSUME TypeOK, RerunsCounted, NEW t \in Tasks, MaintainStep(t)
  PROVE  TypeOK' /\ RerunsCounted'
  <1>0. Coroutines /\ pendingWork \in Work
    BY DEF TypeOK, Coroutines
  <1>1. UNCHANGED <<acc, rows, selected, status, writes, syncing, cancelling,
                    settingUp, busyFolders, connected, window, toggle>>
    BY DEF MaintainStep, folderRows
  <1>2. CASE MaintainEnter(t)
    <2>1. CASE Goto(t, "idle") /\ UNCHANGED <<maintaining, reply, job>> /\ InCall
      <3>1. OnlyMoves(t) /\ pc'[t] = "idle"
        BY <1>0, <2>1, GotoMoves DEF Pcs
      <3> QED BY <1>0, <1>1, <2>1, <3>1, RerunsKept
              DEF TypeOK, OnlyMoves, InCall
    <2>2. CASE maintaining' = TRUE /\ Post(t, "MAINTAIN") /\ UNCHANGED job /\ InCall
      <3>1. /\ pc' = [pc EXCEPT ![t] = "MAINTAIN"] /\ pc' \in [Tasks -> Pcs]
            /\ reply' \in [Tasks -> AnyReply \cup {"none"}]
        BY <1>0, <2>2, PostMoves DEF Pcs
      <3>2. OnlyMoves(t) /\ pc'[t] = "MAINTAIN"
        BY <1>0, <2>2, <3>1 DEF OnlyMoves, Coroutines
      <3> QED BY <1>0, <1>1, <2>2, <3>1, <3>2, RerunsKept
              DEF TypeOK, OnlyMoves, InCall
    <2> QED BY <1>2, <2>1, <2>2 DEF MaintainEnter
  <1>3. CASE Maintained(t)
    <2>1. maintaining' = FALSE /\ Taken(t)
      BY <1>3 DEF Maintained
    <2>2. PICK open \in Seq(SUBSET Folders), lock \in BOOLEAN :
            DrainFrom(t, open, lock)
      <3>1. <<{}>> \in Seq(SUBSET Folders) /\ syncing \in BOOLEAN
        BY DEF TypeOK
      <3> QED BY <1>3, <3>1, Zenon DEF Maintained
    <2>3. /\ pc' \in [Tasks -> Pcs] /\ job' \in [Tasks -> Job]
          /\ frames' \in [Tasks -> Seq(SUBSET Folders)]
          /\ pendingWork' \in Work
          /\ pc' = [pc EXCEPT ![t] = pc'[t]]
          /\ pc'[t] \in {"idle", "entry", "spinning"}
          /\ job' = [job EXCEPT ![t] = job'[t]]
      BY <1>0, <2>2, DrainType, Zenon
    <2> QED BY <1>0, <1>1, <2>1, <2>3, TakenTyped, RerunsKept
            DEF TypeOK, OnlyMoves
  <1> QED BY <1>2, <1>3 DEF MaintainStep

LEMMA WindowStepTyped ==
  ASSUME TypeOK, RerunsCounted, NEW w \in Windows, WindowStep(w)
  PROVE  TypeOK' /\ RerunsCounted'
  <1>1. /\ window[w] \in WindowWrites => Turn(w)
        /\ Requeue(w, window[w] \in WindowWrites, window'[w] \in WindowWrites)
        /\ UNCHANGED <<syncing, maintaining, settingUp, busyFolders,
                       pendingWork, connected, pc, job, frames, reply, toggle>>
    BY DEF WindowStep, tasks
  <1>2. writes' \in Seq(Owners)
    <2>1. writes \in Seq(Owners) /\ w \in Owners
      BY DEF TypeOK, Owners
    <2> QED BY <1>1, <2>1, RequeueTyped, Zenon
  <1>3. PICK from \in WindowPcs, to \in WindowPcs : Move(w, from, to)
    BY Zenon DEF WindowStep, TeardownCommandSettled, DisableAccount,
       ClearAccount, TargetsDeleted, RemoveAccount, ConnectCommandSettled,
       ConnectWritten, WindowPcs, TeardownPcs
  <1>4. window' \in [Windows -> WindowPcs]
    BY <1>3 DEF Move, TypeOK
  <1>5. /\ acc' \in Account /\ rows' \in SUBSET Folders
        /\ selected' \in SUBSET rows' /\ status' \in [Folders -> Statuses]
        /\ cancelling' \in BOOLEAN
    <2> USE DEF TypeOK, folderRows
    <2>1. CASE \/ TeardownCommandSettled(w) \/ TargetsDeleted(w)
               \/ ConnectCommandSettled(w)
      BY <2>1 DEF TeardownCommandSettled, TargetsDeleted,
                  ConnectCommandSettled
    <2>2. CASE DisableAccount(w)
      BY <2>2 DEF DisableAccount, Account, Errors
    <2>3. CASE ClearAccount(w)
      BY <2>3 DEF ClearAccount, Statuses
    <2>4. CASE RemoveAccount(w)
      BY <2>4 DEF RemoveAccount, NoAccount, Account, Errors
    <2>5. CASE ConnectWritten(w)
      BY <2>5 DEF ConnectWritten, Account, Errors
    <2> QED BY <2>1, <2>2, <2>3, <2>4, <2>5 DEF WindowStep
  <1> QED BY <1>1, <1>2, <1>4, <1>5 DEF TypeOK, RerunsCounted, Owners

LEMMA ToggleNoted ==
  ASSUME TypeOK, NEW p \in TogglePcs, NEW error \in Errors,
         toggle' = [toggle EXCEPT !.pc = p, !.next = error]
  PROVE  toggle' \in [pc : TogglePcs, folder : Folders \cup {All},
                      on : BOOLEAN, next : Errors]
  BY DEF TypeOK

LEMMA ToggleStepTyped ==
  ASSUME TypeOK, RerunsCounted, ToggleStep
  PROVE  TypeOK' /\ RerunsCounted'
  <1>1. /\ toggle.pc \in ToggleWrites => Turn(Toggler)
        /\ Requeue(Toggler, toggle.pc \in ToggleWrites, toggle'.pc \in ToggleWrites)
        /\ UNCHANGED <<syncing, maintaining, cancelling, settingUp,
                       pendingWork, connected, pc, job, frames, reply, window>>
    BY DEF ToggleStep, tasks
  <1>2. writes' \in Seq(Owners)
    <2>1. writes \in Seq(Owners) /\ Toggler \in Owners
      BY DEF TypeOK, Owners
    <2> QED BY <1>1, <2>1, RequeueTyped, Zenon
  <1>3. /\ toggle' \in [pc : TogglePcs, folder : Folders \cup {All},
                         on : BOOLEAN, next : Errors]
        /\ busyFolders' \in SUBSET Folders
        /\ acc' \in Account /\ rows' \in SUBSET Folders
        /\ selected' \in SUBSET rows' /\ status' \in [Folders -> Statuses]
    <2> USE DEF TypeOK, folderRows
    <2>1. NoToggle \in [pc : TogglePcs, folder : Folders \cup {All},
                        on : BOOLEAN, next : Errors]
      BY DEF NoToggle, TogglePcs, Errors
    <2>2. CASE ToggleCommandSettled
      BY <2>1, <2>2 DEF ToggleCommandSettled, EndToggle, TogglePcs
    <2>3. CASE ToggleWritten
      BY <2>3 DEF ToggleWritten, TogglePcs, SetStatus, Statuses
    <2>4. CASE ToggleRecompute
      <3>1. CASE EndToggle
        BY <2>1, <2>4, <3>1 DEF ToggleRecompute, EndToggle
      <3>2. CASE /\ toggle' = [toggle EXCEPT !.pc = "recomputeRows",
                                             !.next = acc.error]
                 /\ UNCHANGED busyFolders
        <4>1. acc.error \in Errors
          BY DEF Account
        <4>2. "recomputeRows" \in TogglePcs
          BY DEF TogglePcs
        <4> QED BY <2>4, <3>2, <4>1, <4>2, ToggleNoted DEF ToggleRecompute
      <3> QED BY <2>4, <3>1, <3>2 DEF ToggleRecompute
    <2>5. CASE ToggleRecomputeRows
      <3>1. CASE EndToggle
        BY <2>1, <2>5, <3>1 DEF ToggleRecomputeRows, EndToggle
      <3>2. CASE /\ toggle' = [toggle EXCEPT !.pc = "writeError",
                                             !.next = FolderError]
                 /\ UNCHANGED busyFolders
        <4>1. FolderError \in Errors
          BY DEF FolderError, Errors
        <4>2. "writeError" \in TogglePcs
          BY DEF TogglePcs
        <4> QED BY <2>5, <3>2, <4>1, <4>2, ToggleNoted DEF ToggleRecomputeRows
      <3> QED BY <2>5, <3>1, <3>2 DEF ToggleRecomputeRows
    <2>6. CASE ToggleWriteError
      BY <2>1, <2>6 DEF ToggleWriteError, EndToggle, Account
    <2> QED BY <2>2, <2>3, <2>4, <2>5, <2>6 DEF ToggleStep
  <1> QED BY <1>1, <1>2, <1>3 DEF TypeOK, RerunsCounted, Owners

LEMMA RequestsTyped ==
  ASSUME TypeOK, RerunsCounted, Requests
  PROVE  TypeOK' /\ RerunsCounted'
  <1> USE DEF folderRows, tasks
  <1>0. Coroutines
    BY DEF TypeOK, Coroutines
  <1>1. ASSUME NEW scope \in Folders \cup {All}, Defer(scope)
        PROVE  TypeOK' /\ RerunsCounted'
    <2>1. enqueueWork(pendingWork, scope) \in Work
      BY DEF TypeOK, enqueueWork, Work
    <2> QED BY <1>1, <2>1 DEF Defer, TypeOK, RerunsCounted
  <1>2. ASSUME NEW scope \in Folders \cup {All}, NEW t \in Tasks,
               StartSync(t, scope)
        PROVE  TypeOK' /\ RerunsCounted'
    <2>1. /\ CallFrom(t, <<>>, scope)
          /\ UNCHANGED <<acc, rows, selected, status, writes, syncing,
                         maintaining, cancelling, settingUp, busyFolders,
                         pendingWork, connected, reply, window, toggle>>
      BY <1>2 DEF StartSync
    <2>2. <<>> \in Seq(SUBSET Folders)
      OBVIOUS
    <2>3. /\ pc' \in [Tasks -> Pcs] /\ job' \in [Tasks -> Job]
          /\ frames' \in [Tasks -> Seq(SUBSET Folders)]
      BY <1>0, <2>1, <2>2, CallType, Zenon
    <2>4. OnlyMoves(t) /\ pc'[t] = "entry"
      BY <1>0, <2>1, <2>3 DEF CallFrom, OnlyMoves, Coroutines
    <2> QED BY <1>0, <2>1, <2>3, <2>4, RerunsKept DEF TypeOK
  <1>3. ASSUME NEW t \in Tasks, StartMaintain(t)
        PROVE  TypeOK' /\ RerunsCounted'
    <2>1. /\ Goto(t, "maintainEntry")
          /\ UNCHANGED <<acc, rows, selected, status, writes, syncing,
                         maintaining, cancelling, settingUp, busyFolders,
                         pendingWork, connected, job, frames, reply, window,
                         toggle>>
      BY <1>3 DEF StartMaintain
    <2>2. OnlyMoves(t) /\ pc'[t] = "maintainEntry"
      BY <1>0, <2>1, GotoMoves DEF Pcs
    <2> QED BY <1>0, <2>1, <2>2, RerunsKept DEF TypeOK, OnlyMoves
  <1>4. ASSUME NEW w \in Windows, AbortAccountSync(w)
        PROVE  TypeOK' /\ RerunsCounted'
    <2>1. window' \in [Windows -> WindowPcs]
      BY <1>4 DEF AbortAccountSync, Move, TypeOK, WindowPcs, TeardownPcs
    <2>2. reply' \in [Tasks -> AnyReply \cup {"none"}]
      BY <1>4 DEF AbortAccountSync, Reject, TypeOK, AnyReply
    <2>3. pendingWork' \in Work /\ cancelling' \in BOOLEAN
      BY <1>4 DEF AbortAccountSync, NoWork, Work
    <2> QED BY <1>4, <2>1, <2>2, <2>3
            DEF AbortAccountSync, TypeOK, RerunsCounted
  <1>5. ASSUME NEW w \in Windows, Connect(w) \/ Authenticate(w)
        PROVE  TypeOK' /\ RerunsCounted'
    <2>1. window' \in [Windows -> WindowPcs]
      BY <1>5 DEF Connect, Authenticate, Move, TypeOK, WindowPcs
    <2> QED BY <1>5, <2>1 DEF Connect, Authenticate, TypeOK, RerunsCounted
  <1>6. CASE SelectFolder
    <2>1. PICK f \in (rows \cap Toggled) \ busyFolders, on \in BOOLEAN :
            /\ busyFolders' = busyFolders \cup {f}
            /\ toggle' = [pc |-> "command", folder |-> f, on |-> on,
                          next |-> "none"]
      BY <1>6 DEF SelectFolder
    <2>2. toggle' \in [pc : TogglePcs, folder : Folders \cup {All},
                       on : BOOLEAN, next : Errors]
      BY <2>1 DEF TypeOK, TogglePcs, Errors
    <2> QED BY <1>6, <2>1, <2>2 DEF SelectFolder, TypeOK, RerunsCounted
  <1> QED BY <1>1, <1>2, <1>3, <1>4, <1>5, <1>6 DEF Requests

LEMMA ProviderTyped ==
  ASSUME TypeOK, RerunsCounted, Provider
  PROVE  TypeOK' /\ RerunsCounted'
  <1> USE DEF folderRows, tasks, RerunsCounted
  <1>1. ASSUME NEW t \in Tasks, Answer(t) \/ Timeout(t)
        PROVE  TypeOK' /\ RerunsCounted'
    <2>1. reply' \in [Tasks -> AnyReply \cup {"none"}]
      BY <1>1, ConstantsAssumption DEF Answer, Timeout, TypeOK, AnyReply
    <2> QED BY <1>1, <2>1 DEF Answer, Timeout, TypeOK
  <1>2. CASE PortLost
    <2>1. reply' \in [Tasks -> AnyReply \cup {"none"}]
      BY <1>2 DEF PortLost, Reject, TypeOK, AnyReply
    <2> QED BY <1>2, <2>1 DEF PortLost, TypeOK
  <1>3. CASE PortOpened
    BY <1>3 DEF PortOpened, TypeOK
  <1>4. CASE SetAccountSetupLock
    BY <1>4 DEF SetAccountSetupLock, TypeOK
  <1>5. CASE PushFolderList
    <2>1. /\ rows' \in SUBSET Folders /\ selected' \in SUBSET rows'
          /\ status' \in [Folders -> Statuses]
      <3>1. Stored
        BY DEF TypeOK, Stored
      <3> QED BY <1>5, <3>1, ReplaceFoldersTyped DEF PushFolderList
    <2> QED BY <1>5, <2>1 DEF PushFolderList, TypeOK
  <1> QED BY <1>1, <1>2, <1>3, <1>4, <1>5 DEF Provider

LEMMA NextTyped ==
  ASSUME TypeOK, RerunsCounted, [Next]_vars
  PROVE  TypeOK' /\ RerunsCounted'
  <1>1. CASE Step
    BY <1>1, SyncStepTyped, MaintainStepTyped, WindowStepTyped,
       ToggleStepTyped, RequestsTyped, ProviderTyped DEF Step
  <1>2. CASE UNCHANGED vars
    BY <1>2 DEF vars, folderRows, tasks, TypeOK, RerunsCounted
  <1> QED BY <1>1, <1>2 DEF Next, Spin

LEMMA InitTyped ==
  ASSUME Init
  PROVE  TypeOK /\ RerunsCounted
  <1> USE DEF Init
  <1>1. acc \in Account
    BY DEF Account, Errors
  <1>2. status \in [Folders -> Statuses]
    BY DEF Statuses
  <1>3. writes \in Seq(Tasks \cup Windows \cup {Toggler})
    OBVIOUS
  <1>4. pendingWork \in Work
    BY DEF NoWork, Work
  <1>5. Coroutines
    <2>1. NewJob(All) \in Job
      BY NewJobType
    <2>2. pc \in [Tasks -> Pcs] /\ reply \in [Tasks -> AnyReply \cup {"none"}]
      BY DEF Pcs
    <2>3. <<>> \in Seq(SUBSET Folders)
      OBVIOUS
    <2> QED BY <2>1, <2>2, <2>3 DEF Coroutines
  <1>6. window \in [Windows -> WindowPcs]
    BY DEF WindowPcs
  <1>7. toggle \in [pc : TogglePcs, folder : Folders \cup {All},
                   on : BOOLEAN, next : Errors]
    BY DEF NoToggle, TogglePcs, Errors
  <1>8. TypeOK
    BY <1>1, <1>2, <1>3, <1>4, <1>5, <1>6, <1>7 DEF TypeOK, Coroutines
  <1>9. RerunsCounted
    BY DEF RerunsCounted
  <1> QED BY <1>8, <1>9

(* Every variable keeps its type and no coroutine waits for more reruns    *)
(* than MAX_ACCOUNT_RERUNS allows, whatever the coroutines, windows and    *)
(* folders are.                                                            *)
THEOREM TypeCorrect == Spec => [](TypeOK /\ RerunsCounted)
  <1>1. Init => TypeOK /\ RerunsCounted
    BY InitTyped
  <1>2. TypeOK /\ RerunsCounted /\ [Next]_vars => (TypeOK /\ RerunsCounted)'
    BY NextTyped
  <1> QED BY <1>1, <1>2, PTL DEF Spec

-----------------------------------------------------------------------------
(***************************************************************************)
(* Every lock has an owner.  LocksHaveOwners is inductive with TypeOK and  *)
(* RerunsCounted: a step moves one coroutine, one window or the toggle,    *)
(* and whoever leaves the places that own a lock clears it in that step.   *)
(***************************************************************************)
SyncOwned == syncing => \E t \in Tasks : pc[t] \in Holding
MaintainOwned == maintaining => \E t \in Tasks : pc[t] = "MAINTAIN"
CancelOwned == cancelling => \E w \in Windows : window[w] \in TeardownPcs
FoldersOwned == /\ busyFolders \subseteq {toggle.folder}
                /\ busyFolders # {} => toggle.pc # "idle"

LEMMA LocksSplit ==
  /\ LocksHaveOwners <=> SyncOwned /\ MaintainOwned /\ CancelOwned /\ FoldersOwned
  /\ LocksHaveOwners' <=>
       SyncOwned' /\ MaintainOwned' /\ CancelOwned' /\ FoldersOwned'
  BY DEF LocksHaveOwners, SyncOwned, MaintainOwned, CancelOwned, FoldersOwned

(* A step of one coroutine.                                                *)
LEMMA CoroutineOwners ==
  ASSUME NEW t \in Tasks, pc \in [Tasks -> Pcs],
         pc' = [pc EXCEPT ![t] = pc'[t]], SyncOwned, MaintainOwned,
         syncing' => pc'[t] \in Holding \/ (syncing /\ pc[t] \notin Holding),
         maintaining' => \/ pc'[t] = "MAINTAIN"
                         \/ maintaining /\ pc[t] # "MAINTAIN"
  PROVE  SyncOwned' /\ MaintainOwned'
  <1>1. ASSUME NEW u \in Tasks, u # t
        PROVE  pc'[u] = pc[u]
    BY <1>1
  <1>2. SyncOwned'
    BY <1>1 DEF SyncOwned
  <1>3. MaintainOwned'
    BY <1>1 DEF MaintainOwned
  <1> QED BY <1>2, <1>3

LEMMA SyncStepOwners ==
  ASSUME TypeOK, RerunsCounted, LocksHaveOwners, NEW t \in Tasks, SyncStep(t)
  PROVE  LocksHaveOwners'
  <1>1. SyncEffect(t)
    BY SyncStepEffect
  <1>2. pc[t] # "MAINTAIN"
    BY DEF SyncStep, Enter, Runnable, BackoffElapsed, Rerun, AccountSynced,
           FoldersListed, Replaced, List, Folder, Stamp, FolderSynced,
           Recorded, FlagAccountForReauth, Residual, Downgrade, SettleFailed,
           StampAccount, Recompute, RecomputeRows, WriteError
  <1>3. UNCHANGED <<maintaining, cancelling, busyFolders, window, toggle>>
    BY DEF SyncStep
  <1>4. SyncOwned' /\ MaintainOwned'
    BY <1>1, <1>2, <1>3, CoroutineOwners, LocksSplit
       DEF SyncEffect, OnlyMoves, TypeOK
  <1>5. CancelOwned' /\ FoldersOwned'
    BY <1>3, LocksSplit DEF CancelOwned, FoldersOwned
  <1> QED BY <1>4, <1>5, LocksSplit

LEMMA MaintainStepOwners ==
  ASSUME TypeOK, LocksHaveOwners, NEW t \in Tasks, MaintainStep(t)
  PROVE  LocksHaveOwners'
  <1>0. Coroutines /\ pendingWork \in Work /\ syncing \in BOOLEAN
    BY DEF TypeOK, Coroutines
  <1>1. UNCHANGED <<syncing, cancelling, busyFolders, window, toggle>>
    BY DEF MaintainStep
  <1>2. SyncOwned' /\ MaintainOwned'
    <2>1. CASE MaintainEnter(t)
      BY <1>0, <1>1, <2>1, CoroutineOwners, LocksSplit
         DEF MaintainEnter, Goto, Post, Coroutines, Holding
    <2>2. CASE Maintained(t)
      <3>1. pc[t] = "MAINTAIN" /\ maintaining' = FALSE
        BY <2>2 DEF Maintained
      <3>2. PICK open \in Seq(SUBSET Folders), lock \in BOOLEAN :
              DrainFrom(t, open, lock)
        <4>1. <<{}>> \in Seq(SUBSET Folders)
          OBVIOUS
        <4> QED BY <1>0, <2>2, <4>1, Zenon DEF Maintained
      <3>3. /\ pc' \in [Tasks -> Pcs] /\ job' \in [Tasks -> Job]
            /\ frames' \in [Tasks -> Seq(SUBSET Folders)]
            /\ pendingWork' \in Work
            /\ pc' = [pc EXCEPT ![t] = pc'[t]]
            /\ pc'[t] \in {"idle", "entry", "spinning"}
            /\ job' = [job EXCEPT ![t] = job'[t]]
        BY <1>0, <3>2, DrainType, Zenon
      <3> QED BY <1>0, <1>1, <3>1, <3>3, CoroutineOwners, LocksSplit
              DEF Coroutines, Holding
    <2> QED BY <2>1, <2>2 DEF MaintainStep
  <1>3. CancelOwned' /\ FoldersOwned'
    BY <1>1, LocksSplit DEF CancelOwned, FoldersOwned
  <1> QED BY <1>2, <1>3, LocksSplit

(* A window owns the mark from its abort until it clears it.               *)
LEMMA WindowStepOwners ==
  ASSUME TypeOK, LocksHaveOwners, NEW w \in Windows, WindowStep(w)
  PROVE  LocksHaveOwners'
  <1>1. UNCHANGED <<syncing, maintaining, busyFolders, pc, toggle>>
    BY DEF WindowStep, tasks
  <1>2. PICK from \in WindowPcs, to \in WindowPcs :
          /\ Move(w, from, to)
          /\ cancelling' =>
               cancelling /\ (from \in TeardownPcs => to \in TeardownPcs)
    <2>1. CASE TeardownCommandSettled(w)
      BY <2>1 DEF TeardownCommandSettled, WindowPcs, TeardownPcs
    <2>2. CASE DisableAccount(w)
      BY <2>2 DEF DisableAccount, WindowPcs, TeardownPcs
    <2>3. CASE ClearAccount(w)
      BY <2>3 DEF ClearAccount, WindowPcs, TeardownPcs
    <2>4. CASE TargetsDeleted(w)
      BY <2>4 DEF TargetsDeleted, WindowPcs, TeardownPcs
    <2>5. CASE RemoveAccount(w)
      BY <2>5 DEF RemoveAccount, WindowPcs, TeardownPcs
    <2>6. CASE ConnectCommandSettled(w)
      BY <2>6 DEF ConnectCommandSettled, WindowPcs, TeardownPcs
    <2>7. CASE ConnectWritten(w)
      BY <2>7 DEF ConnectWritten, WindowPcs, TeardownPcs
    <2> QED BY <2>1, <2>2, <2>3, <2>4, <2>5, <2>6, <2>7 DEF WindowStep
  <1>3. CancelOwned'
    <2>1. /\ window[w] = from /\ window'[w] = to
          /\ \A v \in Windows \ {w} : window'[v] = window[v]
      BY <1>2 DEF Move, TypeOK
    <2> QED BY <1>2, <2>1, LocksSplit DEF CancelOwned
  <1>4. SyncOwned' /\ MaintainOwned' /\ FoldersOwned'
    BY <1>1, LocksSplit DEF SyncOwned, MaintainOwned, FoldersOwned
  <1> QED BY <1>3, <1>4, LocksSplit

(* A toggle frees its folder in the step that ends it.                     *)
LEMMA ToggleStepOwners ==
  ASSUME TypeOK, LocksHaveOwners, ToggleStep
  PROVE  LocksHaveOwners'
  <1>1. UNCHANGED <<syncing, maintaining, cancelling, pc, window>>
    BY DEF ToggleStep, tasks
  <1>2. FoldersOwned'
    <2>1. CASE EndToggle
      BY <2>1, LocksSplit DEF EndToggle, FoldersOwned
    <2>2. CASE /\ toggle'.folder = toggle.folder /\ toggle'.pc # "idle"
               /\ UNCHANGED busyFolders
      BY <2>2, LocksSplit DEF FoldersOwned
    <2>3. EndToggle \/ (/\ toggle'.folder = toggle.folder
                        /\ toggle'.pc # "idle" /\ UNCHANGED busyFolders)
      BY DEF ToggleStep, ToggleCommandSettled, ToggleWritten, ToggleRecompute,
             ToggleRecomputeRows, ToggleWriteError, TypeOK
    <2> QED BY <2>1, <2>2, <2>3
  <1>3. SyncOwned' /\ MaintainOwned' /\ CancelOwned'
    BY <1>1, LocksSplit DEF SyncOwned, MaintainOwned, CancelOwned
  <1> QED BY <1>2, <1>3, LocksSplit

LEMMA RequestsOwners ==
  ASSUME TypeOK, LocksHaveOwners, Requests
  PROVE  LocksHaveOwners'
  <1> USE DEF tasks
  <1>1. ASSUME NEW t \in Tasks,
               StartMaintain(t)
                 \/ \E scope \in Folders \cup {All} : StartSync(t, scope)
        PROVE  LocksHaveOwners'
    <2>1. /\ pc[t] = "idle" /\ pc' = [pc EXCEPT ![t] = pc'[t]]
          /\ UNCHANGED <<syncing, maintaining, cancelling, busyFolders,
                         window, toggle>>
      BY <1>1 DEF StartMaintain, StartSync, CallFrom, Goto, TypeOK
    <2>2. SyncOwned' /\ MaintainOwned'
      BY <2>1, CoroutineOwners, LocksSplit DEF TypeOK, Holding
    <2>3. CancelOwned' /\ FoldersOwned'
      BY <2>1, LocksSplit DEF CancelOwned, FoldersOwned
    <2> QED BY <2>2, <2>3, LocksSplit
  <1>2. ASSUME NEW scope \in Folders \cup {All}, Defer(scope)
        PROVE  LocksHaveOwners'
    BY <1>2 DEF Defer, LocksHaveOwners
  <1>3. ASSUME NEW w \in Windows,
               AbortAccountSync(w) \/ Connect(w) \/ Authenticate(w)
        PROVE  LocksHaveOwners'
    <2>1. UNCHANGED <<syncing, maintaining, busyFolders, pc, toggle>>
      BY <1>3 DEF AbortAccountSync, Connect, Authenticate
    <2>2. SyncOwned' /\ MaintainOwned' /\ FoldersOwned'
      BY <2>1, LocksSplit DEF SyncOwned, MaintainOwned, FoldersOwned
    <2>3. CancelOwned'
      <3>1. CASE AbortAccountSync(w)
        BY <3>1 DEF AbortAccountSync, Move, TypeOK, CancelOwned, TeardownPcs
      <3>2. CASE Connect(w) \/ Authenticate(w)
        <4>1. /\ cancelling' = cancelling /\ window[w] = "idle"
              /\ window' = [window EXCEPT ![w] = window'[w]]
          BY <3>2 DEF Connect, Authenticate, Move, TypeOK
        <4>2. \A v \in Windows \ {w} : window'[v] = window[v]
          BY <4>1 DEF TypeOK
        <4> QED BY <4>1, <4>2, LocksSplit DEF CancelOwned, TeardownPcs
      <3> QED BY <1>3, <3>1, <3>2
    <2> QED BY <2>2, <2>3, LocksSplit
  <1>4. CASE SelectFolder
    <2>1. toggle.pc = "idle" /\ toggle'.pc = "command"
          /\ busyFolders' = busyFolders \cup {toggle'.folder}
          /\ UNCHANGED <<syncing, maintaining, cancelling, pc, window>>
      BY <1>4 DEF SelectFolder
    <2>2. busyFolders = {}
      BY <2>1 DEF LocksHaveOwners
    <2> QED BY <2>1, <2>2 DEF LocksHaveOwners
  <1> QED BY <1>1, <1>2, <1>3, <1>4 DEF Requests

LEMMA ProviderOwners ==
  ASSUME LocksHaveOwners, Provider
  PROVE  LocksHaveOwners'
  BY DEF Provider, Answer, Timeout, PortLost, PortOpened, SetAccountSetupLock,
         PushFolderList, tasks, LocksHaveOwners

LEMMA NextOwners ==
  ASSUME TypeOK, RerunsCounted, LocksHaveOwners, [Next]_vars
  PROVE  LocksHaveOwners'
  <1>1. CASE Step
    BY <1>1, SyncStepOwners, MaintainStepOwners, WindowStepOwners,
       ToggleStepOwners, RequestsOwners, ProviderOwners DEF Step
  <1>2. CASE UNCHANGED vars
    BY <1>2 DEF vars, tasks, LocksHaveOwners
  <1> QED BY <1>1, <1>2 DEF Next, Spin

(* No path through syncAccount, maintainAccount, a teardown or a toggle    *)
(* leaves a lock, a cancel mark or a busy folder behind, however many of   *)
(* them run at once.                                                       *)
THEOREM LocksReleased == Spec => []LocksHaveOwners
  <1>1. Init => LocksHaveOwners
    BY DEF Init, LocksHaveOwners
  <1>2. TypeOK /\ RerunsCounted /\ LocksHaveOwners /\ [Next]_vars
          => LocksHaveOwners'
    BY NextOwners
  <1> QED BY <1>1, <1>2, TypeCorrect, PTL DEF Spec

-----------------------------------------------------------------------------
(***************************************************************************)
(* Every "pending" row has a coroutine that will rewrite it.  The invariant*)
(* is inductive once it is known that a folder without a row reads "none": *)
(* a sync that finds no row "pending" then leaves no folder "pending".     *)
(***************************************************************************)
RowsOnly == \A f \in Folders : f \notin rows => status[f] = "none"
Writer(t, f) ==
  \/ pc[t] \in Holding \cup {"residual"}
  \/ pc[t] = "downgrade" /\ f \in job[t].todo

LEMMA PendingSplit ==
  /\ PendingHasWriter <=> \A f \in Folders : status[f] = "pending" =>
                            \E t \in Tasks : Writer(t, f)
  /\ PendingHasWriter' <=> \A f \in Folders : status'[f] = "pending" =>
                            \E t \in Tasks : Writer(t, f)'
  BY DEF PendingHasWriter, Writer

LEMMA SetStatusRows ==
  ASSUME Stored, RowsOnly, NEW f, NEW value \in Statuses, SetStatus(f, value),
         UNCHANGED rows
  PROVE  /\ RowsOnly'
         /\ \A g \in Folders : g # f => status'[g] = status[g]
         /\ f \in Folders /\ value # "pending" => status'[f] # "pending"
  BY DEF Stored, RowsOnly, SetStatus

(* Only four of its actions touch the rows of an account.                  *)
LEMMA SyncStepRows ==
  ASSUME TypeOK, RowsOnly, NEW t \in Tasks, SyncStep(t)
  PROVE  /\ RowsOnly'
         /\ UNCHANGED <<rows, status>> \/ pc[t] \in Holding \/ Downgrade(t)
  <1>0. Stored
    BY DEF TypeOK, Stored
  <1>1. \/ UNCHANGED <<rows, status>> \/ Replaced(t) \/ Stamp(t)
        \/ Recorded(t) \/ Downgrade(t)
    BY DEF SyncStep, Enter, Runnable, BackoffElapsed, Rerun, AccountSynced,
           FoldersListed, List, Folder, FolderSynced, FlagAccountForReauth,
           Residual, SettleFailed, StampAccount, Recompute, RecomputeRows,
           WriteError, folderRows
  <1>2. CASE UNCHANGED <<rows, status>>
    BY <1>2 DEF RowsOnly
  <1>3. CASE Replaced(t)
    BY <1>3 DEF Replaced, ReplaceFolders, RowsOnly, Holding
  <1>4. CASE Stamp(t)
    <2>1. /\ pc[t] = "stamp" /\ UNCHANGED rows
          /\ SetStatus(job[t].cur, "pending")
      BY <1>4 DEF Stamp
    <2> QED BY <1>0, <2>1, SetStatusRows DEF Holding, Statuses
  <1>5. CASE Recorded(t)
    <2>1. /\ pc[t] = "record" /\ UNCHANGED rows
          /\ SetStatus(job[t].cur, IF reply[t] = "ok" THEN "done" ELSE "error")
      BY <1>5 DEF Recorded
    <2> QED BY <1>0, <2>1, SetStatusRows DEF Holding, Statuses
  <1>6. CASE Downgrade(t)
    <2>1. PICK f : SetStatus(f, "aborted") /\ UNCHANGED rows
      BY <1>6 DEF Downgrade
    <2> QED BY <1>0, <1>6, <2>1, SetStatusRows DEF Statuses
  <1> QED BY <1>1, <1>2, <1>3, <1>4, <1>5, <1>6

(* What is "pending" after a step of t's sync has t as its writer, or was  *)
(* "pending" before without t being it.                                    *)
LEMMA SyncStepPending ==
  ASSUME TypeOK, RerunsCounted, RowsOnly, NEW t \in Tasks, SyncStep(t),
         NEW g \in Folders, status'[g] = "pending"
  PROVE  Writer(t, g)' \/ (status[g] = "pending" /\ ~Writer(t, g))
  <1>0. Stored /\ Coroutines
    BY DEF TypeOK, Stored, Coroutines
  <1>1. SyncEffect(t)
    BY SyncStepEffect
  <1>2. CASE pc[t] \in Holding
    BY <1>1, <1>2 DEF SyncEffect, Writer
  <1>3. CASE Downgrade(t)
    <2>1. PICK f \in job[t].todo :
            /\ SetStatus(f, "aborted")
            /\ IF job[t].todo = {f} THEN Settle(t)
               ELSE /\ job' = [job EXCEPT ![t].todo = @ \ {f}]
                    /\ UNCHANGED pc /\ InCall
      BY <1>3 DEF Downgrade
    <2>2. pc[t] = "downgrade" /\ UNCHANGED rows
      BY <1>3 DEF Downgrade
    <2>3. f \in Folders
      BY <1>0 DEF Coroutines, Job
    <2>4. g # f /\ status[g] = "pending"
      BY <1>0, <2>1, <2>2, <2>3, SetStatusRows DEF Statuses
    <2>5. CASE g \notin job[t].todo
      BY <2>2, <2>4, <2>5 DEF Writer, Holding
    <2>6. CASE g \in job[t].todo
      <3>1. job' = [job EXCEPT ![t].todo = @ \ {f}] /\ pc'[t] = "downgrade"
        BY <2>1, <2>2, <2>4, <2>6
      <3>2. g \in job'[t].todo
        BY <1>0, <2>4, <2>6, <3>1 DEF Coroutines, Job
      <3> QED BY <3>1, <3>2 DEF Writer
    <2> QED BY <2>5, <2>6
  <1>4. CASE UNCHANGED <<rows, status>> /\ Residual(t)
    <2>1. g \in {f \in rows : status[f] = "pending"}
      BY <1>4 DEF RowsOnly
    <2>2. /\ Goto(t, "downgrade")
          /\ job' = [job EXCEPT ![t].todo =
                           {f \in rows : status[f] = "pending"}]
      BY <1>4, <2>1 DEF Residual
    <2> QED BY <1>0, <2>1, <2>2 DEF Goto, Writer, Coroutines, Job
  <1>5. CASE /\ UNCHANGED <<rows, status>> /\ pc[t] \notin Holding
             /\ ~Residual(t) /\ ~Downgrade(t)
    <2>1. pc[t] \notin {"residual", "downgrade"}
      BY <1>5 DEF SyncStep, Enter, Runnable, BackoffElapsed, Rerun,
         AccountSynced, FoldersListed, Replaced, List, Folder, Stamp,
         FolderSynced, Recorded, FlagAccountForReauth, SettleFailed,
         StampAccount, Recompute, RecomputeRows, WriteError
    <2> QED BY <1>5, <2>1 DEF Writer
  <1> QED BY <1>2, <1>3, <1>4, <1>5, SyncStepRows

(* Any step that moves at most one coroutine keeps the invariant if it     *)
(* does so for that coroutine.                                             *)
LEMMA PendingKept ==
  ASSUME Coroutines, PendingHasWriter, NEW t \in Tasks, OnlyMoves(t),
         \A f \in Folders : status'[f] = "pending" =>
           Writer(t, f)' \/ (status[f] = "pending" /\ ~Writer(t, f))
  PROVE  PendingHasWriter'
  <1>1. ASSUME NEW u \in Tasks, u # t
        PROVE  pc'[u] = pc[u] /\ job'[u] = job[u]
    BY <1>1 DEF Coroutines, OnlyMoves
  <1>2. ASSUME NEW f \in Folders, status'[f] = "pending"
        PROVE  \E u \in Tasks : Writer(u, f)'
    <2>1. CASE Writer(t, f)'
      BY <2>1
    <2>2. CASE status[f] = "pending" /\ ~Writer(t, f)
      <3>1. PICK u \in Tasks : Writer(u, f)
        BY <2>2, PendingSplit
      <3> QED BY <1>1, <2>2, <3>1 DEF Writer
    <2> QED BY <1>2, <2>1, <2>2
  <1> QED BY <1>2, PendingSplit

(* A step that moves no coroutine marks no row "pending".                  *)
LEMMA PendingStill ==
  ASSUME PendingHasWriter, UNCHANGED <<pc, job>>,
         \A f \in Folders : status'[f] = "pending" => status[f] = "pending"
  PROVE  PendingHasWriter'
  BY DEF PendingHasWriter

RowsTracked == RowsOnly /\ PendingHasWriter

LEMMA CoroutinesPending ==
  ASSUME TypeOK, RerunsCounted, RowsTracked, NEW t \in Tasks,
         \/ SyncStep(t) \/ MaintainStep(t) \/ StartMaintain(t)
         \/ \E scope \in Folders \cup {All} : StartSync(t, scope)
  PROVE  RowsTracked'
  <1>0. Coroutines /\ pendingWork \in Work /\ syncing \in BOOLEAN
    BY DEF TypeOK, Coroutines
  <1>1. CASE SyncStep(t)
    BY <1>0, <1>1, SyncStepRows, SyncStepEffect, SyncStepPending, PendingKept
       DEF RowsTracked, SyncEffect
  <1>2. ASSUME OnlyMoves(t), UNCHANGED <<rows, status>>,
               pc[t] \in {"idle", "maintainEntry", "MAINTAIN"}
        PROVE  RowsTracked'
    <2>1. RowsOnly'
      BY <1>2 DEF RowsTracked, RowsOnly
    <2>2. ASSUME NEW f \in Folders PROVE ~Writer(t, f)
      BY <1>2 DEF Writer, Holding
    <2> QED BY <1>0, <1>2, <2>1, <2>2, PendingKept DEF RowsTracked
  <1>3. CASE MaintainStep(t)
    <2>1. UNCHANGED <<rows, status>>
      BY <1>3 DEF MaintainStep, folderRows
    <2>2. CASE MaintainEnter(t)
      BY <1>0, <1>2, <2>1, <2>2
         DEF MaintainEnter, Goto, Post, OnlyMoves, Coroutines, Pcs
    <2>3. CASE Maintained(t)
      <3>1. PICK open \in Seq(SUBSET Folders), lock \in BOOLEAN :
              DrainFrom(t, open, lock)
        <4>1. <<{}>> \in Seq(SUBSET Folders)
          OBVIOUS
        <4> QED BY <1>0, <2>3, <4>1, Zenon DEF Maintained
      <3>2. /\ pc' \in [Tasks -> Pcs] /\ job' \in [Tasks -> Job]
            /\ frames' \in [Tasks -> Seq(SUBSET Folders)]
            /\ pendingWork' \in Work
            /\ pc' = [pc EXCEPT ![t] = pc'[t]]
            /\ pc'[t] \in {"idle", "entry", "spinning"}
            /\ job' = [job EXCEPT ![t] = job'[t]]
        BY <1>0, <3>1, DrainType, Zenon
      <3>3. pc[t] = "MAINTAIN"
        BY <2>3 DEF Maintained
      <3>4. OnlyMoves(t)
        BY <3>2 DEF OnlyMoves
      <3> QED BY <1>2, <2>1, <3>3, <3>4
    <2> QED BY <1>3, <2>2, <2>3 DEF MaintainStep
  <1>4. CASE StartMaintain(t)
    BY <1>0, <1>2, <1>4
       DEF StartMaintain, Goto, OnlyMoves, Coroutines, Pcs, folderRows
  <1>5. ASSUME NEW scope \in Folders \cup {All}, StartSync(t, scope)
        PROVE  RowsTracked'
    <2>1. NewJob(scope) \in Job
      BY NewJobType
    <2> QED BY <1>0, <1>2, <1>5, <2>1
            DEF StartSync, CallFrom, OnlyMoves, Coroutines, Pcs, folderRows
  <1> QED BY <1>1, <1>3, <1>4, <1>5

LEMMA OthersPending ==
  ASSUME TypeOK, RowsTracked,
         \/ \E w \in Windows : WindowStep(w) \/ AbortAccountSync(w)
                                \/ Connect(w) \/ Authenticate(w)
         \/ \E scope \in Folders \cup {All} : Defer(scope)
         \/ ToggleStep \/ SelectFolder \/ Provider
  PROVE  RowsTracked'
  <1>0. Stored
    BY DEF TypeOK, Stored
  <1> USE DEF folderRows, tasks
  <1>1. UNCHANGED <<pc, job>>
    BY DEF WindowStep, AbortAccountSync, Connect, Authenticate, Defer,
       ToggleStep, SelectFolder, Provider, Answer, Timeout, PortLost,
       PortOpened, SetAccountSetupLock, PushFolderList
  <1>2. \/ UNCHANGED <<rows, status>> \/ ToggleWritten \/ PushFolderList
        \/ \E w \in Windows : ClearAccount(w)
    BY DEF WindowStep, AbortAccountSync, Connect, Authenticate, Defer,
       ToggleStep, SelectFolder, Provider, Answer, Timeout, PortLost,
       PortOpened, SetAccountSetupLock, TeardownCommandSettled,
       DisableAccount, TargetsDeleted, RemoveAccount, ConnectCommandSettled,
       ConnectWritten, ToggleCommandSettled, ToggleRecompute,
       ToggleRecomputeRows, ToggleWriteError
  <1>3. /\ RowsOnly'
        /\ \A f \in Folders : status'[f] = "pending" => status[f] = "pending"
    <2>1. CASE UNCHANGED <<rows, status>>
      BY <2>1 DEF RowsTracked, RowsOnly
    <2>2. CASE ToggleWritten
      <3>1. CASE UNCHANGED status
        BY <2>2, <3>1 DEF ToggleWritten, RowsTracked, RowsOnly
      <3>2. CASE SetStatus(toggle.folder, "none")
        BY <1>0, <2>2, <3>2, SetStatusRows
           DEF ToggleWritten, RowsTracked, Statuses
      <3> QED BY <2>2, <3>1, <3>2 DEF ToggleWritten
    <2>3. CASE PushFolderList
      BY <2>3 DEF PushFolderList, ReplaceFolders, RowsOnly
    <2>4. ASSUME NEW w \in Windows, ClearAccount(w)
          PROVE  /\ RowsOnly'
                 /\ \A f \in Folders : status'[f] # "pending"
      BY <2>4 DEF ClearAccount, RowsOnly
    <2> QED BY <1>2, <2>1, <2>2, <2>3, <2>4
  <1> QED BY <1>1, <1>3, PendingStill DEF RowsTracked

LEMMA NextPending ==
  ASSUME TypeOK, RerunsCounted, RowsTracked, [Next]_vars
  PROVE  RowsTracked'
  <1>1. CASE Step
    BY <1>1, CoroutinesPending, OthersPending DEF Step, Requests
  <1>2. CASE UNCHANGED vars
    BY <1>2 DEF vars, folderRows, tasks, RowsTracked, RowsOnly,
                PendingHasWriter
  <1> QED BY <1>1, <1>2 DEF Next, Spin

(* No row is left "pending" with nobody to rewrite it, whatever syncs,     *)
(* aborts, reruns, toggles and list replacements overlap.                  *)
THEOREM PendingWritten == Spec => []PendingHasWriter
  <1>1. Init => RowsTracked
    BY DEF Init, RowsTracked, RowsOnly, PendingHasWriter
  <1>2. TypeOK /\ RerunsCounted /\ RowsTracked /\ [Next]_vars => RowsTracked'
    BY NextPending
  <1>3. RowsTracked => PendingHasWriter
    BY DEF RowsTracked
  <1> QED BY <1>1, <1>2, <1>3, TypeCorrect, PTL DEF Spec

-----------------------------------------------------------------------------
(***************************************************************************)
(* Deferred requests.  Only a drain, a request or an abort changes the     *)
(* slot: the drain runs what it takes or drops it because the account is   *)
(* refused, the request joins, the abort sets the mark.                    *)
(***************************************************************************)
Kept(f) == \/ Covered(f)' \/ cancelling' \/ settingUp
           \/ \E t \in Tasks : TakenBy(t, f)'

LEMMA DrainKeeps ==
  ASSUME Coroutines, pendingWork \in Work, NEW t \in Tasks,
         NEW open \in Seq(SUBSET Folders), NEW lock \in BOOLEAN,
         DrainFrom(t, open, lock), UNCHANGED cancelling,
         NEW f \in Folders, Covered(f)
  PROVE  Kept(f)
  <1> DEFINE stack == IF open # <<>> /\ Head(open) = {} /\ pendingWork = NoWork
                      THEN Tail(open) ELSE open
  <1>0. stack \in Seq(SUBSET Folders)
    OBVIOUS
  <1> HIDE DEF stack
  <1>1. CASE UNCHANGED pendingWork
    BY <1>1 DEF Kept, Covered
  <1>2. CASE Refused
    BY <1>2 DEF Refused, Kept
  <1>3. ASSUME pendingWork.full, CallFrom(t, stack, All)
        PROVE  Kept(f)
    BY <1>3 DEF CallFrom, NewJob, TakenBy, Coroutines, Kept
  <1>4. ASSUME NEW g \in pendingWork.folderIds, ~pendingWork.full,
               CallFrom(t, <<pendingWork.folderIds \ {g}>> \o Tail(stack), g),
               stack # <<>>
        PROVE  Kept(f)
    <2> DEFINE called == <<pendingWork.folderIds \ {g}>> \o Tail(stack)
    <2>1. pendingWork.folderIds \in SUBSET Folders
      BY DEF Work
    <2>2. Tail(stack) \in Seq(SUBSET Folders)
      BY <1>0, <1>4
    <2>3. called # <<>> /\ Head(called) = pendingWork.folderIds \ {g}
      BY <2>1, <2>2
    <2>4. f \in pendingWork.folderIds
      BY <1>4 DEF Covered
    <2>5. f = g \/ f \in Head(called)
      BY <2>3, <2>4
    <2>6. CallFrom(t, called, g)
      BY <1>4
    <2> HIDE DEF called
    <2>7. /\ pc'[t] = "entry" /\ job'[t].scope = g /\ frames'[t] = called
      BY <2>6 DEF CallFrom, NewJob, Coroutines
    <2> QED BY <2>3, <2>5, <2>7 DEF TakenBy, Kept
  <1>5. \/ UNCHANGED pendingWork \/ Refused
        \/ pendingWork.full /\ CallFrom(t, stack, All)
        \/ /\ ~pendingWork.full /\ stack # <<>>
           /\ \E g \in pendingWork.folderIds :
                CallFrom(t, <<pendingWork.folderIds \ {g}>> \o Tail(stack), g)
    BY Zenon DEF DrainFrom, stack
  <1> QED BY <1>1, <1>2, <1>3, <1>4, <1>5

LEMMA ReturnKeeps ==
  ASSUME Coroutines, pendingWork \in Work, syncing \in BOOLEAN,
         maintaining \in BOOLEAN, NEW t \in Tasks, UNCHANGED cancelling,
         ReturnWithoutDrain(t) \/ ReturnAndDrain(t),
         NEW f \in Folders, Covered(f)
  PROVE  Kept(f)
  <1>1. PICK open \in Seq(SUBSET Folders), lock \in BOOLEAN :
          DrainFrom(t, open, lock)
    <2>1. frames[t] \in Seq(SUBSET Folders)
      BY DEF Coroutines
    <2>2. OpenFrame(frames[t]) \in Seq(SUBSET Folders)
      BY <2>1, OpenFrameType
    <2>3. Busy \in BOOLEAN
      BY DEF Busy
    <2> QED BY <2>1, <2>2, <2>3, Zenon DEF ReturnWithoutDrain, ReturnAndDrain
  <1> QED BY <1>1, DrainKeeps, Zenon

LEMMA SyncStepKeeps ==
  ASSUME TypeOK, NEW t \in Tasks, SyncStep(t), NEW f \in Folders, Covered(f)
  PROVE  Kept(f)
  <1>1. /\ Coroutines /\ pendingWork \in Work /\ syncing \in BOOLEAN
        /\ maintaining \in BOOLEAN
    BY DEF TypeOK, Coroutines
  <1>2. UNCHANGED cancelling
    BY DEF SyncStep
  <1>3. \/ UNCHANGED pendingWork \/ ReturnWithoutDrain(t) \/ ReturnAndDrain(t)
    BY Zenon DEF SyncStep, Enter, Runnable, BackoffElapsed, Rerun,
       AccountSynced, FoldersListed, Replaced, List, Folder, Stamp,
       FolderSynced, Recorded, FlagAccountForReauth, Residual, Downgrade,
       SettleFailed, StampAccount, Recompute, RecomputeRows, WriteError,
       Settle, InCall
  <1>4. CASE UNCHANGED pendingWork
    BY <1>4 DEF Kept, Covered
  <1> QED BY <1>1, <1>2, <1>3, <1>4, ReturnKeeps

LEMMA StepKeeps ==
  ASSUME TypeOK, Step, NEW f \in Folders, Covered(f)
  PROVE  Kept(f)
  <1> USE DEF tasks
  <1>1. ASSUME NEW t \in Tasks, MaintainStep(t)
        PROVE  Kept(f)
    <2>1. UNCHANGED cancelling
      BY <1>1 DEF MaintainStep
    <2>2. CASE MaintainEnter(t)
      BY <2>2 DEF MaintainEnter, InCall, Kept, Covered
    <2>3. CASE Maintained(t)
      <3>1. <<{}>> \in Seq(SUBSET Folders)
        OBVIOUS
      <3>2. Coroutines /\ pendingWork \in Work /\ syncing \in BOOLEAN
        BY DEF TypeOK, Coroutines
      <3>3. DrainFrom(t, <<{}>>, syncing)
        BY <2>3, Zenon DEF Maintained
      <3> QED BY <2>1, <3>1, <3>2, <3>3, DrainKeeps, Zenon
    <2> QED BY <1>1, <2>2, <2>3 DEF MaintainStep
  <1>2. ASSUME NEW scope \in Folders \cup {All}, Defer(scope)
        PROVE  Kept(f)
    BY <1>2 DEF Defer, enqueueWork, Covered, Kept, TypeOK, Work
  <1>3. ASSUME NEW w \in Windows, AbortAccountSync(w)
        PROVE  Kept(f)
    BY <1>3 DEF AbortAccountSync, Kept
  <1>4. CASE UNCHANGED pendingWork
    BY <1>4 DEF Kept, Covered
  <1>5. \/ UNCHANGED pendingWork
        \/ \E t \in Tasks : SyncStep(t) \/ MaintainStep(t)
        \/ \E scope \in Folders \cup {All} : Defer(scope)
        \/ \E w \in Windows : AbortAccountSync(w)
    BY DEF Step, WindowStep, ToggleStep, Requests, StartSync, StartMaintain,
       Connect, Authenticate, SelectFolder, Provider, Answer, Timeout,
       PortLost, PortOpened, SetAccountSetupLock, PushFolderList
  <1> QED BY <1>1, <1>2, <1>3, <1>4, <1>5, SyncStepKeeps

(* A deferred request leaves the slot only to be run, or because the       *)
(* account is being torn down or set up, however requests and drains nest. *)
THEOREM DeferredKept == Spec => RequestsKept
  <1>1. TypeOK /\ [Next]_vars
          => [\A f \in Folders : Covered(f) =>
               \/ Covered(f)' \/ cancelling' \/ settingUp
               \/ \E t \in Tasks : TakenBy(t, f)']_vars
    BY StepKeeps DEF Next, Spin, Kept
  <1> QED BY <1>1, TypeCorrect, PTL DEF Spec, RequestsKept

-----------------------------------------------------------------------------
(***************************************************************************)
(* The cancel mark with one manager window.  With two it does not hold:    *)
(* the first teardown to end clears the mark of the other.                 *)
(***************************************************************************)
LEMMA NextMarked ==
  ASSUME \A v, w \in Windows : v = w, TypeOK, MarkHeldThroughTeardown,
         [Next]_vars
  PROVE  MarkHeldThroughTeardown'
  <1> USE DEF tasks, TeardownPcs
  <1>1. CASE UNCHANGED <<cancelling, window>>
    BY <1>1 DEF MarkHeldThroughTeardown
  <1>2. ASSUME NEW w \in Windows,
               WindowStep(w) \/ AbortAccountSync(w) \/ Connect(w)
                 \/ Authenticate(w)
        PROVE  MarkHeldThroughTeardown'
    <2>1. CASE AbortAccountSync(w)
      BY <2>1 DEF AbortAccountSync, MarkHeldThroughTeardown
    <2>2. window'[w] \in TeardownPcs => cancelling' \/ AbortAccountSync(w)
      BY <1>2 DEF WindowStep, TeardownCommandSettled, DisableAccount,
         ClearAccount, TargetsDeleted, RemoveAccount, ConnectCommandSettled,
         ConnectWritten, Connect, Authenticate, Move, TypeOK,
         MarkHeldThroughTeardown
    <2> QED BY <2>1, <2>2 DEF MarkHeldThroughTeardown
  <1>3. UNCHANGED <<cancelling, window>>
        \/ \E w \in Windows : \/ WindowStep(w) \/ AbortAccountSync(w)
                               \/ Connect(w) \/ Authenticate(w)
    BY DEF Next, Step, Spin, vars, SyncStep, MaintainStep, ToggleStep,
       Requests, Defer, StartSync, StartMaintain, SelectFolder, Provider,
       Answer, Timeout, PortLost, PortOpened, SetAccountSetupLock,
       PushFolderList
  <1> QED BY <1>1, <1>2, <1>3

(* With at most one manager window the mark of abortAccountSync stands     *)
(* until the teardown that set it is over: endAccountCancel never runs     *)
(* while the record or the rows are still to be reset.                     *)
THEOREM MarkHeld ==
  ASSUME \A v, w \in Windows : v = w
  PROVE  Spec => []MarkHeldThroughTeardown
  <1>1. Init => MarkHeldThroughTeardown
    BY DEF Init, MarkHeldThroughTeardown, TeardownPcs
  <1>2. TypeOK /\ MarkHeldThroughTeardown /\ [Next]_vars
          => MarkHeldThroughTeardown'
    BY NextMarked
  <1> QED BY <1>1, <1>2, TypeCorrect, PTL DEF Spec

-----------------------------------------------------------------------------
(***************************************************************************)
(* The account's error, while one coroutine at a time is its only writer:  *)
(* no window clears it, no folder is toggled and no list is pushed behind  *)
(* the back of a sync that has read the rows, and no sync is cancelled     *)
(* between the rows it wrote and the error it would have written.          *)
(***************************************************************************)
Undisturbed ==
  /\ \A t, u \in Tasks : t = u
  /\ Windows = {} /\ Toggled = {}
  /\ "push" \notin Events /\ "cancelled" \notin Replies

(* Nothing has cancelled, disabled or removed the account.                 *)
Uncancelled ==
  /\ ~cancelling /\ acc.exists /\ acc.enabled /\ toggle.pc = "idle"
  /\ \A t \in Tasks : reply[t] # "cancelled"

Reflects == acc.error \in {"auth", "account", FolderError}

(* Where a sync is on the way to an error that reflects the rows again.    *)
Unwound(t) ==
  pc[t] \in {"residual", "downgrade"} =>
    /\ job[t].outcome # "cancelled"
    /\ job[t].outcome = "auth" => acc.error = "auth"
OnTheWay(t) ==
  /\ pc[t] \notin Holding \cup Unwinding => Reflects
  /\ Unwound(t)
  /\ pc[t] = "recomputeRows" => job[t].next = acc.error
  /\ pc[t] = "writeError" => job[t].next \in {"account", FolderError}

ErrorTracked ==
  /\ Uncancelled
  /\ Tasks = {} => Reflects
  /\ \A t \in Tasks : OnTheWay(t)

LEMMA FinallyEnds ==
  ASSUME Coroutines, ~cancelling, NEW t \in Tasks, NEW outcome, Finally(t, outcome)
  PROVE  pc'[t] = "residual" /\ job'[t].outcome = outcome
  BY DEF Coroutines, Finally, Goto, NewJob

LEMMA CheckMarkGoes ==
  ASSUME Coroutines, ~cancelling, NEW t \in Tasks, NEW todo, NEW p, CheckMark(t, todo, p)
  PROVE  pc'[t] = p
  BY DEF Coroutines, CheckMark, Goto

LEMMA CatchEnds ==
  ASSUME Coroutines, ~cancelling, NEW t \in Tasks, NEW code, code # "cancelled",
         Catch(t, code)
  PROVE  pc'[t] = "flag" \/ (pc'[t] = "residual" /\ job'[t].outcome = "threw")
  <1>1. CASE code = "auth"
    BY <1>1 DEF Catch, Goto, Coroutines
  <1>2. CASE code # "auth"
    <2>1. Finally(t, "threw")
      BY <1>2 DEF Catch
    <2> QED BY <2>1, FinallyEnds
  <1> QED BY <1>1, <1>2

LEMMA NextFolderEnds ==
  ASSUME Coroutines, ~cancelling, NEW t \in Tasks, NEW todo, NextFolder(t, todo)
  PROVE  pc'[t] = "folder" \/ (pc'[t] = "residual" /\ job'[t].outcome = "ran")
  BY FinallyEnds, CheckMarkGoes DEF NextFolder

(* A sync that holds the lock goes on, or unwinds with its outcome; that   *)
(* of a failed sign-in has been written.                                   *)
LEMMA HoldingEnds ==
  ASSUME Coroutines, Uncancelled, acc \in Account, NEW t \in Tasks, SyncStep(t),
         pc[t] \in Holding
  PROVE  pc'[t] \in Holding \/ (pc'[t] = "residual" /\ Unwound(t)')
  <1>0. /\ ~cancelling /\ acc.exists /\ acc.enabled /\ reply[t] # "cancelled"
        /\ pc \in [Tasks -> Pcs]
    BY DEF Uncancelled, Coroutines
  <1> DEFINE Ends == \/ pc'[t] \in Holding
                     \/ /\ pc'[t] = "residual"
                        /\ job'[t].outcome \in {"ran", "threw", "failed"}
  <1>1. CASE Runnable(t)
    <2>1. Finally(t, "ran") \/ Goto(t, "backoff") \/ Post(t, "SYNC_ACCOUNT")
      BY <1>0, <1>1 DEF Runnable
    <2>2. Ends
      BY <1>0, <2>1, FinallyEnds DEF Goto, Post, Holding
    <2> QED BY <2>2 DEF Unwound
  <1>2. CASE BackoffElapsed(t) \/ Rerun(t)
    <2>1. CheckMark(t, {}, "rerunnable") \/ Post(t, "SYNC_ACCOUNT")
      BY <1>0, <1>2 DEF BackoffElapsed, Rerun
    <2> QED BY <1>0, <2>1, CheckMarkGoes DEF Goto, Post, Holding
  <1>3. CASE AccountSynced(t) \/ FoldersListed(t)
    <2>1. \/ Finally(t, "failed") \/ Catch(t, reply[t])
          \/ Post(t, "GET_SORTED_FOLDERS") \/ Goto(t, "replace") \/ Goto(t, "list")
      BY <1>3 DEF AccountSynced, FoldersListed
    <2>2. Ends
      BY <1>0, <2>1, FinallyEnds, CatchEnds DEF Goto, Post, Holding
    <2> QED BY <2>2 DEF Unwound
  <1>4. CASE Replaced(t) \/ Folder(t) \/ Stamp(t)
    <2>1. Goto(t, "list") \/ Goto(t, "stamp") \/ Post(t, "SYNC_FOLDER")
      BY <1>0, <1>4 DEF Replaced, Folder, Stamp
    <2> QED BY <1>0, <2>1 DEF Goto, Post, Holding
  <1>5. CASE List(t) \/ Recorded(t)
    <2>1. Ends
      BY <1>0, <1>5, NextFolderEnds DEF List, Recorded, Holding
    <2> QED BY <2>1 DEF Unwound
  <1>6. CASE FolderSynced(t)
    <2>1. \/ CheckMark(t, {}, "runnable") \/ Catch(t, reply[t]) \/ Goto(t, "record")
      BY <1>6 DEF FolderSynced
    <2>2. Ends
      BY <1>0, <2>1, CheckMarkGoes, CatchEnds DEF Goto, Holding
    <2> QED BY <2>2 DEF Unwound
  <1>7. CASE FlagAccountForReauth(t)
    <2>1. Finally(t, "auth") /\ acc' = [acc EXCEPT !.error = "auth"]
      BY <1>0, <1>7 DEF FlagAccountForReauth
    <2>2. pc'[t] = "residual" /\ job'[t].outcome = "auth" /\ acc'.error = "auth"
      BY <1>0, <2>1, FinallyEnds DEF Account
    <2> QED BY <2>2 DEF Unwound
  <1> QED BY <1>1, <1>2, <1>3, <1>4, <1>5, <1>6, <1>7
          DEF SyncStep, Enter, Residual, Downgrade, SettleFailed, StampAccount, Recompute,
              RecomputeRows, WriteError, Holding

(* ... and what unwinds ends where the error reflects the rows, or goes on *)
(* to write it.                                                            *)
LEMMA SettleEnds ==
  ASSUME TypeOK, NEW t \in Tasks, Settle(t), job[t].outcome # "cancelled",
         job[t].outcome = "auth" => acc.error = "auth", UNCHANGED acc
  PROVE  OnTheWay(t)'
  <1>0. /\ Coroutines /\ pendingWork \in Work /\ syncing \in BOOLEAN
        /\ maintaining \in BOOLEAN
    BY DEF TypeOK, Coroutines
  <1>1. CASE job[t].outcome = "auth" /\ ReturnAndDrain(t)
    <2>1. pc'[t] \in {"idle", "entry", "spinning"} /\ acc'.error = "auth"
      BY <1>0, <1>1, ReturnMoves
    <2> QED BY <2>1 DEF OnTheWay, Unwound, Reflects
  <1>2. CASE Goto(t, "settle") \/ Goto(t, "stampAccount")
    <2>1. pc'[t] \in {"settle", "stampAccount"}
      BY <1>0, <1>2 DEF Goto, Coroutines
    <2> QED BY <2>1 DEF OnTheWay, Unwound, Unwinding
  <1> QED BY <1>1, <1>2 DEF Settle

LEMMA UnwindingEnds ==
  ASSUME TypeOK, Uncancelled, NEW t \in Tasks, OnTheWay(t), SyncStep(t), pc[t] \notin Holding
  PROVE  OnTheWay(t)'
  <1>0. /\ Coroutines /\ pendingWork \in Work /\ syncing \in BOOLEAN
        /\ maintaining \in BOOLEAN /\ acc \in Account /\ acc.exists /\ acc.enabled /\ ~cancelling
    BY DEF TypeOK, Coroutines, Uncancelled
  <1>1. ASSUME ReturnWithoutDrain(t) \/ ReturnAndDrain(t), Reflects'
        PROVE  OnTheWay(t)'
    <2>1. pc'[t] \in {"idle", "entry", "spinning"}
      BY <1>0, <1>1, ReturnMoves
    <2> QED BY <1>1, <2>1 DEF OnTheWay, Unwound
  <1>2. CASE Enter(t)
    <2>1. Reflects /\ Reflects'
      BY <1>2 DEF Enter, OnTheWay, Holding, Unwinding, Reflects, FolderError, folderRows
    <2>2. CASE ReturnWithoutDrain(t)
      BY <1>1, <2>1, <2>2
    <2>3. CASE Goto(t, "runnable")
      <3>1. pc'[t] = "runnable"
        BY <1>0, <2>3 DEF Goto, Coroutines
      <3> QED BY <3>1 DEF OnTheWay, Unwound, Holding
    <2> QED BY <1>0, <1>2, <2>2, <2>3 DEF Enter
  <1>3. CASE Residual(t)
    <2>1. pc[t] = "residual" /\ UNCHANGED acc
      BY <1>3 DEF Residual
    <2>2. CASE Settle(t)
      BY <2>1, <2>2, SettleEnds DEF OnTheWay, Unwound
    <2>3. ASSUME NEW todo, Goto(t, "downgrade"), job' = [job EXCEPT ![t].todo = todo]
          PROVE  OnTheWay(t)'
      <3>1. pc'[t] = "downgrade" /\ job'[t].outcome = job[t].outcome
        BY <1>0, <2>3 DEF Goto, Coroutines, Job
      <3> QED BY <2>1, <3>1 DEF OnTheWay, Unwound, Unwinding
    <2> QED BY <1>3, <2>2, <2>3 DEF Residual
  <1>4. CASE Downgrade(t)
    <2>1. pc[t] = "downgrade" /\ UNCHANGED acc
      BY <1>4 DEF Downgrade
    <2>2. CASE Settle(t)
      BY <2>1, <2>2, SettleEnds DEF OnTheWay, Unwound
    <2>3. ASSUME NEW f, job' = [job EXCEPT ![t].todo = @ \ {f}], UNCHANGED pc
          PROVE  OnTheWay(t)'
      <3>1. pc'[t] = "downgrade" /\ job'[t].outcome = job[t].outcome
        BY <1>0, <2>1, <2>3 DEF Coroutines, Job
      <3> QED BY <2>1, <3>1 DEF OnTheWay, Unwound, Unwinding
    <2> QED BY <1>4, <2>2, <2>3 DEF Downgrade
  <1>5. CASE SettleFailed(t)
    <2>1. UNCHANGED <<acc, selected, status>>
      BY <1>5 DEF SettleFailed, folderRows
    <2>2. CASE acc.error \notin {"auth", "account"}
      <3>1. Goto(t, "writeError") /\ job' = [job EXCEPT ![t].next = "account"]
        BY <1>0, <1>5, <2>2 DEF SettleFailed
      <3>2. pc'[t] = "writeError" /\ job'[t].next = "account"
        BY <1>0, <3>1 DEF Goto, Coroutines, Job
      <3> QED BY <3>2 DEF OnTheWay, Unwound, Unwinding
    <2>3. CASE acc.error \in {"auth", "account"}
      <3>1. ReturnWithoutDrain(t) /\ Reflects'
        BY <1>5, <2>1, <2>3 DEF SettleFailed, Reflects
      <3> QED BY <1>1, <3>1
    <2> QED BY <2>2, <2>3
  <1>6. CASE StampAccount(t)
    <2>1. pc'[t] = "recompute"
      BY <1>0, <1>6 DEF StampAccount, Goto, Coroutines
    <2> QED BY <2>1 DEF OnTheWay, Unwound, Unwinding
  <1>7. CASE Recompute(t)
    <2>1. UNCHANGED acc
      BY <1>7 DEF Recompute
    <2>2. CASE acc.error = "auth"
      BY <1>1, <1>7, <2>1, <2>2 DEF Recompute, Reflects
    <2>3. CASE acc.error # "auth"
      <3>1. Goto(t, "recomputeRows") /\ job' = [job EXCEPT ![t].next = acc.error]
        BY <1>0, <1>7, <2>3 DEF Recompute
      <3>2. pc'[t] = "recomputeRows" /\ job'[t].next = acc'.error
        BY <1>0, <2>1, <3>1 DEF Goto, Coroutines, Job
      <3> QED BY <3>2 DEF OnTheWay, Unwound, Unwinding
    <2> QED BY <2>2, <2>3
  <1>8. CASE RecomputeRows(t)
    <2>1. UNCHANGED <<acc, selected, status>> /\ job[t].next = acc.error
      BY <1>8 DEF RecomputeRows, OnTheWay, folderRows
    <2>2. FolderError' = FolderError
      BY <2>1 DEF FolderError
    <2>3. CASE job[t].next = FolderError
      BY <1>1, <1>8, <2>1, <2>2, <2>3 DEF RecomputeRows, Reflects
    <2>4. CASE job[t].next # FolderError
      <3>1. PICK e : e = FolderError
        OBVIOUS
      <3>2. Goto(t, "writeError") /\ job' = [job EXCEPT ![t].next = e]
        BY <1>8, <2>4, <3>1 DEF RecomputeRows
      <3>3. pc'[t] = "writeError" /\ job'[t].next = e
        BY <1>0, <3>2 DEF Goto, Coroutines, Job
      <3> QED BY <2>2, <3>1, <3>3 DEF OnTheWay, Unwound, Unwinding
    <2> QED BY <2>3, <2>4
  <1>9. CASE WriteError(t)
    <2>1. /\ UNCHANGED <<selected, status>> /\ job[t].next \in {"account", FolderError}
          /\ acc' = [acc EXCEPT !.error = job[t].next]
      BY <1>0, <1>9 DEF WriteError, OnTheWay, folderRows
    <2>2. FolderError' = FolderError
      BY <2>1 DEF FolderError
    <2>3. Reflects'
      BY <1>0, <2>1, <2>2 DEF Reflects, Account
    <2> QED BY <1>1, <1>9, <2>3 DEF WriteError
  <1> QED BY <1>2, <1>3, <1>4, <1>5, <1>6, <1>7, <1>8, <1>9
          DEF SyncStep, Runnable, BackoffElapsed, Rerun, AccountSynced, FoldersListed,
              Replaced, List, Folder, Stamp, FolderSynced, Recorded, FlagAccountForReauth,
              Holding

LEMMA SyncStepOnTheWay ==
  ASSUME TypeOK, Uncancelled, NEW t \in Tasks, OnTheWay(t), SyncStep(t)
  PROVE  OnTheWay(t)'
  <1>0. Coroutines /\ acc \in Account
    BY DEF TypeOK, Coroutines
  <1>1. CASE pc[t] \in Holding
    <2>1. pc'[t] \in Holding \/ (pc'[t] = "residual" /\ Unwound(t)')
      BY <1>0, <1>1, HoldingEnds
    <2> QED BY <2>1 DEF OnTheWay, Unwound, Holding, Unwinding
  <1>2. CASE pc[t] \notin Holding
    BY <1>2, UnwindingEnds
  <1> QED BY <1>1, <1>2

(* Nothing a single coroutine does cancels the account.                    *)
LEMMA SyncStepUncancelled ==
  ASSUME TypeOK, Uncancelled, NEW t \in Tasks, SyncStep(t)
  PROVE  Uncancelled'
  <1>0. Coroutines /\ acc \in Account
    BY DEF TypeOK, Coroutines
  <1>1. UNCHANGED <<cancelling, toggle>>
    BY DEF SyncStep
  <1>2. acc'.exists /\ acc'.enabled
    <2>1. \/ UNCHANGED acc
          \/ \E e : acc' = [acc EXCEPT !.error = e] \/ acc' = [acc EXCEPT !.lastSync = e]
      BY DEF SyncStep, Enter, Runnable, BackoffElapsed, Rerun, AccountSynced,
         FoldersListed, Replaced, List, Folder, Stamp, FolderSynced, Recorded,
         FlagAccountForReauth, Residual, Downgrade, SettleFailed, StampAccount,
         Recompute, RecomputeRows, WriteError
    <2> QED BY <1>0, <2>1 DEF Uncancelled, Account
  <1>3. \A u \in Tasks : reply'[u] # "cancelled"
    <2>1. UNCHANGED reply \/ Taken(t) \/ \E cmd : Post(t, cmd)
      BY Zenon DEF SyncStep, Enter, Runnable, BackoffElapsed, Rerun, AccountSynced,
         FoldersListed, Replaced, List, Folder, Stamp, FolderSynced, Recorded,
         FlagAccountForReauth, Residual, Downgrade, SettleFailed, StampAccount,
         Recompute, RecomputeRows, WriteError
    <2> QED BY <1>0, <2>1 DEF Uncancelled, Taken, Post, Coroutines
  <1> QED BY <1>1, <1>2, <1>3 DEF Uncancelled

LEMMA OthersUncancelled ==
  ASSUME Undisturbed, TypeOK, Uncancelled, Step, \A t \in Tasks : ~SyncStep(t)
  PROVE  Uncancelled' /\ UNCHANGED <<acc, rows, selected, status>>
  <1> USE DEF folderRows, tasks, Undisturbed
  <1>0. Coroutines
    BY DEF TypeOK, Coroutines
  <1>1. ~ToggleStep /\ ~SelectFolder /\ ~PushFolderList
    BY DEF Uncancelled, ToggleStep, SelectFolder, PushFolderList, ToggleCommandSettled,
           ToggleWritten, ToggleRecompute, ToggleRecomputeRows, ToggleWriteError
  <1>2. UNCHANGED <<acc, rows, selected, status, cancelling, toggle>>
    BY <1>1 DEF Step, Requests, Provider, MaintainStep, Defer, StartSync, StartMaintain,
       Answer, Timeout, PortLost, PortOpened, SetAccountSetupLock
  <1>3. ASSUME NEW u \in Tasks PROVE reply'[u] # "cancelled"
    <2>1. \/ UNCHANGED reply \/ PortLost
          \/ \E t \in Tasks : Taken(t) \/ Post(t, "MAINTAIN") \/ Answer(t) \/ Timeout(t)
      BY <1>1 DEF Step, Requests, Provider, MaintainStep, MaintainEnter, Maintained,
         Defer, StartSync, StartMaintain, PortOpened, SetAccountSetupLock
    <2> QED BY <1>0, <2>1 DEF Uncancelled, Taken, Post, Answer, Timeout, PortLost, Reject,
                              Coroutines
  <1> QED BY <1>2, <1>3 DEF Uncancelled

(* The other steps move a coroutine only between places where the error    *)
(* reflects the rows.                                                      *)
LEMMA OthersOnTheWay ==
  ASSUME Undisturbed, TypeOK, ErrorTracked, Step, \A t \in Tasks : ~SyncStep(t),
         UNCHANGED <<acc, rows, selected, status>>, NEW t \in Tasks
  PROVE  OnTheWay(t)'
  <1> USE DEF folderRows, tasks, Undisturbed
  <1>0. /\ Coroutines /\ pendingWork \in Work /\ syncing \in BOOLEAN /\ OnTheWay(t)
        /\ \A u \in Tasks : u = t
    BY DEF TypeOK, Coroutines, ErrorTracked
  <1>1. FolderError' = FolderError /\ (Reflects => Reflects')
    BY DEF FolderError, Reflects
  <1>2. CASE UNCHANGED <<pc, job>>
    BY <1>0, <1>1, <1>2 DEF OnTheWay, Unwound, Reflects
  <1>3. ASSUME pc[t] \in {"idle", "maintainEntry", "MAINTAIN"},
               pc'[t] \in {"idle", "entry", "spinning", "maintainEntry", "MAINTAIN"}
        PROVE  OnTheWay(t)'
    BY <1>0, <1>1, <1>3 DEF OnTheWay, Unwound, Holding, Unwinding
  <1>4. CASE MaintainEnter(t) \/ StartMaintain(t)
            \/ \E scope \in Folders \cup {All} : StartSync(t, scope)
    BY <1>0, <1>3, <1>4
       DEF MaintainEnter, StartMaintain, StartSync, CallFrom, Goto, Post, Coroutines
  <1>5. CASE Maintained(t)
    <2>1. pc[t] = "MAINTAIN"
      BY <1>5 DEF Maintained
    <2>2. PICK open \in Seq(SUBSET Folders), lock \in BOOLEAN : DrainFrom(t, open, lock)
      <3>1. <<{}>> \in Seq(SUBSET Folders)
        OBVIOUS
      <3> QED BY <1>0, <1>5, <3>1, Zenon DEF Maintained
    <2>3. /\ pc' \in [Tasks -> Pcs] /\ job' \in [Tasks -> Job]
          /\ frames' \in [Tasks -> Seq(SUBSET Folders)]
          /\ pendingWork' \in Work
          /\ pc' = [pc EXCEPT ![t] = pc'[t]]
          /\ pc'[t] \in {"idle", "entry", "spinning"}
          /\ job' = [job EXCEPT ![t] = job'[t]]
      BY <1>0, <2>2, DrainType, Zenon
    <2> QED BY <1>3, <2>1, <2>3
  <1>6. \/ UNCHANGED <<pc, job>> \/ Maintained(t)
        \/ MaintainEnter(t) \/ StartMaintain(t)
        \/ \E scope \in Folders \cup {All} : StartSync(t, scope)
    <2>1. ~ToggleStep /\ ~SelectFolder
      BY DEF ErrorTracked, Uncancelled, ToggleStep, SelectFolder, ToggleCommandSettled,
             ToggleWritten, ToggleRecompute, ToggleRecomputeRows, ToggleWriteError
    <2> QED BY <1>0, <2>1 DEF Step, Requests, Provider, MaintainStep, Defer,
               Answer, Timeout, PortLost, PortOpened, SetAccountSetupLock, PushFolderList
  <1> QED BY <1>2, <1>4, <1>5, <1>6

LEMMA NextTracked ==
  ASSUME Undisturbed, TypeOK, ErrorTracked, [Next]_vars
  PROVE  ErrorTracked'
  <1>1. ASSUME NEW t \in Tasks, SyncStep(t)
        PROVE  ErrorTracked'
    <2>1. \A u \in Tasks : u = t
      BY DEF Undisturbed
    <2>2. Uncancelled' /\ OnTheWay(t)'
      BY <1>1, SyncStepOnTheWay, SyncStepUncancelled DEF ErrorTracked
    <2>3. \A u \in Tasks : OnTheWay(u)'
      BY <2>1, <2>2
    <2> QED BY <2>2, <2>3 DEF ErrorTracked
  <1>2. CASE Step /\ \A t \in Tasks : ~SyncStep(t)
    <2>1. Uncancelled' /\ UNCHANGED <<acc, rows, selected, status>>
      BY <1>2, OthersUncancelled DEF ErrorTracked
    <2>2. \A t \in Tasks : OnTheWay(t)'
      BY <1>2, <2>1, OthersOnTheWay
    <2>3. Reflects => Reflects'
      BY <2>1 DEF Reflects, FolderError
    <2> QED BY <2>1, <2>2, <2>3 DEF ErrorTracked
  <1>3. CASE UNCHANGED vars
    BY <1>3 DEF vars, folderRows, tasks, ErrorTracked, Uncancelled, Reflects, FolderError,
                OnTheWay, Unwound
  <1> QED BY <1>1, <1>2, <1>3 DEF Next, Spin

(* While one coroutine at a time is the only writer of the account, its    *)
(* error says what its rows say whenever it is at rest, after any mixture  *)
(* of reruns, failed, rejected and timed-out commands, lost ports, setup   *)
(* locks, maintenance and drains.                                          *)
THEOREM ErrorReflected ==
  ASSUME Undisturbed
  PROVE  Spec => []ErrorReflectsRows
  <1>1. Init => ErrorTracked
    BY DEF Init, ErrorTracked, Uncancelled, Reflects, FolderError, OnTheWay, Unwound, NoToggle
  <1>2. TypeOK /\ ErrorTracked /\ [Next]_vars => ErrorTracked'
    BY NextTracked
  <1>3. TypeOK /\ ErrorTracked => ErrorReflectsRows
    BY DEF ErrorTracked, ErrorReflectsRows, AtRest, OnTheWay, Reflects, Holding, Unwinding
  <1> QED BY <1>1, <1>2, <1>3, TypeCorrect, PTL DEF Spec
=============================================================================
