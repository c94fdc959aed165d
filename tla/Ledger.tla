--------------------------------- MODULE Ledger ---------------------------------
(***************************************************************************)
(* What the change queues promise, without sessions, queues or sweeps.     *)
(* Every folder has a copy on the server and, while it is bound, a local   *)
(* one.  The server's copy of an item changes only because the user edited *)
(* that item in the local copy while it was bound; what a teardown does to *)
(* the local copy owes the server nothing; and an edit stays owed until    *)
(* the server has what the local copy has, or the binding ends.            *)
(***************************************************************************)
CONSTANTS Folders, Items, Versions, Unbound

VARIABLES
  local,    \* the local copy of each folder, Unbound: there is none
  remote,   \* the server's copy
  owed      \* the items whose edit has not been pushed

vars == <<local, remote, owed>>

Init ==
  /\ local = [f \in Folders |-> Unbound]
  /\ remote \in [Folders -> [Items -> Versions]]
  /\ owed = [f \in Folders |-> {}]

Bind(f) ==
  /\ local[f] = Unbound
  /\ local' = [local EXCEPT ![f] = remote[f]]
  /\ UNCHANGED <<remote, owed>>

Edit(f, i, v) ==
  /\ local[f] # Unbound
  /\ local[f][i] # v
  /\ local' = [local EXCEPT ![f][i] = v]
  /\ owed' = [owed EXCEPT ![f] = @ \cup {i}]
  /\ UNCHANGED remote

(* An edit may be pushed before the observers have filed it, and then once  *)
(* more.                                                                   *)
Push(f, i) ==
  /\ i \in owed[f]
  /\ remote' = [remote EXCEPT ![f][i] = local[f][i]]
  /\ UNCHANGED <<local, owed>>

Settle(f, i) ==
  /\ i \in owed[f]
  /\ remote[f][i] = local[f][i]
  /\ owed' = [owed EXCEPT ![f] = @ \ {i}]
  /\ UNCHANGED <<local, remote>>

(* Bindings end one by one or, with the folder list or the account, at once.*)
End(fs) ==
  /\ local' = [f \in Folders |-> IF f \in fs THEN Unbound ELSE local[f]]
  /\ owed' = [f \in Folders |-> IF f \in fs THEN {} ELSE owed[f]]
  /\ UNCHANGED remote

Next ==
  \/ \E f \in Folders : Bind(f)
  \/ \E fs \in SUBSET Folders : End(fs)
  \/ \E f \in Folders, i \in Items : Push(f, i) \/ Settle(f, i)
  \/ \E f \in Folders, i \in Items, v \in Versions : Edit(f, i, v)

Spec == Init /\ [][Next]_vars
=============================================================================
