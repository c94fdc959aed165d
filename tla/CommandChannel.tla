---------------------------- MODULE CommandChannel ----------------------------
(***************************************************************************)
(* The commands between the TbSync host and one provider add-on, over the  *)
(* ports that come and go between them: src/src/modules/router.mjs on the  *)
(* host's side, the port and the dispatcher of                             *)
(* src/common/protocol/provider.mjs on the other.                          *)
(*                                                                         *)
(* Every table of the router is keyed by provider, so one provider is      *)
(* modelled.  Ports are numbered in the order the host opens them.  Which  *)
(* side asks for a port, and when (announce, back-off probe), is the       *)
(* registry's business: here a port may be opened whenever there is none.  *)
(*                                                                         *)
(* The platform (external): what one page posts reaches the other in the   *)
(* order it was posted, across ports; a page that ends takes its end of    *)
(* every port with it, and the other end hears a disconnect after all that *)
(* was posted before; closing a port is not heard by the side that closes. *)
(***************************************************************************)
EXTENDS Naturals, Sequences

CONSTANTS
  Calls,      \* commands of the host, each sent at most once
  Asks,       \* REQUEST_SYNC calls of the provider, each sent at most once
  Accounts,   \* the provider's accounts
  Drives,     \* what the host sends beside CANCEL_SYNC: a subset of Commands
  Events,     \* what else may happen: a subset of AnyEvent
  MaxPorts    \* bound: how many ports are ever opened

(* The provider unannounces; either page ends and starts again.            *)
AnyEvent == {"unannounce", "hostRestart", "providerRestart"}

NoOwner == "none"

(* SYNC_FOLDER stands for SYNC_ACCOUNT too, ACCOUNT_DISABLED for the other *)
(* commands with a timeout.                                                *)
Commands == {"SYNC_FOLDER", "GET_SORTED_FOLDERS", "MAINTAIN", "CANCEL_SYNC",
             "ACCOUNT_DISABLED"}
NO_TIMEOUT_CMDS == {"SYNC_FOLDER", "MAINTAIN"}
ABORTABLE_CMDS == {"SYNC_FOLDER", "GET_SORTED_FOLDERS"}
SYNC_CMDS == {"SYNC_FOLDER", "MAINTAIN"}

ASSUME ChannelAssumption ==
  /\ Drives \subseteq Commands \ {"CANCEL_SYNC"}
  /\ Events \subseteq AnyEvent
  /\ MaxPorts \in Nat
  /\ NoOwner \notin Calls

VARIABLES
  port, opened,        \* router: the provider's port (0: none), ports so far
  call,                \* router: pending, and what became of each call
  serving,             \* router: the port a request arrived on (0: none)
  toProvider, toHost,  \* what is on its way
  alive,               \* the provider's page is running
  incoming,            \* provider: #port (0: null)
  running,             \* provider: the activePort of each handler (0: none)
  aborts,              \* provider: #syncAborts
  ask                  \* provider: #pending, and what became of each ask

host == <<port, opened, call, serving>>
provider == <<alive, incoming, running, aborts, ask>>
vars == <<host, toProvider, toHost, provider>>

Ports == 1..MaxPorts
Settled == {"answered", "timeout", "closed", "cancelled", "gone"}
Call == [state : {"unsent"}]
        \cup [state : {"pending"} \cup Settled, cmd : Commands,
              account : Accounts, on : 0..MaxPorts]
Ask == [state : {"unsent", "pending"} \cup Settled, on : 0..MaxPorts]
Controller == [owner : Calls \cup {NoOwner}, aborted : BOOLEAN]
NoController == [owner |-> NoOwner, aborted |-> FALSE]

Event == [kind : {"connect", "disconnect"}, port : Ports]
         \cup [kind : {"call", "reply"}, port : Ports, id : Calls]
         \cup [kind : {"ask", "askReply"}, port : Ports, id : Asks]

Pending(c) == call[c].state = "pending"
Asking(r) == ask[r].state = "pending"

TypeOK ==
  /\ port \in 0..MaxPorts /\ opened \in port..MaxPorts
  /\ call \in [Calls -> Call]
  /\ \A c \in Calls : Pending(c) => call[c].on \in 1..opened
  /\ serving \in [Asks -> 0..MaxPorts]
  /\ toProvider \in Seq(Event) /\ toHost \in Seq(Event)
  /\ alive \in BOOLEAN
  /\ incoming \in 0..opened
  /\ running \in [Calls -> 0..MaxPorts]
  /\ \A c \in Calls : running[c] # 0 => call[c].state # "unsent"
  /\ aborts \in [Accounts -> Controller]
  /\ ask \in [Asks -> Ask]

Init ==
  /\ port = 0 /\ opened = 0
  /\ call = [c \in Calls |-> [state |-> "unsent"]]
  /\ serving = [r \in Asks |-> 0]
  /\ toProvider = <<>> /\ toHost = <<>>
  /\ alive = TRUE
  /\ incoming = 0
  /\ running = [c \in Calls |-> 0]
  /\ aborts = [a \in Accounts |-> NoController]
  /\ ask = [r \in Asks |-> [state |-> "unsent", on |-> 0]]

(***************************************************************************)
(* The platform                                                            *)
(***************************************************************************)
In(queue, event) == \E i \in 1..Len(queue) : queue[i] = event

Connect(p) == [kind |-> "connect", port |-> p]
Disconnect(p) == [kind |-> "disconnect", port |-> p]

(* The provider's end of port p exists, or will.                           *)
Linked(p) == p # 0 /\ (incoming = p \/ In(toProvider, Connect(p)))

(* What is posted on a port without another end is lost.                   *)
Posted(queue, p, event) == IF Linked(p) THEN Append(queue, event) ELSE queue

(***************************************************************************)
(* The host: ports                                                         *)
(***************************************************************************)

(* Mutant: what waited on the port goes on waiting.                        *)
PendingKept(code) == UNCHANGED call

(* rejectPending, of everything.                                           *)
RejectPending(code) ==
  call' = [c \in Calls |->
             IF Pending(c) THEN [call[c] EXCEPT !.state = code] ELSE call[c]]

(* Without a page at the other end the port is closed at once.             *)
OpenPortToProvider ==
  /\ port = 0 /\ opened < MaxPorts
  /\ port' = opened + 1 /\ opened' = opened + 1
  /\ IF alive
     THEN toProvider' = Append(toProvider, Connect(opened + 1)) /\ UNCHANGED toHost
     ELSE toHost' = Append(toHost, Disconnect(opened + 1)) /\ UNCHANGED toProvider
  /\ UNCHANGED <<call, serving, provider>>

ClosePortToProvider ==
  /\ "unannounce" \in Events /\ port # 0
  /\ port' = 0
  /\ RejectPending("closed")
  /\ toProvider' = Posted(toProvider, port, Disconnect(port))
  /\ UNCHANGED <<opened, serving, toHost, provider>>

(* The page ends: nobody is left to be told what became of its calls.      *)
HostRestart ==
  /\ "hostRestart" \in Events /\ port # 0
  /\ port' = 0
  /\ RejectPending("gone")
  /\ serving' = [r \in Asks |-> 0]
  /\ toProvider' = Posted(toProvider, port, Disconnect(port))
  /\ toHost' = <<>>
  /\ UNCHANGED <<opened, provider>>

(***************************************************************************)
(* The host: commands                                                      *)
(***************************************************************************)
Sent(cmd, a, state) == [state |-> state, cmd |-> cmd, account |-> a, on |-> port]
CallEvent(c) == [kind |-> "call", port |-> port, id |-> c]

(* A command is rejected without a port.  Posting to an end that has just   *)
(* gone throws, or is lost until the disconnect is heard.                   *)
Fates == IF Linked(port) THEN {"pending"}
         ELSE IF port = 0 THEN {"closed"} ELSE {"pending", "closed"}

(* The coordinator drives an account with one command at a time.           *)
DrivenBy(c, cmd, a) ==
  /\ call[c].state = "unsent"
  /\ cmd \in SYNC_CMDS =>
       \A d \in Calls : Pending(d) /\ call[d].account = a => call[d].cmd \notin SYNC_CMDS

(* Mutant: the missing port is not noticed.                                *)
SendCmdUnchecked(c) ==
  /\ \E cmd \in Drives, a \in Accounts :
       /\ DrivenBy(c, cmd, a)
       /\ call' = [call EXCEPT ![c] = Sent(cmd, a, "pending")]
  /\ toProvider' = Posted(toProvider, port, CallEvent(c))
  /\ UNCHANGED <<port, opened, serving, toHost, provider>>

SendCmd(c) ==
  /\ \E cmd \in Drives, a \in Accounts, fate \in Fates :
       /\ DrivenBy(c, cmd, a)
       /\ call' = [call EXCEPT ![c] = Sent(cmd, a, fate)]
  /\ toProvider' = Posted(toProvider, port, CallEvent(c))
  /\ UNCHANGED <<port, opened, serving, toHost, provider>>

(* abortAccount: the account's sync commands are settled, no other.        *)
Swept(a) ==
  [d \in Calls |->
     IF Pending(d) /\ call[d].account = a /\ call[d].cmd \in ABORTABLE_CMDS
     THEN [call[d] EXCEPT !.state = "cancelled"] ELSE call[d]]

(* Mutant: the account is released, the provider is not told.              *)
AbortUntold(c) ==
  /\ port # 0 /\ call[c].state = "unsent"
  /\ \E a \in Accounts : call' = Swept(a)
  /\ UNCHANGED <<port, opened, serving, toProvider, toHost, provider>>

(* abortAccountSync: CANCEL_SYNC is sent, and the sweep that follows in the *)
(* same stretch spares it.  (Without a port there is nothing to sweep.)     *)
AbortAccountSync(c) ==
  /\ port # 0 /\ call[c].state = "unsent"
  /\ \E a \in Accounts, fate \in Fates :
       call' = [Swept(a) EXCEPT ![c] = Sent("CANCEL_SYNC", a, fate)]
  /\ toProvider' = Posted(toProvider, port, CallEvent(c))
  /\ UNCHANGED <<port, opened, serving, toHost, provider>>

Timeout(c) ==
  /\ Pending(c) /\ call[c].cmd \notin NO_TIMEOUT_CMDS
  /\ call' = [call EXCEPT ![c].state = "timeout"]
  /\ UNCHANGED <<port, opened, serving, toProvider, toHost, provider>>

(* A reply to a call that is settled is dropped.  A request keeps the port *)
(* it arrived on.  A disconnect of another port than the present one is    *)
(* ignored, and nothing else arrives from one.                             *)
HostReceive ==
  /\ toHost # <<>>
  /\ LET e == Head(toHost)
     IN IF e.port # port THEN UNCHANGED <<port, call, serving>>
        ELSE \/ /\ e.kind = "reply"
                /\ call' = IF Pending(e.id)
                           THEN [call EXCEPT ![e.id].state = "answered"] ELSE call
                /\ UNCHANGED <<port, serving>>
             \/ /\ e.kind = "ask"
                /\ serving' = [serving EXCEPT ![e.id] = port]
                /\ UNCHANGED <<port, call>>
             \/ /\ e.kind = "disconnect"
                /\ port' = 0
                /\ RejectPending("closed")
                /\ UNCHANGED serving
  /\ toHost' = Tail(toHost)
  /\ UNCHANGED <<opened, toProvider, provider>>

(* handleProviderRpc's handler is done: the answer goes to the port the    *)
(* request came from, or nowhere.                                          *)
Serve(r) ==
  /\ serving[r] # 0
  /\ toProvider' = IF serving[r] = port
                   THEN Posted(toProvider, port,
                               [kind |-> "askReply", port |-> port, id |-> r])
                   ELSE toProvider
  /\ serving' = [serving EXCEPT ![r] = 0]
  /\ UNCHANGED <<port, opened, call, toHost, provider>>

(***************************************************************************)
(* The provider                                                            *)
(***************************************************************************)
RejectAllPending(code) ==
  ask' = [r \in Asks |->
            IF Asking(r) THEN [ask[r] EXCEPT !.state = code] ELSE ask[r]]

(* #attachPort: the new port replaces one that still stands, which is      *)
(* closed without a word to what was asked on it.                          *)
AttachPort(p) ==
  /\ incoming' = p
  /\ toHost' = IF incoming # 0 THEN Append(toHost, Disconnect(incoming)) ELSE toHost
  /\ UNCHANGED <<running, aborts, ask>>

(* The port's onDisconnect: everything asked is rejected, whatever the port*)
PortDisconnected(p) ==
  /\ incoming' = IF incoming = p THEN 0 ELSE incoming
  /\ RejectAllPending("closed")
  /\ UNCHANGED <<running, aborts, toHost>>

(* Mutant: a controller that was aborted is handed to the new command.     *)
ReusedController(c, a) ==
  IF aborts[a] = NoController THEN [owner |-> c, aborted |-> FALSE] ELSE aborts[a]

(* One controller per account, owned by the command that created it.       *)
ControllerFor(c, a) ==
  IF aborts[a] = NoController \/ aborts[a].aborted
  THEN [owner |-> c, aborted |-> FALSE] ELSE aborts[a]

(* #dispatchHostCmd up to the handler's first await; onCancelSync.         *)
DispatchHostCmd(c) ==
  LET a == call[c].account
  IN /\ IF incoming = 0 THEN UNCHANGED <<running, aborts>>
        ELSE /\ running' = [running EXCEPT ![c] = incoming]
             /\ aborts' =
                  IF call[c].cmd \in SYNC_CMDS
                  THEN [aborts EXCEPT ![a] = ControllerFor(c, a)]
                  ELSE IF call[c].cmd = "CANCEL_SYNC" /\ aborts[a] # NoController
                  THEN [aborts EXCEPT ![a].aborted = TRUE]
                  ELSE aborts
     /\ UNCHANGED <<incoming, ask, toHost>>

ProviderReceive ==
  /\ alive /\ toProvider # <<>>
  /\ LET e == Head(toProvider)
     IN \/ e.kind = "connect" /\ AttachPort(e.port)
        \/ e.kind = "disconnect" /\ PortDisconnected(e.port)
        \/ e.kind = "call" /\ DispatchHostCmd(e.id)
        \/ /\ e.kind = "askReply"
           /\ ask' = IF Asking(e.id) THEN [ask EXCEPT ![e.id].state = "answered"]
                     ELSE ask
           /\ UNCHANGED <<incoming, running, aborts, toHost>>
  /\ toProvider' = Tail(toProvider)
  /\ UNCHANGED <<host, alive>>

(* Mutant: the controller outlives its command.                            *)
FinishKeeping(c) ==
  /\ running[c] # 0
  /\ toHost' = IF running[c] = incoming
               THEN Append(toHost, [kind |-> "reply", port |-> incoming, id |-> c])
               ELSE toHost
  /\ running' = [running EXCEPT ![c] = 0]
  /\ UNCHANGED <<host, toProvider, alive, incoming, aborts, ask>>

(* Mutant: a handler that fails is not answered for.                       *)
FinishUnanswered(c) ==
  LET a == call[c].account
  IN /\ running[c] # 0
     /\ running' = [running EXCEPT ![c] = 0]
     /\ aborts' = IF call[c].cmd \in SYNC_CMDS /\ aborts[a].owner = c
                  THEN [aborts EXCEPT ![a] = NoController] ELSE aborts
     /\ UNCHANGED <<host, toProvider, toHost, alive, incoming, ask>>

(* The handler ends, well or badly: it answers unless the port was changed *)
(* meanwhile, and deletes the controller if it is its own.                 *)
Finish(c) ==
  LET a == call[c].account
  IN /\ running[c] # 0
     /\ toHost' = IF running[c] = incoming
                  THEN Append(toHost, [kind |-> "reply", port |-> incoming, id |-> c])
                  ELSE toHost
     /\ running' = [running EXCEPT ![c] = 0]
     /\ aborts' = IF call[c].cmd \in SYNC_CMDS /\ aborts[a].owner = c
                  THEN [aborts EXCEPT ![a] = NoController] ELSE aborts
     /\ UNCHANGED <<host, toProvider, alive, incoming, ask>>

RequestSync(r) ==
  /\ alive /\ ask[r].state = "unsent" /\ incoming # 0
  /\ ask' = [ask EXCEPT ![r] = [state |-> "pending", on |-> incoming]]
  /\ toHost' = Append(toHost, [kind |-> "ask", port |-> incoming, id |-> r])
  /\ UNCHANGED <<host, toProvider, alive, incoming, running, aborts>>

(* The page ends, and with it every port it had or was about to be given.  *)
ProviderEnds ==
  /\ "providerRestart" \in Events /\ alive
  /\ alive' = FALSE
  /\ toHost' = IF Linked(port) THEN Append(toHost, Disconnect(port)) ELSE toHost
  /\ toProvider' = <<>>
  /\ incoming' = 0
  /\ running' = [c \in Calls |-> 0]
  /\ aborts' = [a \in Accounts |-> NoController]
  /\ RejectAllPending("gone")
  /\ UNCHANGED host

ProviderStarts ==
  /\ ~alive /\ alive' = TRUE
  /\ UNCHANGED <<host, toProvider, toHost, incoming, running, aborts, ask>>

Next ==
  \/ OpenPortToProvider \/ ClosePortToProvider \/ HostRestart
  \/ \E c \in Calls : SendCmd(c) \/ AbortAccountSync(c) \/ Timeout(c) \/ Finish(c)
  \/ HostReceive \/ ProviderReceive
  \/ \E r \in Asks : Serve(r) \/ RequestSync(r)
  \/ ProviderEnds \/ ProviderStarts

Spec == Init /\ [][Next]_vars

(***************************************************************************)
(* Properties                                                              *)
(***************************************************************************)

(* What is pending was sent on the port that stands, on either side: no     *)
(* path that takes a port away may leave a command or a REQUEST_SYNC, which *)
(* have no timeout, waiting for an answer on it (handleDisconnect,          *)
(* closePortToProvider, the provider's onDisconnect).                       *)
PendingOnPort ==
  /\ \A c \in Calls : Pending(c) => port # 0 /\ call[c].on = port
  /\ \A r \in Asks : Asking(r) => incoming # 0 /\ ask[r].on = incoming

(* A command that is pending is on its way, being worked on by a handler    *)
(* that can still answer, answered, or about to be rejected because the     *)
(* port is gone: whatever dies or restarts, nothing waits for what can no   *)
(* longer come.                                                             *)
CommandNotForgotten(c) ==
  LET p == call[c].on
  IN \/ In(toProvider, [kind |-> "call", port |-> p, id |-> c])
     \/ running[c] = p /\ incoming = p
     \/ In(toHost, [kind |-> "reply", port |-> p, id |-> c])
     \/ In(toHost, Disconnect(p))

AskNotForgotten(r) ==
  LET p == ask[r].on
  IN \/ In(toHost, [kind |-> "ask", port |-> p, id |-> r])
     \/ serving[r] = p /\ port = p
     \/ In(toProvider, [kind |-> "askReply", port |-> p, id |-> r])
     \/ In(toProvider, Disconnect(p))

NoneForgotten ==
  /\ \A c \in Calls : Pending(c) => CommandNotForgotten(c)
  /\ \A r \in Asks : Asking(r) => AskNotForgotten(r)

(* A controller belongs to a sync command of its account that is still      *)
(* running: none is left behind for a later command to find                 *)
(* (#dispatchHostCmd's finally).                                            *)
ControllersOwned ==
  \A a \in Accounts : aborts[a] # NoController =>
    \E c \in Calls : /\ aborts[a].owner = c /\ running[c] # 0
                     /\ call[c].account = a /\ call[c].cmd \in SYNC_CMDS

(* A sync that the host gave up, and that owns its account's controller,    *)
(* has been told to stop or is about to be.                                 *)
AbortReaches ==
  \A c \in Calls :
    running[c] # 0 /\ call[c].state = "cancelled" /\ aborts[call[c].account].owner = c
    => \/ aborts[call[c].account].aborted
       \/ \E d \in Calls : /\ call[d].state # "unsent" /\ call[d].cmd = "CANCEL_SYNC"
                           /\ call[d].account = call[c].account
                           /\ \E p \in Ports : In(toProvider, [kind |-> "call", port |-> p, id |-> d])

(* A cancel stops what it was meant for and nothing later: a sync that the  *)
(* host still waits for never runs under an aborted controller, although    *)
(* the handler of the cancelled one may still be unwinding.                 *)
LiveSyncNotAborted ==
  \A c \in Calls :
    Pending(c) /\ running[c] # 0 /\ call[c].cmd = "SYNC_FOLDER"
    => ~aborts[call[c].account].aborted

(* provider.mjs:86 of #syncAborts: an AbortController per account "for as   *)
(* long as a sync command is running.  The host may cancel at any time;     *)
(* this is what makes that possible."  (Of the commands still waited for.)  *)
Cancellable ==
  \A c \in Calls :
    Pending(c) /\ running[c] # 0 /\ call[c].cmd \in SYNC_CMDS
    => aborts[call[c].account] # NoController
=============================================================================
