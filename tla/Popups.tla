------------------------------- MODULE Popups -------------------------------
(***************************************************************************)
(* The windows a provider opens for the user, and everything that waits    *)
(* for them: the buttons of manager.mjs, the RPC handlers of background.mjs *)
(* that mark the account busy and post a command without a timeout, and    *)
(* the handlers of provider.mjs that open a window, keep it so that it can *)
(* be raised, and answer when it closes.  Setting up an account also       *)
(* registers it and prepares it under a lock.                              *)
(*                                                                         *)
(* One manager page, one provider.  Either side of the port may end while  *)
(* windows are open; the manager page goes with the host.  External: the   *)
(* user, the pages inside the windows, the window manager, and what a      *)
(* provider does to connect, disconnect or prepare an account.  The page   *)
(* is taken to have caught up with the host whenever the user clicks.      *)
(* Syncs, which lock the same buttons and find that an account has to be   *)
(* signed in again, are in SyncCoordinator.                                *)
(***************************************************************************)
EXTENDS Naturals, FiniteSets

CONSTANTS
  Accounts,     \* account ids; the unused ones are for accounts to set up
  NoAccount,    \* the account of a setup before it is registered
  Calls,        \* bound: RPCs of the manager in progress at once, as numbers
  MaxClicks,    \* bound: buttons clicked
  MaxEnds,      \* bound: ends of either side, and reloads of the manager page
  Hasty,        \* whether a window may close before its opener has its id
  Hurried       \* whether the user may click again before the host has the click

ASSUME PopupsAssumption ==
  /\ NoAccount \notin Accounts
  /\ Calls \subseteq Nat
  /\ {Hasty, Hurried} \subseteq BOOLEAN
  /\ {MaxClicks, MaxEnds} \subseteq Nat

VARIABLES
  rows,        \* accounts.mjs: the state of each account
  auth,        \* the accounts whose error is E:AUTH
  busy,        \* transient.mjs: busyAccounts
  settingUp,   \* transient.mjs: settingUpAccounts
  port,        \* whether host and provider hold a port to each other
  call,        \* RPC handlers of the host
  hand,        \* handlers of the provider, under the number of their call
  tracked,     \* provider.mjs: pendingSetups and pendingWindows
  configsOpen, reauthsOpen, setupsInFlight,   \* manager.mjs: state
  clicks, ends

vars == <<rows, auth, busy, settingUp, port, call, hand, tracked,
          configsOpen, reauthsOpen, setupsInFlight, clicks, ends>>
pageVars == <<configsOpen, reauthsOpen, setupsInFlight>>
boundVars == <<clicks, ends>>

AccountButtons == {"config", "services", "reauth", "connect", "disconnect", "remove"}
Windowed == {"setup", "config", "services", "reauth"}
Teardowns == {"disconnect", "remove"}

NoCall == [kind |-> "none", acct |-> NoAccount, step |-> "none", was |-> "none",
           result |-> "none", mine |-> FALSE]
NoHand == [kind |-> "none", acct |-> NoAccount, step |-> "none", win |-> "none",
           editable |-> FALSE, done |-> FALSE]

Known(a) == a \in Accounts /\ rows[a] \in {"off", "on"}
Unused == {a \in Accounts : rows[a] = "unused"}

Init ==
  /\ \E a \in Accounts : rows \in [Accounts -> {"unused", "off", "on"}]
                         /\ \A b \in Accounts : (b = a) = Known(b)
  /\ auth \in SUBSET {a \in Accounts : Known(a)}
  /\ busy = {} /\ settingUp = {} /\ port = TRUE
  /\ call = [c \in Calls |-> NoCall] /\ hand = [c \in Calls |-> NoHand]
  /\ tracked = {}
  /\ configsOpen = {} /\ reauthsOpen = {} /\ setupsInFlight = FALSE
  /\ clicks = 0 /\ ends = 0

-----------------------------------------------------------------------------
(* The manager page                                                        *)

(* markBusyLocally: a click locks the buttons until the host has it.       *)
ShownBusy == busy \cup {call[c].acct : c \in {d \in Calls : call[d].step = "reading"}}

(* accountActions.                                                         *)
Offered(button, a) ==
  LET free == a \notin settingUp \cup ShownBusy
  IN \/ button = "remove"
     \/ /\ port
        /\ \/ button = "connect" /\ rows[a] = "off" /\ free
           \/ button = "disconnect" /\ rows[a] = "on"
           \/ button = "reauth" /\ a \in auth /\ (free \/ a \in reauthsOpen)
           \/ button = "config" /\ (free \/ a \in configsOpen)
           \/ button = "services" /\ rows[a] = "on" /\ (free \/ a \in configsOpen)

(* A click on a button whose window is open raises the window instead.     *)
Raises(button, a) ==
  \/ button \in {"config", "services"} /\ a \in configsOpen
  \/ button = "reauth" /\ a \in reauthsOpen

Request(kind, a) ==
  \E c \in Calls :
    /\ call[c] = NoCall /\ hand[c] = NoHand
    /\ \A d \in Calls : call[d] = NoCall /\ hand[d] = NoHand => c <= d
    /\ call' = [call EXCEPT ![c] = [NoCall EXCEPT !.kind = kind, !.acct = a,
                                                  !.step = "reading", !.mine = TRUE]]

Click(button, a) ==
  /\ clicks < MaxClicks /\ clicks' = clicks + 1
  /\ Known(a) /\ Offered(button, a) /\ ~Raises(button, a)
  /\ Hurried \/ \A c \in Calls : call[c].step # "reading"
  /\ configsOpen' = IF button \in {"config", "services"} THEN configsOpen \cup {a}
                                                         ELSE configsOpen
  /\ reauthsOpen' = IF button = "reauth" THEN reauthsOpen \cup {a} ELSE reauthsOpen
  /\ Request(button, a)
  /\ UNCHANGED <<rows, auth, busy, settingUp, port, hand, tracked, setupsInFlight, ends>>

(* A setup in progress has an account id left for it.                      *)
RoomForSetup ==
  Cardinality(Unused) > Cardinality({c \in Calls : \/ call[c].kind = "setup"
                                                    \/ hand[c].kind = "setup"})

launchSetup ==
  /\ clicks < MaxClicks /\ clicks' = clicks + 1 /\ RoomForSetup
  /\ port /\ ~setupsInFlight
  /\ setupsInFlight' = TRUE
  /\ Request("setup", NoAccount)
  /\ UNCHANGED <<rows, auth, busy, settingUp, port, hand, tracked,
                 configsOpen, reauthsOpen, ends>>

(* The page is closed and opened again: it forgets what it had open.       *)
ReloadPage ==
  /\ ends < MaxEnds /\ ends' = ends + 1
  /\ configsOpen' = {} /\ reauthsOpen' = {} /\ setupsInFlight' = FALSE
  /\ call' = [c \in Calls |-> [call[c] EXCEPT !.mine = FALSE]]
  /\ UNCHANGED <<rows, auth, busy, settingUp, port, hand, tracked, clicks>>

(* The RPC of a call settles, and the page that asked hears of it.         *)
Settle(c) ==
  LET r == call[c]
  IN /\ call' = [call EXCEPT ![c] = NoCall]
     /\ configsOpen' = IF r.mine /\ r.kind \in {"config", "services"}
                       THEN configsOpen \ {r.acct} ELSE configsOpen
     /\ reauthsOpen' = IF r.mine /\ r.kind \in {"reauth", "reconnect"}
                       THEN reauthsOpen \ {r.acct} ELSE reauthsOpen
     /\ setupsInFlight' = (setupsInFlight /\ ~(r.mine /\ r.kind = "setup"))

-----------------------------------------------------------------------------
(* The RPC handlers of the host                                            *)

(* router.sendCmd.  `editable' is what ~readOnly tells the config window.  *)
Command(c, kind, a, editable) ==
  hand' = [hand EXCEPT ![c] = [NoHand EXCEPT
             !.kind = kind, !.acct = a, !.editable = editable,
             !.step = IF kind \in Windowed THEN "creating" ELSE "working"]]

assertAccountReady(a) == a \notin settingUp

Refused(c) ==
  LET r == call[c]
  IN \/ r.kind = "setup" /\ ~port
     \/ r.kind # "setup" /\ ~Known(r.acct)
     \/ /\ r.kind \in AccountButtons \ Teardowns
        /\ ~assertAccountReady(r.acct) \/ ~port
     \/ r.kind = "services" /\ Known(r.acct) /\ rows[r.acct] # "on"

(* addAccount, editAccount, openServices, authenticateAccount,             *)
(* setAccountEnabled, deleteAccount, up to the command they post: a        *)
(* teardown does without a provider that is gone.                          *)
Take(c) ==
  /\ call[c].step = "reading"
  /\ IF Refused(c)
     THEN Settle(c) /\ UNCHANGED <<busy, hand>>
     ELSE LET r == call[c]
              posts == port \/ r.kind \notin Teardowns
          IN /\ busy' = IF r.kind = "setup" THEN busy ELSE busy \cup {r.acct}
             /\ call' = [call EXCEPT
                           ![c].step = IF posts THEN "waiting" ELSE "returned",
                           ![c].was = IF r.kind = "setup" THEN "none" ELSE rows[r.acct]]
             /\ IF posts THEN Command(c, r.kind, r.acct,
                                      r.kind = "config" /\ rows[r.acct] # "on")
                ELSE UNCHANGED hand
             /\ UNCHANGED pageVars
  /\ UNCHANGED <<rows, auth, settingUp, port, tracked>> /\ UNCHANGED boundVars

(* accounts.update writes to a row that is there, and only then.           *)
Updated(a, s) == IF Known(a) THEN [rows EXCEPT ![a] = s] ELSE rows

(* What a handler writes once its command is answered, or has failed.      *)
Written(c) ==
  LET r == call[c]
      ok == r.result = "success"
      a == r.acct
  IN IF r.kind \in {"connect", "reconnect"} /\ ok THEN Updated(a, "on")
     ELSE IF r.kind = "disconnect" THEN Updated(a, "off")
     ELSE IF r.kind = "remove" THEN Updated(a, "removed")
     ELSE rows

ClearsAuth(c) ==
  \/ call[c].kind \in {"connect", "reauth"} /\ call[c].result = "success"
  \/ call[c].kind \in Teardowns

(* The rest of the handlers, and the finally of withBusyAccount: the mark  *)
(* is an entry of a Set, whoever else put it there.                        *)
Finish(c) ==
  LET a == call[c].acct
  IN /\ call[c].step = "returned"
     /\ ~(call[c].kind = "reauth" /\ call[c].result = "success"
            /\ call[c].was = "off" /\ port)
     /\ rows' = Written(c)
     /\ auth' = IF ClearsAuth(c) THEN auth \ {a} ELSE auth
     /\ busy' = busy \ {a}
     /\ Settle(c)
     /\ UNCHANGED <<settingUp, port, hand, tracked>> /\ UNCHANGED boundVars

(* authenticateAccount: an account that was not connected when the sign-in *)
(* began is connected now.                                                 *)
HealStranded(c) ==
  /\ call[c].step = "returned" /\ call[c].kind = "reauth" /\ call[c].result = "success"
  /\ call[c].was = "off" /\ port /\ hand[c] = NoHand
  /\ auth' = auth \ {call[c].acct}
  /\ call' = [call EXCEPT ![c].kind = "reconnect", ![c].step = "waiting",
                          ![c].result = "none"]
  /\ Command(c, "reconnect", call[c].acct, FALSE)
  /\ UNCHANGED <<rows, busy, settingUp, port, tracked>>
  /\ UNCHANGED pageVars /\ UNCHANGED boundVars

(* The commands that open a window wait for as long as it takes.           *)
TimesOut(c) ==
  /\ call[c].step = "waiting" /\ call[c].kind \notin Windowed
  /\ call' = [call EXCEPT ![c].step = "returned", ![c].result = "failed"]
  /\ UNCHANGED <<rows, auth, busy, settingUp, port, hand, tracked>>
  /\ UNCHANGED pageVars /\ UNCHANGED boundVars

(* SET_ACCOUNT_SETUP_LOCK, of an account that is still there.              *)
Locked(a) == IF Known(a) THEN settingUp \cup {a} ELSE settingUp
Released(a) == IF Known(a) THEN settingUp \ {a} ELSE settingUp

-----------------------------------------------------------------------------
(* The provider                                                            *)

(* Mutant: a window that closes forgets every window of its account.       *)
ForgetsAccount(c) == {d \in tracked : d # c /\ hand[d].acct # hand[c].acct}

(* Mutant: a window that closes is never forgotten.                        *)
NeverForgets(c) == tracked

unregisterAccountWindow(c) == tracked \ {c}

(* Which windows a second click on a button brings to the front.           *)
onFocusSetupPopup == {c \in tracked : hand[c].kind = "setup"}
onFocusAccountPopup(a) == {c \in tracked : hand[c].kind # "setup" /\ hand[c].acct = a}

(* The host passes the click on to a provider that is there.               *)
focusSetupPopup == IF port THEN onFocusSetupPopup ELSE {}
focusAccountPopup(a) == IF port THEN onFocusAccountPopup(a) ELSE {}

(* dispatchHostCmd: an answer that finds its call gone is dropped.         *)
Answer(c, result) ==
  /\ hand' = [hand EXCEPT ![c] = NoHand]
  /\ call' = IF call[c].step # "waiting" THEN call
             ELSE [call EXCEPT ![c].step = "returned", ![c].result = result]

(* windows.create resolves, or fails.                                      *)
WindowShows(c) ==
  /\ hand[c].step = "creating"
  /\ \/ hand' = [hand EXCEPT ![c].step = "created", ![c].win = "shown"] /\ UNCHANGED call
     \/ Answer(c, "failed")
  /\ UNCHANGED <<rows, auth, busy, settingUp, port, tracked>>
  /\ UNCHANGED pageVars /\ UNCHANGED boundVars

(* pendingSetups.set, registerAccountWindow and waitForWindowClose: the    *)
(* opener learns of a closing that happens from here on.                   *)
Track(c) ==
  /\ hand[c].step = "created"
  /\ tracked' = tracked \cup {c}
  /\ hand' = [hand EXCEPT ![c].step = IF hand[c].win = "shown" THEN "open" ELSE "stuck"]
  /\ UNCHANGED <<rows, auth, busy, settingUp, port, call>>
  /\ UNCHANGED pageVars /\ UNCHANGED boundVars

(* The user closes the window, or is done with it: a setup page then says  *)
(* so and closes itself, a consent window has its sign-in.                 *)
UserCloses(c) ==
  /\ hand[c].win = "shown" /\ (Hasty \/ hand[c].step # "created")
  /\ \E done \in BOOLEAN :
       hand' = [hand EXCEPT ![c].win = "closed", ![c].done = done]
  /\ UNCHANGED <<rows, auth, busy, settingUp, port, call, tracked>>
  /\ UNCHANGED pageVars /\ UNCHANGED boundVars

(* onOpenConfigPopup, onOpenServicesPopup and a sign-in of a provider,     *)
(* when windows.onRemoved fires.                                           *)
WindowClosed(c) ==
  /\ hand[c].kind \in Windowed \ {"setup"}
  /\ hand[c].step = "open" /\ hand[c].win = "closed"
  /\ tracked' = unregisterAccountWindow(c)
  /\ Answer(c, IF hand[c].kind = "reauth" /\ ~hand[c].done THEN "cancelled" ELSE "success")
  /\ UNCHANGED <<rows, auth, busy, settingUp, port>>
  /\ UNCHANGED pageVars /\ UNCHANGED boundVars

(* completeSetup, on the message of the setup page.                        *)
completeSetup(c) ==
  /\ hand[c].kind = "setup" /\ hand[c].step = "open" /\ hand[c].done
  /\ tracked' = tracked \ {c}
  /\ hand' = [hand EXCEPT ![c].step = "registering"]
  /\ UNCHANGED <<rows, auth, busy, settingUp, port, call>>
  /\ UNCHANGED pageVars /\ UNCHANGED boundVars

(* Mutant: a closed window cancels its setup at once.                      *)
NoGrace(c) == TRUE

(* The completion message, already sent, arrives within the 500 ms.        *)
GraceOver(c) == ~hand[c].done

cancelSetup(c) ==
  /\ hand[c].kind = "setup" /\ hand[c].step = "open" /\ hand[c].win = "closed"
  /\ GraceOver(c)
  /\ tracked' = tracked \ {c}
  /\ Answer(c, "cancelled")
  /\ UNCHANGED <<rows, auth, busy, settingUp, port>>
  /\ UNCHANGED pageVars /\ UNCHANGED boundVars

(* registerAccount, REGISTER_ACCOUNT at the host and its answer on the way. *)
registerAccount(c) ==
  /\ hand[c].step = "registering"
  /\ IF port
     THEN \E a \in Unused :
            /\ rows' = [rows EXCEPT ![a] = "off"]
            /\ hand' = [hand EXCEPT ![c].step = "registered", ![c].acct = a]
            /\ UNCHANGED call
     ELSE Answer(c, "failed") /\ UNCHANGED rows
  /\ UNCHANGED <<auth, busy, settingUp, port, tracked>>
  /\ UNCHANGED pageVars /\ UNCHANGED boundVars

(* setAccountSetupLock(true): best effort.                                 *)
LockForSetup(c) ==
  /\ hand[c].step = "registered"
  /\ settingUp' = IF port THEN Locked(hand[c].acct) ELSE settingUp
  /\ hand' = [hand EXCEPT ![c].step = "preparing"]
  /\ UNCHANGED <<rows, auth, busy, port, call, tracked>>
  /\ UNCHANGED pageVars /\ UNCHANGED boundVars

(* Mutant: only a preparation that went well releases the lock.            *)
ReleasesIfWell(c, well) == port /\ well

ReleasesLock(c, well) == port

(* onRegisterSuccessful returns or throws, and the finally after it.       *)
Prepared(c) ==
  /\ hand[c].step = "preparing"
  /\ \E well \in BOOLEAN :
       /\ settingUp' = IF ReleasesLock(c, well) THEN Released(hand[c].acct) ELSE settingUp
       /\ Answer(c, IF well THEN "success" ELSE "failed")
  /\ UNCHANGED <<rows, auth, busy, port, tracked>>
  /\ UNCHANGED pageVars /\ UNCHANGED boundVars

(* A handler without a window does its work.                               *)
Work(c) ==
  /\ hand[c].step = "working"
  /\ \E result \in {"success", "failed"} : Answer(c, result)
  /\ UNCHANGED <<rows, auth, busy, settingUp, port, tracked>>
  /\ UNCHANGED pageVars /\ UNCHANGED boundVars

-----------------------------------------------------------------------------
(* Ends                                                                    *)

(* Mutant: a lost port leaves the commands that are open on it.            *)
KeepsPending(calls) == calls

rejectPending(calls) ==
  [c \in Calls |-> IF calls[c].step # "waiting" THEN calls[c]
                   ELSE [calls[c] EXCEPT !.step = "returned", !.result = "failed"]]

(* The add-on is disabled, which the host hears of and which releases the  *)
(* setup locks, or reloaded in place, which does not.  Its windows close.  *)
ProviderEnds ==
  /\ ends < MaxEnds /\ ends' = ends + 1
  /\ port' = FALSE
  /\ hand' = [c \in Calls |-> NoHand] /\ tracked' = {}
  /\ call' = rejectPending(call)
  /\ settingUp' \in {settingUp, {}}
  /\ UNCHANGED <<rows, auth, busy, clicks>> /\ UNCHANGED pageVars

(* The host restarts, and its pages with it: the provider's commands are   *)
(* rejected, its windows stay.                                             *)
HostEnds ==
  /\ ends < MaxEnds /\ ends' = ends + 1
  /\ port' = FALSE
  /\ call' = [c \in Calls |-> NoCall]
  /\ busy' = {} /\ settingUp' = {}
  /\ hand' = [c \in Calls |-> IF hand[c].step = "registered" THEN NoHand ELSE hand[c]]
  /\ configsOpen' = {} /\ reauthsOpen' = {} /\ setupsInFlight' = FALSE
  /\ UNCHANGED <<rows, auth, tracked, clicks>>

Reconnect ==
  /\ ~port /\ port' = TRUE
  /\ UNCHANGED <<rows, auth, busy, settingUp, call, hand, tracked>>
  /\ UNCHANGED pageVars /\ UNCHANGED boundVars

-----------------------------------------------------------------------------

HostStep(c) == Take(c) \/ Finish(c) \/ HealStranded(c)
ProviderStep(c) ==
  \/ WindowShows(c) \/ Track(c) \/ WindowClosed(c) \/ completeSetup(c) \/ cancelSetup(c)
  \/ registerAccount(c) \/ LockForSetup(c) \/ Prepared(c) \/ Work(c)

Next ==
  \/ \E a \in Accounts, button \in AccountButtons : Click(button, a)
  \/ launchSetup \/ ReloadPage
  \/ \E c \in Calls : HostStep(c) \/ ProviderStep(c) \/ TimesOut(c) \/ UserCloses(c)
  \/ ProviderEnds \/ HostEnds \/ Reconnect

Spec == Init /\ [][Next]_vars

(* The event loops run what is due, the user closes a window in the end,   *)
(* and the two sides find each other again.                                *)
FairSpec ==
  /\ Spec
  /\ \A c \in Calls : /\ WF_vars(HostStep(c)) /\ WF_vars(ProviderStep(c))
                      /\ WF_vars(UserCloses(c))
  /\ WF_vars(Reconnect)

-----------------------------------------------------------------------------

TypeOK ==
  /\ rows \in [Accounts -> {"unused", "off", "on", "removed"}]
  /\ {auth, busy, settingUp, configsOpen, reauthsOpen} \subseteq SUBSET Accounts
  /\ {port, setupsInFlight} \subseteq BOOLEAN
  /\ call \in [Calls -> [kind : AccountButtons \cup {"none", "setup", "reconnect"},
                         acct : Accounts \cup {NoAccount},
                         step : {"none", "reading", "waiting", "returned"},
                         was : {"none", "off", "on"},
                         result : {"none", "success", "failed", "cancelled"},
                         mine : BOOLEAN]]
  /\ hand \in [Calls -> [kind : AccountButtons \cup {"none", "setup", "reconnect"},
                         acct : Accounts \cup {NoAccount},
                         step : {"none", "creating", "created", "open", "stuck", "registering",
                                 "registered", "preparing", "working"},
                         win : {"none", "shown", "closed"},
                         editable : BOOLEAN, done : BOOLEAN]]
  /\ tracked \subseteq {c \in Calls : hand[c].step \in {"open", "stuck"}}
  /\ clicks \in 0..MaxClicks /\ ends \in 0..MaxEnds

(* Every window on the screen can be brought to the front by a click on    *)
(* the button that opened it, however many of its account are open and in  *)
(* whatever order they close (provider.mjs onFocusAccountPopup).           *)
Raisable ==
  \A c \in Calls : port /\ hand[c].step = "open" /\ hand[c].win = "shown" =>
    c \in IF hand[c].kind = "setup" THEN focusSetupPopup ELSE focusAccountPopup(hand[c].acct)

(* A setup the user completed ends with the account registered, although   *)
(* its window closes before the message arrives; only a host that is gone  *)
(* loses it (provider.mjs attachSetupCancelListener).                      *)
CompletedRegisters ==
  [][\A c \in {d \in Calls : hand[d].kind = "setup" /\ hand[d].done
                                /\ hand[d].acct = NoAccount /\ hand'[d] = NoHand} :
       ~port']_vars

(* An account marked busy for a window or a toggle is free again in the    *)
(* end, also when the provider is lost with the window open: autosync and  *)
(* every button of the account wait for that (withBusyAccount).  And the   *)
(* lock on an account being set up goes when its preparation is over, well *)
(* or not; a provider that ended while it held one is Handshake's business *)
(* (onOpenSetupPopup).                                                     *)
LocksEnd ==
  \A a \in Accounts :
    /\ a \in busy ~> a \notin busy
    /\ a \in settingUp ~> (a \notin settingUp \/ rows[a] = "removed" \/ ends > 0)

(* protocol.mjs says of the settings in the config window that they are    *)
(* locked while the account is connected.                                  *)
LockedWhileConnected ==
  \A c \in Calls : hand[c].win = "shown" /\ hand[c].kind = "config" /\ hand[c].editable =>
    rows[hand[c].acct] # "on"
=============================================================================
