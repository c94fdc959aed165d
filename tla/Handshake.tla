------------------------------- MODULE Handshake -------------------------------
(***************************************************************************)
(* How TbSync and its providers find each other: announces, the host-ready *)
(* broadcast and the removals of registry.mjs, the ports and back-off      *)
(* probes of router.mjs, the rows of providers.mjs, and the other end of   *)
(* it all in provider.mjs.  With them the upgrade lock and the lock on an  *)
(* account being set up, which a provider takes over its port and the host *)
(* must not leave standing.                                                *)
(*                                                                         *)
(* Both sides are add-ons that start, stop and restart at any time: a      *)
(* provider may be disabled (Thunderbird tells the host), or replaced or   *)
(* reloaded in place (it does not).  Messages are delivered in any order,  *)
(* or lost when nobody listens.  External: the add-on manager, the wire,   *)
(* and what a provider does under its locks.                               *)
(***************************************************************************)
EXTENDS Naturals, Sequences, FiniteSets

CONSTANTS
  Providers,       \* provider ids, each with its add-on and one account
  Hurried,         \* whether an add-on may be switched on or off while the
                   \* host still handles how it was switched before
  Replaceable,     \* whether an add-on may be replaced by another version
  MaxFlips,        \* bound: starts and stops of either side
  MaxPorts,        \* bound: ports that exist at once
  MaxWrites        \* bound: writes of rows waiting when a port is lost or probed

ASSUME HandshakeAssumption ==
  /\ {Hurried, Replaceable} \subseteq BOOLEAN
  /\ {MaxFlips, MaxWrites} \subseteq Nat /\ MaxPorts \in Nat \ {0}

Ports == 1..MaxPorts
NoPort == 0
Versions == {"ours", "other"}

VARIABLES
  host,          \* "off", "boot": not listening yet, "announcing", "ready"
  ext,           \* the add-on: "off", "starting": no listener yet, "on"
  speaks,        \* the protocol version it speaks
  rows,          \* providers.mjs: "absent", "active", "stale"
  refused,       \* incompatibleProviders
  ports,         \* router.mjs: the port to each provider
  knows,         \* router.mjs: extensionIds has the provider
  timers,        \* router.mjs: probes that are armed
  reachable,     \* router.mjs: backoff still names the last of them
  handlers,      \* discovery messages in their handlers
  writes,        \* providers.mjs: writes waiting for their turn
  port,          \* provider.mjs: #port
  wire,          \* what is on its way
  upgrading, settingUp,  \* transient.mjs: upgradeAccounts, settingUpAccounts
  pending,       \* legacyMigrationPending of the account
  work,          \* what the provider is doing under a lock
  flips

vars == <<host, ext, speaks, rows, refused, ports, knows, timers, reachable, handlers,
          writes, port, wire, upgrading, settingUp, pending, work, flips>>
routerVars == <<ports, knows, timers, reachable>>
lockVars == <<upgrading, settingUp, pending, work>>
sideVars == <<host, ext, speaks, flips>>

Kinds == {"announce", "hostReady", "disabled", "connect", "hostHears", "providerHears"}

Msg(kind, p, n) == [kind |-> kind, p |-> p, n |-> n]
Send(messages) == wire' = wire \cup messages

(* Numbers of ports may be used again once nothing refers to them.         *)
Unused == {n \in Ports : /\ \A p \in Providers : n \notin {ports[p], port[p]}
                         /\ \A m \in wire : m.n # n}
FreshPort == CHOOSE n \in Unused : TRUE

(* What the host has yet to finish of an announce or a removal.            *)
Settled(p) == /\ \A m \in wire : ~(m.kind \in {"announce", "disabled"} /\ m.p = p)
              /\ \A h \in handlers : h.p # p
              /\ \A i \in 1..Len(writes) : ~(writes[i].op \in {"upsert", "remove"}
                                              /\ writes[i].p = p)

Init ==
  /\ host = "off" /\ ext = [p \in Providers |-> "off"]
  /\ speaks \in [Providers -> IF Replaceable THEN Versions ELSE {"ours"}]
  /\ rows = [p \in Providers |-> "absent"]
  /\ refused = {}
  /\ ports = [p \in Providers |-> NoPort] /\ port = ports
  /\ knows = {} /\ reachable = {}
  /\ timers = [p \in Providers |-> 0]
  /\ handlers = {} /\ writes = <<>> /\ wire = {}
  /\ upgrading = {} /\ settingUp = {}
  /\ pending \in SUBSET Providers
  /\ work = [p \in Providers |-> "none"]
  /\ flips = 0

-----------------------------------------------------------------------------
(* Ports                                                                   *)

(* openPortToProvider: the handle of a probe is forgotten, the probe       *)
(* itself stays armed.  connect() to an add-on that does not listen yields *)
(* a port that disconnects.                                                *)
openPortToProvider(p) ==
  IF ports[p] # NoPort THEN UNCHANGED <<ports, knows, reachable, wire>>
  ELSE /\ Unused # {}
       /\ ports' = [ports EXCEPT ![p] = FreshPort]
       /\ knows' = knows \cup {p}
       /\ reachable' = reachable \ {p}
       /\ Send({Msg(IF ext[p] = "on" THEN "connect" ELSE "hostHears", p, FreshPort)})

(* Disconnected(p, n): the other side hears of it, if it holds the port.   *)
ProviderHears(p, n) ==
  IF port[p] = n THEN {Msg("providerHears", p, n)} ELSE {}

closePortToProvider(p) ==
  /\ ports' = [ports EXCEPT ![p] = NoPort]
  /\ knows' = knows \ {p}
  /\ reachable' = reachable \ {p}
  /\ timers' = [timers EXCEPT ![p] = IF p \in reachable THEN @ - 1 ELSE @]
  /\ wire' = (wire \ {Msg("connect", p, ports[p])})
               \cup (IF ports[p] = NoPort THEN {} ELSE ProviderHears(p, ports[p]))

(* Mutant: a lost port is not probed.                                      *)
NoProbe(p) == timers

scheduleBackoffProbe(p) == [timers EXCEPT ![p] = @ + 1]

handleDisconnect(m) ==
  /\ m \in wire /\ m.kind = "hostHears" /\ Len(writes) < MaxWrites
  /\ wire' = wire \ {m}
  /\ IF ports[m.p] # m.n
     THEN UNCHANGED <<ports, timers, reachable, writes>>
     ELSE /\ ports' = [ports EXCEPT ![m.p] = NoPort]
          /\ timers' = scheduleBackoffProbe(m.p)
          /\ reachable' = reachable \cup {m.p}
          /\ writes' = Append(writes, [op |-> "stale", p |-> m.p])
  /\ UNCHANGED <<rows, refused, knows, handlers, port>>
  /\ UNCHANGED lockVars /\ UNCHANGED sideVars

(* The probe of scheduleBackoffProbe.                                      *)
Probe(p) ==
  /\ timers[p] > 0 /\ Len(writes) < MaxWrites
  /\ timers' = [timers EXCEPT ![p] = @ - 1]
  /\ IF p \in knows
     THEN /\ openPortToProvider(p)
          /\ writes' = Append(writes, [op |-> "active", p |-> p])
     ELSE UNCHANGED <<ports, knows, reachable, wire, writes>>
  /\ UNCHANGED <<rows, refused, handlers, port>>
  /\ UNCHANGED lockVars /\ UNCHANGED sideVars

-----------------------------------------------------------------------------
(* The registry                                                            *)

(* registry.init: listen, then tell every enabled add-on.                  *)
init ==
  /\ host = "boot"
  /\ host' = "announcing"
  /\ UNCHANGED <<ext, speaks, rows, refused, handlers, writes, port, wire, flips>>
  /\ UNCHANGED routerVars /\ UNCHANGED lockVars

broadcastHostReady ==
  /\ host = "announcing"
  /\ host' = "ready"
  /\ Send({Msg("hostReady", p, NoPort) : p \in {q \in Providers : ext[q] # "off"}})
  /\ UNCHANGED <<ext, speaks, rows, refused, handlers, writes, port, flips>>
  /\ UNCHANGED routerVars /\ UNCHANGED lockVars

Listening == host \in {"announcing", "ready"}

(* An announce arrives: of the wrong version it is refused and remembered, *)
(* else the row is written.                                                *)
handleAnnounce(m) ==
  /\ m \in wire /\ m.kind = "announce"
  /\ wire' = wire \ {m}
  /\ IF ~Listening THEN UNCHANGED <<refused, writes>>
     ELSE IF m.n # NoPort
     THEN /\ refused' = refused \cup {m.p}
          /\ UNCHANGED writes
     ELSE /\ refused' = refused \ {m.p}
          /\ writes' = Append(writes, [op |-> "upsert", p |-> m.p])
  /\ UNCHANGED <<rows, handlers, port>>
  /\ UNCHANGED routerVars /\ UNCHANGED lockVars /\ UNCHANGED sideVars

(* management.onDisabled, onUninstalled, or an unannounce: the provider is *)
(* looked up by its add-on, in the rows.                                   *)
handleDisabled(m) ==
  /\ m \in wire /\ m.kind = "disabled"
  /\ wire' = wire \ {m}
  /\ handlers' = IF Listening
                 THEN handlers \cup {[kind |-> "unannounce", p |-> m.p, at |-> "lookup"]}
                 ELSE handlers
  /\ UNCHANGED <<rows, refused, writes, port>>
  /\ UNCHANGED routerVars /\ UNCHANGED lockVars /\ UNCHANGED sideVars

providerIdFromExtensionId(h) ==
  /\ h \in handlers /\ h.at = "lookup"
  /\ IF rows[h.p] = "absent"
     THEN /\ handlers' = handlers \ {h}
          /\ UNCHANGED <<writes, wire>> /\ UNCHANGED routerVars
     ELSE /\ closePortToProvider(h.p)
          /\ writes' = Append(writes, [op |-> "remove", p |-> h.p])
          /\ handlers' = (handlers \ {h}) \cup {[h EXCEPT !.at = "remove"]}
  /\ UNCHANGED <<rows, refused, port>>
  /\ UNCHANGED lockVars /\ UNCHANGED sideVars

(* Mutant: a provider that leaves keeps its upgrade lock.                  *)
KeepsLocks(p) == {}

(* What handleUnannounce releases, pending or not.                         *)
ReleasedBy(p) == {p}

handleUnannounce(h) ==
  /\ h \in handlers /\ h.at = "unlock"
  /\ upgrading' = upgrading \ ReleasedBy(h.p)
  /\ settingUp' = settingUp \ ReleasedBy(h.p)
  /\ handlers' = handlers \ {h}
  /\ UNCHANGED <<rows, refused, writes, port, wire, pending, work>>
  /\ UNCHANGED routerVars /\ UNCHANGED sideVars

(* providers.mjs: upsert, setState and remove take turns; after its upsert *)
(* an announce opens the port, after its removal an unannounce unlocks.    *)
Write ==
  LET w == Head(writes)
      p == w.p
  IN /\ writes # <<>>
     /\ writes' = Tail(writes)
     /\ rows' = [rows EXCEPT ![p] =
          CASE w.op = "upsert" -> "active"
            [] w.op = "remove" -> "absent"
            [] w.op \in {"stale", "active"} -> IF @ = "absent" THEN @ ELSE w.op]
     /\ IF w.op = "upsert" THEN openPortToProvider(p)
        ELSE UNCHANGED <<ports, knows, reachable, wire>>
     /\ handlers' = IF w.op = "remove"
                    THEN {IF h.p = p /\ h.at = "remove" THEN [h EXCEPT !.at = "unlock"] ELSE h :
                            h \in handlers}
                    ELSE handlers
     /\ UNCHANGED <<refused, timers, port>>
     /\ UNCHANGED lockVars /\ UNCHANGED sideVars

-----------------------------------------------------------------------------
(* The provider                                                            *)

Announce(p) == Msg("announce", p, IF speaks[p] = "ours" THEN NoPort ELSE 1)

(* init: all listeners, then one announce.                                 *)
ProviderInit(p) ==
  /\ ext[p] = "starting"
  /\ ext' = [ext EXCEPT ![p] = "on"]
  /\ Send({Announce(p)})
  /\ UNCHANGED <<host, speaks, rows, refused, handlers, writes, port, flips>>
  /\ UNCHANGED routerVars /\ UNCHANGED lockVars

(* Mutant: the host-ready message is not answered with an announce.        *)
Silence(p) == {}

AnswerHostReady(p) == {Announce(p)}

attachHostReadyListener(m) ==
  /\ m \in wire /\ m.kind = "hostReady"
  /\ wire' = (wire \ {m}) \cup (IF ext[m.p] = "on" THEN AnswerHostReady(m.p) ELSE {})
  /\ UNCHANGED <<rows, refused, handlers, writes, port>>
  /\ UNCHANGED routerVars /\ UNCHANGED lockVars /\ UNCHANGED sideVars

(* onConnectExternal: the newest port stands, an earlier one is closed.    *)
attachPort(m) ==
  /\ m \in wire /\ m.kind = "connect"
  /\ wire' = (wire \ {m}) \cup
       (IF ext[m.p] # "on" THEN {Msg("hostHears", m.p, m.n)}
        ELSE IF port[m.p] # NoPort THEN {Msg("hostHears", m.p, port[m.p])} ELSE {})
  /\ port' = IF ext[m.p] = "on" THEN [port EXCEPT ![m.p] = m.n] ELSE port
  /\ UNCHANGED <<rows, refused, handlers, writes>>
  /\ UNCHANGED routerVars /\ UNCHANGED lockVars /\ UNCHANGED sideVars

providerDisconnected(m) ==
  /\ m \in wire /\ m.kind = "providerHears"
  /\ wire' = wire \ {m}
  /\ port' = IF port[m.p] = m.n THEN [port EXCEPT ![m.p] = NoPort] ELSE port
  /\ UNCHANGED <<rows, refused, handlers, writes>>
  /\ UNCHANGED routerVars /\ UNCHANGED lockVars /\ UNCHANGED sideVars

-----------------------------------------------------------------------------
(* Locks                                                                   *)

Connected(p) == ports[p] # NoPort /\ ports[p] = port[p]

LockUnchanged == /\ UNCHANGED <<rows, refused, handlers, writes, port, wire>>
                 /\ UNCHANGED routerVars /\ UNCHANGED sideVars

(* SET_PROVIDER_UPGRADE_LOCK, once after the provider's first connection.  *)
LockForUpgrade(p) ==
  /\ Connected(p) /\ work[p] = "none"
  /\ work' = [work EXCEPT ![p] = "upgrade"]
  /\ upgrading' = upgrading \cup {p}
  /\ UNCHANGED <<settingUp, pending>> /\ LockUnchanged

LEGACY_MIGRATION_DONE(p) ==
  /\ Connected(p) /\ work[p] = "upgrade" /\ p \in pending
  /\ pending' = pending \ {p}
  /\ UNCHANGED <<upgrading, settingUp, work>> /\ LockUnchanged

ReleaseUpgradeLock(p) ==
  /\ Connected(p) /\ work[p] = "upgrade"
  /\ work' = [work EXCEPT ![p] = "done"]
  /\ upgrading' = IF p \in pending THEN upgrading ELSE upgrading \ {p}
  /\ UNCHANGED <<settingUp, pending>> /\ LockUnchanged

(* SET_ACCOUNT_SETUP_LOCK, around onRegisterSuccessful.                    *)
SetupLock(p) ==
  /\ Connected(p)
  /\ \/ /\ work[p] = "done"
        /\ work' = [work EXCEPT ![p] = "setup"]
        /\ settingUp' = settingUp \cup {p}
     \/ /\ work[p] = "setup"
        /\ work' = [work EXCEPT ![p] = "done"]
        /\ settingUp' = settingUp \ {p}
  /\ UNCHANGED <<upgrading, pending>> /\ LockUnchanged

-----------------------------------------------------------------------------
(* Add-ons come and go                                                     *)

HostStarts ==
  /\ host = "off" /\ flips < MaxFlips
  /\ host' = "boot"
  /\ upgrading' = pending
  /\ flips' = flips + 1
  /\ UNCHANGED <<ext, speaks, rows, refused, handlers, writes, port, wire, settingUp,
                 pending, work>>
  /\ UNCHANGED routerVars

(* All the host keeps in memory, or for the session, is gone.              *)
HostStops ==
  /\ host # "off" /\ flips < MaxFlips
  /\ host' = "off"
  /\ rows' = [p \in Providers |-> "absent"]
  /\ refused' = {} /\ handlers' = {} /\ writes' = <<>>
  /\ ports' = [p \in Providers |-> NoPort]
  /\ knows' = {} /\ reachable' = {} /\ timers' = [p \in Providers |-> 0]
  /\ wire' = {m \in wire : m.kind \notin {"hostHears", "connect", "disabled"}}
               \cup UNION {ProviderHears(p, ports[p]) : p \in {q \in Providers :
                                                                  ports[q] # NoPort}}
  /\ upgrading' = {} /\ settingUp' = {}
  /\ flips' = flips + 1
  /\ UNCHANGED <<ext, speaks, port, pending, work>>

(* The provider's page is gone: its ports disconnect.                      *)
PageGone(p) ==
  /\ port' = [port EXCEPT ![p] = NoPort]
  /\ work' = [work EXCEPT ![p] = "none"]

Dropped(p) ==
  {m \in wire : ~(m.p = p /\ m.kind \in {"connect", "providerHears", "hostReady"})}
    \cup (IF port[p] = NoPort THEN {} ELSE {Msg("hostHears", p, port[p])})
    \cup {Msg("hostHears", p, m.n) : m \in {c \in wire : c.kind = "connect" /\ c.p = p}}

Enable(p) ==
  /\ ext[p] = "off" /\ flips < MaxFlips
  /\ Hurried \/ Settled(p)
  /\ ext' = [ext EXCEPT ![p] = "starting"]
  /\ flips' = flips + 1
  /\ UNCHANGED <<host, speaks, rows, refused, handlers, writes, port, wire>>
  /\ UNCHANGED routerVars /\ UNCHANGED lockVars

Disable(p) ==
  /\ ext[p] # "off" /\ flips < MaxFlips
  /\ Hurried \/ Settled(p)
  /\ ext' = [ext EXCEPT ![p] = "off"]
  /\ PageGone(p)
  /\ wire' = Dropped(p) \cup (IF host = "off" THEN {} ELSE {Msg("disabled", p, NoPort)})
  /\ flips' = flips + 1
  /\ UNCHANGED <<host, speaks, rows, refused, handlers, writes, upgrading, settingUp,
                 pending>>
  /\ UNCHANGED routerVars

(* Reloaded, or replaced by another version, in place.                     *)
Replace(p) ==
  /\ ext[p] = "on" /\ flips < MaxFlips
  /\ ext' = [ext EXCEPT ![p] = "starting"]
  /\ \E v \in IF Replaceable THEN Versions ELSE {speaks[p]} :
       speaks' = [speaks EXCEPT ![p] = v]
  /\ PageGone(p)
  /\ wire' = Dropped(p)
  /\ flips' = flips + 1
  /\ UNCHANGED <<host, rows, refused, handlers, writes, upgrading, settingUp, pending>>
  /\ UNCHANGED routerVars

-----------------------------------------------------------------------------
Flip == \/ HostStarts \/ HostStops
        \/ \E p \in Providers : Enable(p) \/ Disable(p) \/ Replace(p)

Deliver(m) == \/ handleDisconnect(m) \/ handleAnnounce(m) \/ handleDisabled(m)
              \/ attachHostReadyListener(m) \/ attachPort(m) \/ providerDisconnected(m)

Handling == \E h \in handlers : providerIdFromExtensionId(h) \/ handleUnannounce(h)

Starting == init \/ broadcastHostReady

Locking == \E p \in Providers : \/ LockForUpgrade(p) \/ LEGACY_MIGRATION_DONE(p)
                                \/ ReleaseUpgradeLock(p) \/ SetupLock(p)

Next == \/ Flip \/ Starting \/ Handling \/ Write \/ Locking
        \/ \E m \in wire : Deliver(m)
        \/ \E p \in Providers : ProviderInit(p) \/ Probe(p)

Spec == Init /\ [][Next]_vars

(* Scripts run, messages arrive or are dropped, timers fire, and a         *)
(* provider releases the locks it took.  Nothing ever has to start.        *)
Fairness ==
  /\ WF_vars(Starting) /\ WF_vars(Handling) /\ WF_vars(Write)
  /\ \A k \in Kinds : WF_vars(\E m \in wire : m.kind = k /\ Deliver(m))
  /\ \A p \in Providers : /\ WF_vars(ProviderInit(p))
                          /\ WF_vars(Probe(p))
                          /\ WF_vars(ReleaseUpgradeLock(p))
                          /\ WF_vars(work[p] = "setup" /\ SetupLock(p))
FairSpec == Spec /\ Fairness

-----------------------------------------------------------------------------
(* Properties                                                              *)

TypeOK ==
  /\ host \in {"off", "boot", "announcing", "ready"}
  /\ ext \in [Providers -> {"off", "starting", "on"}]
  /\ speaks \in [Providers -> Versions]
  /\ rows \in [Providers -> {"absent", "active", "stale"}]
  /\ ports \in [Providers -> Ports \cup {NoPort}]
  /\ port \in [Providers -> Ports \cup {NoPort}]
  /\ timers \in [Providers -> Nat]
  /\ {refused, knows, reachable, upgrading, settingUp, pending} \subseteq SUBSET Providers
  /\ handlers \subseteq [kind : {"unannounce"}, p : Providers,
                         at : {"lookup", "remove", "unlock"}]
  /\ writes \in Seq([op : {"upsert", "remove", "stale", "active"}, p : Providers])
  /\ wire \subseteq [kind : Kinds, p : Providers, n : Ports \cup {NoPort}]
  /\ work \in [Providers -> {"none", "upgrade", "done", "setup"}]
  /\ flips \in 0..MaxFlips

Quiet(p) == handlers = {} /\ writes = <<>> /\ wire = {} /\ timers[p] = 0

(* Once nothing is on its way and no probe is armed, both sides mean the   *)
(* same port, and a row is active exactly if there is one.                 *)
SidesAgree ==
  \A p \in Providers :
    Quiet(p) => /\ ports[p] = port[p]
                /\ rows[p] = "active" <=> ports[p] # NoPort

(* "Between the two, whichever side starts later reaches the other": once  *)
(* both stay up and speak the same version, they end up connected for good *)
(* - whatever came before, and however often.                              *)
Up(p) == host # "off" /\ ext[p] # "off" /\ speaks[p] = "ours"
Registered ==
  \A p \in Providers :
    <>[]Up(p) => <>[](Connected(p) /\ rows[p] = "active")

(* A provider that goes away for good, and whose departure the host was    *)
(* told of, leaves no lock of its own behind.                              *)
LocksReleased ==
  \A p \in Providers :
    <>[](ext[p] = "off" /\ host = "ready") => <>[](p \notin settingUp)

(* "The version is agreed before any port exists" (PORT_NAME): once        *)
(* nothing is on its way, no port joins the host to a provider that speaks *)
(* another version.                                                        *)
VersionAgreed ==
  \A p \in Providers : Quiet(p) /\ Connected(p) => speaks[p] = "ours"

(* "An account still carrying legacyMigrationPending holds half-converted  *)
(* data and stays blocked no matter who releases the lock".                *)
HalfConvertedBlocked == Listening => pending \subseteq upgrading
=============================================================================
