--------------------------- MODULE Handshake_proofs ---------------------------
(* What Handshake promises for every set of providers, any number of starts, *)
(* stops, ports and writes, and whether add-ons are replaced or not.  First  *)
(* the two ends of every port, which hold whatever is hurried; then the rows *)
(* and the router, for which switches of an add-on have to be settled.       *)
EXTENDS Handshake, TLAPS

Numbers == Ports \cup {NoPort}
Messages == [kind : Kinds, p : Providers, n : Numbers]
Writes == [op : {"upsert", "remove", "stale", "active"}, p : Providers]
Handlers == [kind : {"unannounce"}, p : Providers, at : {"lookup", "remove", "unlock"}]

PortTypes ==
  /\ ports \in [Providers -> Numbers] /\ port \in [Providers -> Numbers]
  /\ knows \subseteq Providers /\ reachable \subseteq Providers
  /\ timers \in [Providers -> Nat]
WireTypes == wire \subseteq Messages
QueueTypes ==
  /\ handlers \subseteq Handlers /\ writes \in Seq(Writes)
  /\ rows \in [Providers -> {"absent", "active", "stale"}]
RestTypes ==
  /\ host \in {"off", "boot", "announcing", "ready"}
  /\ ext \in [Providers -> {"off", "starting", "on"}]
  /\ speaks \in [Providers -> Versions]
  /\ refused \subseteq Providers
  /\ flips \in 0..MaxFlips
LockTypes ==
  /\ upgrading \subseteq Providers /\ settingUp \subseteq Providers
  /\ pending \subseteq Providers
  /\ work \in [Providers -> {"none", "upgrade", "done", "setup"}]

(* A back-off is remembered only while its probe is armed and no port is     *)
(* open; a port is open only to a provider the router knows.                 *)
ArmedInv ==
  \A p \in Providers :
    /\ p \in reachable => ports[p] = NoPort /\ timers[p] > 0 /\ p \in knows
    /\ ports[p] # NoPort => p \in knows

Comes(kind, p, n) == Msg(kind, p, n) \in wire

(* The two ends of a port: what one side holds the other holds as well, or   *)
(* is about to be told of.                                                   *)
Pair(p) ==
  /\ ports[p] # NoPort => \/ port[p] = ports[p]
                          \/ Comes("connect", p, ports[p])
                          \/ Comes("hostHears", p, ports[p])
  /\ port[p] # NoPort => ports[p] = port[p] \/ Comes("providerHears", p, port[p])
  /\ \A n \in Numbers :
       /\ Comes("connect", p, n) => /\ ports[p] = n /\ port[p] # n /\ n # NoPort
                                    /\ ~Comes("hostHears", p, n)
       /\ Comes("hostHears", p, n) => port[p] # n /\ n # NoPort
       /\ Comes("providerHears", p, n) => ports[p] # n /\ n # NoPort
PairsInv == \A p \in Providers : Pair(p)

Inv == /\ PortTypes /\ WireTypes /\ QueueTypes /\ RestTypes /\ LockTypes
       /\ ArmedInv /\ PairsInv

LEMMA Typed == Inv => TypeOK
PROOF
<1> SUFFICES ASSUME Inv PROVE TypeOK
  OBVIOUS
<1>1. {refused, knows, reachable, upgrading, settingUp, pending} \subseteq SUBSET Providers
  BY DEF Inv, PortTypes, RestTypes, LockTypes
<1> QED BY <1>1 DEF Inv, PortTypes, WireTypes, QueueTypes, RestTypes, LockTypes, TypeOK,
                    Numbers, Messages, Writes, Handlers

-----------------------------------------------------------------------------
(* Messages and numbers.                                                     *)

LEMMA MsgFacts ==
  /\ \A kind \in Kinds, p \in Providers, n \in Numbers :
       Msg(kind, p, n) \in Messages
  /\ \A kind, p, n : /\ Msg(kind, p, n).kind = kind
                     /\ Msg(kind, p, n).p = p /\ Msg(kind, p, n).n = n
  /\ \A m \in Messages : m = Msg(m.kind, m.p, m.n)
  /\ \A m \in Messages : m.kind \in Kinds /\ m.p \in Providers /\ m.n \in Numbers
PROOF
  BY DEF Msg, Messages

LEMMA NumberFacts == NoPort \in Numbers /\ NoPort \notin Ports /\ Ports \subseteq Numbers
                     /\ Numbers \subseteq Nat
PROOF
  BY HandshakeAssumption DEF Ports, NoPort, Numbers

LEMMA FreshFacts ==
  ASSUME Unused # {}
  PROVE  /\ FreshPort \in Ports
         /\ \A p \in Providers : ports[p] # FreshPort /\ port[p] # FreshPort
         /\ \A kind, p : ~Comes(kind, p, FreshPort)
PROOF
<1>1. FreshPort \in Unused
  BY DEF FreshPort
<1>2. \A kind, p : ~Comes(kind, p, FreshPort)
  BY <1>1, MsgFacts DEF Unused, Comes
<1> QED BY <1>1, <1>2 DEF Unused
-----------------------------------------------------------------------------
(* What leaves one provider's ports alone, and what does not.                *)

Wired == {"connect", "hostHears", "providerHears"}

LEMMA PairSame ==
  ASSUME NEW p \in Providers, Pair(p), ports'[p] = ports[p], port'[p] = port[p],
         \A kind \in Wired, n \in Numbers : Comes(kind, p, n)' <=> Comes(kind, p, n),
         PortTypes
  PROVE  Pair(p)'
PROOF
<1>1. ports[p] \in Numbers /\ port[p] \in Numbers
  BY DEF PortTypes
<1>2. \A n \in Numbers : /\ Comes("connect", p, n)' <=> Comes("connect", p, n)
                         /\ Comes("hostHears", p, n)' <=> Comes("hostHears", p, n)
                         /\ Comes("providerHears", p, n)' <=> Comes("providerHears", p, n)
  BY DEF Wired
<1>3. /\ Comes("connect", p, ports[p])' <=> Comes("connect", p, ports[p])
      /\ Comes("hostHears", p, ports[p])' <=> Comes("hostHears", p, ports[p])
      /\ Comes("providerHears", p, port[p])' <=> Comes("providerHears", p, port[p])
  BY <1>1, <1>2 DEF Comes
<1> QED BY <1>1, <1>2, <1>3 DEF Pair

(* One message more.                                                         *)
LEMMA Posted ==
  ASSUME NEW kind, NEW p, NEW n, NEW W, NEW V, V = W \cup {Msg(kind, p, n)}
  PROVE  \A k, q, x : Msg(k, q, x) \in V
                       <=> Msg(k, q, x) \in W \/ (k = kind /\ q = p /\ x = n)
PROOF
<1>1. \A k, q, x : Msg(k, q, x) = Msg(kind, p, n) <=> (k = kind /\ q = p /\ x = n)
  BY DEF Msg
<1> QED BY <1>1

(* One message less.                                                         *)
LEMMA Taken ==
  ASSUME NEW m \in Messages, NEW W, NEW V, V = W \ {m}
  PROVE  \A k, q, x : Msg(k, q, x) \in V
                       <=> Msg(k, q, x) \in W /\ ~(k = m.kind /\ q = m.p /\ x = m.n)
PROOF
<1>1. \A k, q, x : Msg(k, q, x) = m <=> (k = m.kind /\ q = m.p /\ x = m.n)
  BY DEF Msg, Messages
<1> QED BY <1>1

LEMMA OpenPairs ==
  ASSUME PortTypes, PairsInv, NEW p \in Providers, ports[p] = NoPort, Unused # {},
         ports' = [ports EXCEPT ![p] = FreshPort], port' = port,
         NEW kind \in {"connect", "hostHears"}, wire' = wire \cup {Msg(kind, p, FreshPort)}
  PROVE  PairsInv'
PROOF
<1>0. PICK n \in Ports : n = FreshPort
  BY FreshFacts
<1>1. \A k, q, x : Comes(k, q, x)' <=> Comes(k, q, x) \/ (k = kind /\ q = p /\ x = n)
  BY <1>0, Posted DEF Comes
<1>2. n \in Ports /\ n \in Numbers /\ n # NoPort /\ port[p] # n /\ \A k : ~Comes(k, p, n)
  BY <1>0, FreshFacts, NumberFacts
<1>3. ASSUME NEW q \in Providers, q # p PROVE Pair(q)'
  <2>1. ports'[q] = ports[q] /\ port'[q] = port[q] /\ Pair(q)
    BY <1>3 DEF PortTypes, PairsInv
  <2>2. \A k \in Wired, x \in Numbers : Comes(k, q, x)' <=> Comes(k, q, x)
    <3> SUFFICES ASSUME NEW k \in Wired, NEW x \in Numbers
                 PROVE  Comes(k, q, x)' <=> Comes(k, q, x)
      OBVIOUS
    <3> QED BY <1>1, <1>3
  <2> QED BY <2>1, <2>2, PairSame
<1>4. Pair(p)'
  <2>1. ports'[p] = n /\ port'[p] = port[p] /\ Pair(p) /\ port[p] \in Numbers
    BY <1>0 DEF PortTypes, PairsInv
  <2>2. port[p] # NoPort => Comes("providerHears", p, port[p])
    BY <2>1 DEF Pair
  <2>3. \A x \in Numbers : ~Comes("connect", p, x)
    BY <2>1 DEF Pair
  <2>4. Comes(kind, p, n)'
    BY <1>1
  <2>5. port[p] # NoPort => Comes("providerHears", p, port[p])'
    BY <1>1, <2>2
  <2>6. ASSUME NEW x \in Numbers
        PROVE  /\ Comes("connect", p, x)' => x = n /\ kind = "connect"
               /\ Comes("hostHears", p, x)' =>
                    Comes("hostHears", p, x) \/ (x = n /\ kind = "hostHears")
               /\ Comes("providerHears", p, x)' => Comes("providerHears", p, x) /\ x # n
    BY <1>1, <1>2, <2>3
  <2>7. /\ \A x \in Numbers : Comes("hostHears", p, x) => port[p] # x /\ x # NoPort /\ x # n
        /\ \A x \in Numbers : Comes("providerHears", p, x) => x # NoPort
    BY <1>2, <2>1 DEF Pair
  <2> QED BY <1>2, <2>1, <2>4, <2>5, <2>6, <2>7 DEF Pair, Comes
<1> QED BY <1>3, <1>4 DEF PairsInv

LEMMA OpenKeeps ==
  ASSUME Inv, NEW p \in Providers, openPortToProvider(p), port' = port,
         timers' \in [Providers -> Nat], \A q \in Providers : q # p => timers'[q] = timers[q]
  PROVE  /\ PortTypes' /\ WireTypes' /\ ArmedInv' /\ PairsInv'
         /\ ports'[p] # NoPort /\ p \in knows' /\ knows' = knows \cup {p}
         /\ \A q \in Providers : q # p => ports'[q] = ports[q]
         /\ \A m \in wire' : m \in wire \/ m.kind \in {"connect", "hostHears"}
PROOF
<1>0. PortTypes /\ WireTypes /\ ArmedInv /\ PairsInv
  BY DEF Inv
<1>1. CASE ports[p] # NoPort
  <2>1. UNCHANGED <<ports, knows, reachable, wire>>
    BY <1>1 DEF openPortToProvider
  <2>2. p \in knows /\ p \notin reachable
    BY <1>0, <1>1 DEF ArmedInv
  <2>3. knows \cup {p} = knows
    BY <2>2
  <2>4. PortTypes' /\ WireTypes' /\ ArmedInv'
    BY <1>0, <2>1, <2>2 DEF PortTypes, WireTypes, ArmedInv
  <2>5. PairsInv'
    BY <1>0, <2>1 DEF PairsInv, Pair, Comes
  <2> QED BY <1>1, <2>1, <2>2, <2>3, <2>4, <2>5
<1>2. CASE ports[p] = NoPort
  <2>0. PICK kind \in {"connect", "hostHears"} :
          kind = IF ext[p] = "on" THEN "connect" ELSE "hostHears"
    OBVIOUS
  <2>1. /\ Unused # {}
        /\ ports' = [ports EXCEPT ![p] = FreshPort]
        /\ knows' = knows \cup {p} /\ reachable' = reachable \ {p}
        /\ wire' = wire \cup {Msg(kind, p, FreshPort)}
    BY <1>2, <2>0 DEF openPortToProvider, Send
  <2>2. PairsInv'
    BY <1>0, <1>2, <2>1, OpenPairs
  <2>3. FreshPort \in Numbers /\ FreshPort # NoPort
    BY <2>1, FreshFacts, NumberFacts
  <2>4. PortTypes' /\ ArmedInv'
    BY <1>0, <2>1, <2>3 DEF PortTypes, ArmedInv
  <2>5. Msg(kind, p, FreshPort) \in Messages /\ Msg(kind, p, FreshPort).kind = kind
    BY <2>3, MsgFacts DEF Kinds
  <2>6. WireTypes'
    BY <1>0, <2>1, <2>5 DEF WireTypes
  <2> QED BY <1>0, <2>1, <2>2, <2>3, <2>4, <2>5, <2>6 DEF PortTypes
<1> QED BY <1>1, <1>2

LEMMA CloseKeeps ==
  ASSUME Inv, NEW p \in Providers, closePortToProvider(p), port' = port
  PROVE  /\ PortTypes' /\ WireTypes' /\ ArmedInv' /\ PairsInv'
         /\ ports'[p] = NoPort /\ p \notin knows' /\ knows' = knows \ {p}
         /\ \A q \in Providers : q # p => ports'[q] = ports[q] /\ timers'[q] = timers[q]
         /\ \A m \in wire' : m \in wire \/ m.kind = "providerHears"
PROOF
<1>0. PortTypes /\ WireTypes /\ ArmedInv /\ PairsInv
  BY DEF Inv
<1>1. /\ ports' = [ports EXCEPT ![p] = NoPort] /\ knows' = knows \ {p}
      /\ reachable' = reachable \ {p}
      /\ timers' = [timers EXCEPT ![p] = IF p \in reachable THEN @ - 1 ELSE @]
  BY DEF closePortToProvider
<1>2. PICK a \in Numbers : a = ports[p]
  BY <1>0 DEF PortTypes
<1>3. /\ wire' = (wire \ {Msg("connect", p, a)}) \cup
                    IF a # NoPort /\ port[p] = a THEN {Msg("providerHears", p, a)} ELSE {}
  BY <1>2 DEF closePortToProvider, ProviderHears
<1>4. PortTypes' /\ ArmedInv'
  BY <1>0, <1>1, NumberFacts DEF PortTypes, ArmedInv
<1>5. WireTypes'
  BY <1>0, <1>3, MsgFacts DEF WireTypes, Kinds
<1>6. \A k, q, x : Comes(k, q, x)' <=>
        \/ Comes(k, q, x) /\ ~(k = "connect" /\ q = p /\ x = a)
        \/ a # NoPort /\ port[p] = a /\ k = "providerHears" /\ q = p /\ x = a
  BY <1>3 DEF Comes, Msg
<1>7. ASSUME NEW q \in Providers, q # p PROVE Pair(q)'
  <2>1. ports'[q] = ports[q] /\ port'[q] = port[q] /\ Pair(q)
    BY <1>0, <1>1, <1>7 DEF PortTypes, PairsInv
  <2>2. \A k \in Wired, x \in Numbers : Comes(k, q, x)' <=> Comes(k, q, x)
    BY <1>6, <1>7
  <2> QED BY <1>0, <2>1, <2>2, PairSame
<1>8. Pair(p)'
  <2>1. ports'[p] = NoPort /\ port'[p] = port[p] /\ Pair(p) /\ port[p] \in Numbers
    BY <1>0, <1>1 DEF PortTypes, PairsInv
  <2>2. port[p] # NoPort => Comes("providerHears", p, port[p])'
    BY <1>2, <1>6, <2>1 DEF Pair
  <2>3. ASSUME NEW x \in Numbers
        PROVE  /\ ~Comes("connect", p, x)'
               /\ Comes("hostHears", p, x)' => Comes("hostHears", p, x)
               /\ Comes("providerHears", p, x)' => x # NoPort
    <3>1. /\ Comes("connect", p, x) => x = a
          /\ Comes("hostHears", p, x)' => Comes("hostHears", p, x)
      BY <1>2, <1>6, <2>1 DEF Pair
    <3>2. ~Comes("connect", p, x)'
      BY <1>6, <3>1
    <3>3. Comes("providerHears", p, x)' => x # NoPort
      BY <1>6, <2>1 DEF Pair
    <3> QED BY <3>1, <3>2, <3>3
  <2>4. \A x \in Numbers : Comes("hostHears", p, x) => port[p] # x /\ x # NoPort
    BY <2>1 DEF Pair
  <2> QED BY <2>1, <2>2, <2>3, <2>4 DEF Pair, Comes
<1>9. PairsInv'
  BY <1>7, <1>8 DEF PairsInv
<1>10. \A m \in wire' : m \in wire \/ m.kind = "providerHears"
  BY <1>3, MsgFacts
<1> QED BY <1>0, <1>1, <1>4, <1>5, <1>9, <1>10 DEF PortTypes

(* A step that moves other messages only.                                    *)
LEMMA WiresStill ==
  ASSUME Inv, UNCHANGED <<ports, port, knows, reachable, timers>>,
         \A m \in Messages : m.kind \in Wired => (m \in wire' <=> m \in wire)
  PROVE  PortTypes' /\ ArmedInv' /\ PairsInv'
PROOF
<1>0. PortTypes /\ ArmedInv /\ PairsInv
  BY DEF Inv
<1>1. PortTypes' /\ ArmedInv'
  BY <1>0 DEF PortTypes, ArmedInv
<1>2. ASSUME NEW q \in Providers PROVE Pair(q)'
  <2>1. \A k \in Wired, x \in Numbers : Comes(k, q, x)' <=> Comes(k, q, x)
    <3> SUFFICES ASSUME NEW k \in Wired, NEW x \in Numbers
                 PROVE  Comes(k, q, x)' <=> Comes(k, q, x)
      OBVIOUS
    <3>1. Msg(k, q, x) \in Messages /\ Msg(k, q, x).kind = k
      BY MsgFacts DEF Wired, Kinds
    <3> QED BY <3>1 DEF Comes
  <2> QED BY <1>0, <2>1, PairSame DEF PairsInv
<1> QED BY <1>0, <1>1, <1>2 DEF PairsInv

LEMMA Appended ==
  ASSUME QueueTypes, NEW w \in Writes
  PROVE  Append(writes, w) \in Seq(Writes)
PROOF
  BY DEF QueueTypes

-----------------------------------------------------------------------------
(* The actions.                                                              *)

LEMMA handleDisconnectKeeps ==
  ASSUME Inv, NEW m \in wire, handleDisconnect(m)
  PROVE  Inv'
PROOF
<1>0. /\ PortTypes /\ WireTypes /\ QueueTypes /\ ArmedInv /\ PairsInv
      /\ m \in Messages /\ m.p \in Providers /\ m.n \in Numbers
  BY MsgFacts DEF Inv, WireTypes
<1>1. /\ m.kind = "hostHears" /\ wire' = wire \ {m} /\ port' = port /\ knows' = knows
      /\ UNCHANGED <<rows, handlers, refused>> /\ UNCHANGED lockVars /\ UNCHANGED sideVars
  BY DEF handleDisconnect
<1>2. Comes("hostHears", m.p, m.n)
  BY <1>0, <1>1, MsgFacts DEF Comes
<1>3. /\ m.n # NoPort /\ port[m.p] # m.n
  BY <1>0, <1>2 DEF PairsInv, Pair
<1>4. \A k, q, x : Comes(k, q, x)' <=> Comes(k, q, x) /\ ~(k = m.kind /\ q = m.p /\ x = m.n)
  BY <1>0, <1>1, Taken DEF Comes
<1>5. WireTypes' /\ RestTypes' /\ LockTypes'
  BY <1>0, <1>1 DEF Inv, WireTypes, RestTypes, LockTypes, lockVars, sideVars
<1>6. ASSUME NEW q \in Providers, q # m.p, ports'[q] = ports[q] PROVE Pair(q)'
  <2>1. port'[q] = port[q] /\ Pair(q)
    BY <1>0, <1>1 DEF PairsInv
  <2>2. \A k \in Wired, x \in Numbers : Comes(k, q, x)' <=> Comes(k, q, x)
    BY <1>4, <1>6
  <2> QED BY <1>0, <1>6, <2>1, <2>2, PairSame
<1>7. CASE ports[m.p] # m.n
  <2>1. UNCHANGED <<ports, timers, reachable, writes>>
    BY <1>7 DEF handleDisconnect
  <2>2. PortTypes' /\ QueueTypes' /\ ArmedInv'
    BY <1>0, <1>1, <2>1 DEF PortTypes, QueueTypes, ArmedInv
  <2>3. Pair(m.p)'
    <3>1. ports[m.p] \in Numbers /\ port[m.p] \in Numbers /\ Pair(m.p)
      BY <1>0 DEF PortTypes, PairsInv
    <3>2. \A x \in Numbers :
            /\ Comes("connect", m.p, x)' <=> Comes("connect", m.p, x)
            /\ Comes("providerHears", m.p, x)' <=> Comes("providerHears", m.p, x)
            /\ Comes("hostHears", m.p, x)' <=> Comes("hostHears", m.p, x) /\ x # m.n
      BY <1>1, <1>4
    <3>3. /\ Comes("connect", m.p, ports[m.p])' <=> Comes("connect", m.p, ports[m.p])
          /\ Comes("hostHears", m.p, ports[m.p])' <=> Comes("hostHears", m.p, ports[m.p])
          /\ Comes("providerHears", m.p, port[m.p])' <=> Comes("providerHears", m.p, port[m.p])
      BY <1>1, <1>7, <2>1, <3>1, <3>2 DEF Comes
    <3> QED BY <1>1, <2>1, <3>1, <3>2, <3>3 DEF Pair
  <2>4. PairsInv'
    BY <1>6, <2>1, <2>3 DEF PairsInv
  <2> QED BY <1>5, <2>2, <2>4 DEF Inv
<1>8. CASE ports[m.p] = m.n
  <2>1. /\ ports' = [ports EXCEPT ![m.p] = NoPort] /\ timers' = [timers EXCEPT ![m.p] = @ + 1]
        /\ reachable' = reachable \cup {m.p}
        /\ writes' = Append(writes, [op |-> "stale", p |-> m.p])
    BY <1>8 DEF handleDisconnect, scheduleBackoffProbe
  <2>2. m.p \in knows
    BY <1>0, <1>3, <1>8 DEF ArmedInv
  <2>3. PortTypes'
    BY <1>0, <1>1, <2>1, NumberFacts DEF PortTypes
  <2>4. ArmedInv'
    BY <1>0, <1>1, <2>1, <2>2 DEF PortTypes, ArmedInv
  <2>5. [op |-> "stale", p |-> m.p] \in Writes
    BY <1>0 DEF Writes
  <2>6. QueueTypes'
    BY <1>0, <1>1, <2>1, <2>5, Appended DEF QueueTypes
  <2>7. Pair(m.p)'
    <3>1. ports'[m.p] = NoPort /\ port'[m.p] = port[m.p] /\ Pair(m.p) /\ port[m.p] \in Numbers
      BY <1>0, <1>1, <2>1 DEF PortTypes, PairsInv
    <3>2. \A x \in Numbers :
            /\ Comes("connect", m.p, x)' <=> Comes("connect", m.p, x)
            /\ Comes("providerHears", m.p, x)' <=> Comes("providerHears", m.p, x)
            /\ Comes("hostHears", m.p, x)' => Comes("hostHears", m.p, x)
      BY <1>1, <1>4
    <3>3. \A x \in Numbers : ~Comes("connect", m.p, x)
      BY <1>2, <1>8, <3>1 DEF Pair
    <3>4. port[m.p] # NoPort => Comes("providerHears", m.p, port[m.p])'
      BY <1>3, <1>8, <3>1, <3>2 DEF Pair
    <3> QED BY <3>1, <3>2, <3>3, <3>4 DEF Pair, Comes
  <2>8. PairsInv'
    BY <1>0, <1>6, <2>1, <2>7 DEF PairsInv, PortTypes
  <2> QED BY <1>5, <2>3, <2>4, <2>6, <2>8 DEF Inv
<1> QED BY <1>7, <1>8

LEMMA ProbeKeeps ==
  ASSUME Inv, NEW p \in Providers, Probe(p)
  PROVE  Inv'
PROOF
<1>0. PortTypes /\ WireTypes /\ QueueTypes /\ ArmedInv /\ PairsInv
  BY DEF Inv
<1>1. /\ timers[p] > 0 /\ timers' = [timers EXCEPT ![p] = @ - 1] /\ port' = port
      /\ UNCHANGED <<rows, refused, handlers>> /\ UNCHANGED lockVars /\ UNCHANGED sideVars
  BY DEF Probe
<1>2. RestTypes' /\ LockTypes'
  BY <1>1 DEF Inv, RestTypes, LockTypes, lockVars, sideVars
<1>3. /\ timers' \in [Providers -> Nat]
      /\ \A q \in Providers : q # p => timers'[q] = timers[q]
  BY <1>0, <1>1 DEF PortTypes
<1>4. CASE p \in knows
  <2>1. openPortToProvider(p) /\ writes' = Append(writes, [op |-> "active", p |-> p])
    BY <1>4 DEF Probe
  <2>2. PortTypes' /\ WireTypes' /\ ArmedInv' /\ PairsInv'
    BY <1>1, <1>3, <2>1, OpenKeeps
  <2>3. [op |-> "active", p |-> p] \in Writes
    BY DEF Writes
  <2>4. QueueTypes'
    BY <1>0, <1>1, <2>1, <2>3, Appended DEF QueueTypes
  <2> QED BY <1>2, <2>2, <2>4 DEF Inv
<1>5. CASE p \notin knows
  <2>1. UNCHANGED <<ports, knows, reachable, wire, writes>>
    BY <1>5 DEF Probe
  <2>2. p \notin reachable
    BY <1>0, <1>5 DEF ArmedInv
  <2>3. PortTypes' /\ ArmedInv' /\ WireTypes' /\ QueueTypes'
    BY <1>0, <1>1, <1>3, <2>1, <2>2 DEF PortTypes, ArmedInv, WireTypes, QueueTypes
  <2>4. PairsInv'
    BY <1>0, <1>1, <2>1 DEF PairsInv, Pair, Comes
  <2> QED BY <1>2, <2>3, <2>4 DEF Inv
<1> QED BY <1>4, <1>5

LEMMA StartingKeeps ==
  ASSUME Inv, Starting
  PROVE  Inv'
PROOF
<1>1. /\ UNCHANGED <<ext, speaks, rows, refused, handlers, writes, port, flips>>
      /\ UNCHANGED routerVars /\ UNCHANGED lockVars
      /\ host' \in {"announcing", "ready"}
  BY DEF Starting, init, broadcastHostReady
<1>2. \A m \in wire' : m \in wire \/ m \in {Msg("hostReady", p, NoPort) : p \in Providers}
  BY DEF Starting, init, broadcastHostReady, Send
<1>3. wire \subseteq wire'
  BY DEF Starting, init, broadcastHostReady, Send
<1>4. \A m \in {Msg("hostReady", p, NoPort) : p \in Providers} :
        m \in Messages /\ m.kind \notin Wired
  BY MsgFacts, NumberFacts DEF Kinds, Wired
<1>5. WireTypes'
  BY <1>2, <1>4 DEF Inv, WireTypes
<1>6. PortTypes' /\ ArmedInv' /\ PairsInv'
  BY <1>1, <1>2, <1>3, <1>4, WiresStill DEF routerVars
<1> QED BY <1>1, <1>5, <1>6 DEF Inv, QueueTypes, RestTypes, LockTypes, lockVars

(* Of what was on its way, something not of a port is gone or added.         *)
LEMMA OtherWires ==
  ASSUME Inv, UNCHANGED <<ports, port, knows, reachable, timers>>,
         NEW m \in Messages, m.kind \notin Wired,
         NEW e \in Messages, e.kind \notin Wired,
         wire' \in {wire \ {m}, wire \cup {e}, (wire \ {m}) \cup {e}}
  PROVE  PortTypes' /\ ArmedInv' /\ PairsInv' /\ WireTypes'
PROOF
<1>1. WireTypes'
  BY DEF Inv, WireTypes
<1>2. \A x \in Messages : x.kind \in Wired => (x \in wire' <=> x \in wire)
  OBVIOUS
<1> QED BY <1>1, <1>2, WiresStill

LEMMA AnnounceFacts ==
  ASSUME Inv, NEW p \in Providers
  PROVE  Announce(p) \in Messages /\ Announce(p).kind = "announce" /\ Announce(p).p = p
PROOF
<1>0. 1 \in Numbers
  BY HandshakeAssumption DEF Numbers, Ports
<1>1. CASE speaks[p] = "ours"
  BY <1>1, MsgFacts, NumberFacts DEF Announce, Kinds
<1>2. CASE speaks[p] # "ours"
  BY <1>0, <1>2, MsgFacts, NumberFacts DEF Announce, Kinds
<1> QED BY <1>1, <1>2

LEMMA handleAnnounceKeeps ==
  ASSUME Inv, NEW m \in wire, handleAnnounce(m)
  PROVE  Inv'
PROOF
<1>0. m \in Messages /\ m.p \in Providers
  BY MsgFacts DEF Inv, WireTypes
<1>1. /\ m.kind = "announce" /\ wire' = wire \ {m}
      /\ UNCHANGED <<rows, handlers, port>>
      /\ UNCHANGED routerVars /\ UNCHANGED lockVars /\ UNCHANGED sideVars
  BY DEF handleAnnounce
<1>2. PortTypes' /\ ArmedInv' /\ PairsInv' /\ WireTypes'
  BY <1>0, <1>1, OtherWires DEF routerVars, Wired
<1>3. [op |-> "upsert", p |-> m.p] \in Writes
  BY <1>0 DEF Writes
<1>4. writes' \in Seq(Writes) /\ refused' \subseteq Providers
  BY <1>0, <1>3, Appended DEF handleAnnounce, Inv, QueueTypes, RestTypes
<1> QED BY <1>1, <1>2, <1>4
        DEF Inv, QueueTypes, RestTypes, LockTypes, lockVars, sideVars

LEMMA handleDisabledKeeps ==
  ASSUME Inv, NEW m \in wire, handleDisabled(m)
  PROVE  Inv'
PROOF
<1>0. m \in Messages /\ m.p \in Providers
  BY MsgFacts DEF Inv, WireTypes
<1>1. /\ m.kind = "disabled" /\ wire' = wire \ {m}
      /\ UNCHANGED <<rows, refused, writes, port>>
      /\ UNCHANGED routerVars /\ UNCHANGED lockVars /\ UNCHANGED sideVars
  BY DEF handleDisabled
<1>2. PortTypes' /\ ArmedInv' /\ PairsInv' /\ WireTypes'
  BY <1>0, <1>1, OtherWires DEF routerVars, Wired
<1>3. handlers' \subseteq Handlers
  BY <1>0 DEF handleDisabled, Inv, QueueTypes, Handlers
<1> QED BY <1>1, <1>2, <1>3
        DEF Inv, QueueTypes, RestTypes, LockTypes, lockVars, sideVars

LEMMA Moved ==
  ASSUME NEW h \in Handlers, NEW at \in {"lookup", "remove", "unlock"}
  PROVE  [h EXCEPT !.at = at] \in Handlers /\ [h EXCEPT !.at = at].p = h.p
         /\ [h EXCEPT !.at = at].at = at
PROOF
  BY DEF Handlers

LEMMA lookupKeeps ==
  ASSUME Inv, NEW h \in handlers, providerIdFromExtensionId(h)
  PROVE  Inv'
PROOF
<1>0. h \in Handlers /\ h.p \in Providers
  BY DEF Inv, QueueTypes, Handlers
<1>1. UNCHANGED <<rows, refused, port>> /\ UNCHANGED lockVars /\ UNCHANGED sideVars
  BY DEF providerIdFromExtensionId
<1>2. RestTypes' /\ LockTypes'
  BY <1>1 DEF Inv, RestTypes, LockTypes, lockVars, sideVars
<1>3. CASE rows[h.p] = "absent"
  <2>1. handlers' = handlers \ {h} /\ UNCHANGED <<writes, wire>> /\ UNCHANGED routerVars
    BY <1>3 DEF providerIdFromExtensionId
  <2>2. PortTypes' /\ ArmedInv' /\ PairsInv'
    BY <1>1, <2>1, WiresStill DEF routerVars
  <2> QED BY <1>1, <1>2, <2>1, <2>2 DEF Inv, QueueTypes, WireTypes
<1>4. CASE rows[h.p] # "absent"
  <2>1. /\ closePortToProvider(h.p)
        /\ writes' = Append(writes, [op |-> "remove", p |-> h.p])
        /\ handlers' = (handlers \ {h}) \cup {[h EXCEPT !.at = "remove"]}
    BY <1>4 DEF providerIdFromExtensionId
  <2>2. PortTypes' /\ WireTypes' /\ ArmedInv' /\ PairsInv'
    BY <1>0, <1>1, <2>1, CloseKeeps
  <2>3. [op |-> "remove", p |-> h.p] \in Writes
    BY <1>0 DEF Writes
  <2>4. QueueTypes'
    BY <1>0, <1>1, <2>1, <2>3, Appended, Moved DEF Inv, QueueTypes
  <2> QED BY <1>2, <2>2, <2>4 DEF Inv
<1> QED BY <1>3, <1>4

LEMMA handleUnannounceKeeps ==
  ASSUME Inv, NEW h \in handlers, handleUnannounce(h)
  PROVE  Inv'
PROOF
<1>1. /\ handlers' = handlers \ {h}
      /\ upgrading' \subseteq upgrading /\ settingUp' \subseteq settingUp
      /\ UNCHANGED <<rows, refused, writes, port, wire, pending, work>>
      /\ UNCHANGED routerVars /\ UNCHANGED sideVars
  BY DEF handleUnannounce
<1>2. PortTypes' /\ ArmedInv' /\ PairsInv'
  BY <1>1, WiresStill DEF routerVars
<1> QED BY <1>1, <1>2 DEF Inv, QueueTypes, RestTypes, LockTypes, WireTypes, sideVars

LEMMA WriteKeeps ==
  ASSUME Inv, Write
  PROVE  Inv'
PROOF
<1> DEFINE w == Head(writes)
<1>0. w \in Writes /\ w.p \in Providers /\ Tail(writes) \in Seq(Writes)
  <2>1. writes \in Seq(Writes) /\ writes # <<>>
    BY DEF Write, Inv, QueueTypes
  <2>2. Head(writes) \in Writes /\ Tail(writes) \in Seq(Writes)
    BY <2>1
  <2>3. Head(writes).p \in Providers
    BY <2>2 DEF Writes
  <2> QED BY <2>2, <2>3
<1>1. /\ writes' = Tail(writes) /\ timers' = timers /\ port' = port
      /\ UNCHANGED <<refused, timers, port>> /\ UNCHANGED lockVars /\ UNCHANGED sideVars
  BY DEF Write
<1>2. rows' = [rows EXCEPT ![w.p] =
                 CASE w.op = "upsert" -> "active"
                   [] w.op = "remove" -> "absent"
                   [] w.op \in {"stale", "active"} -> IF @ = "absent" THEN @ ELSE w.op]
  BY DEF Write
<1>3. handlers' \subseteq Handlers
  <2>1. handlers \subseteq Handlers
    BY DEF Inv, QueueTypes
  <2>2. \A h \in handlers : [h EXCEPT !.at = "unlock"] \in Handlers
    BY <2>1, Moved
  <2> QED BY <2>1, <2>2 DEF Write
<1>4. IF w.op = "upsert" THEN openPortToProvider(w.p)
      ELSE UNCHANGED <<ports, knows, reachable, wire>>
  BY DEF Write
<1> HIDE DEF w
<1>5. QueueTypes'
  <2>1. w.op \in {"upsert", "remove", "stale", "active"}
    BY <1>0 DEF Writes
  <2>2. rows' \in [Providers -> {"absent", "active", "stale"}]
    BY <1>0, <1>2, <2>1 DEF Inv, QueueTypes
  <2> QED BY <1>0, <1>1, <1>3, <2>2 DEF QueueTypes
<1>6. PortTypes' /\ ArmedInv' /\ PairsInv' /\ WireTypes'
  <2>1. CASE w.op = "upsert"
    <3>1. /\ timers' \in [Providers -> Nat]
          /\ \A q \in Providers : q # w.p => timers'[q] = timers[q]
      BY <1>1 DEF Inv, PortTypes
    <3> QED BY <1>0, <1>1, <1>4, <2>1, <3>1, OpenKeeps
  <2>2. CASE w.op # "upsert"
    <3>1. UNCHANGED <<ports, knows, reachable, wire>>
      BY <1>4, <2>2
    <3> QED BY <1>1, <3>1, WiresStill DEF Inv, WireTypes
  <2> QED BY <2>1, <2>2
<1> QED BY <1>1, <1>5, <1>6 DEF Inv, RestTypes, LockTypes, lockVars, sideVars

LEMMA ProviderInitKeeps ==
  ASSUME Inv, NEW p \in Providers, ProviderInit(p)
  PROVE  Inv'
PROOF
<1>1. /\ ext' = [ext EXCEPT ![p] = "on"] /\ wire' = wire \cup {Announce(p)}
      /\ UNCHANGED <<host, speaks, rows, refused, handlers, writes, port, flips>>
      /\ UNCHANGED routerVars /\ UNCHANGED lockVars
  BY DEF ProviderInit, Send
<1>2. PortTypes' /\ ArmedInv' /\ PairsInv' /\ WireTypes'
  BY <1>1, AnnounceFacts, OtherWires DEF routerVars, Wired
<1> QED BY <1>1, <1>2 DEF Inv, QueueTypes, RestTypes, LockTypes, lockVars

LEMMA attachHostReadyKeeps ==
  ASSUME Inv, NEW m \in wire, attachHostReadyListener(m)
  PROVE  Inv'
PROOF
<1>0. m \in Messages /\ m.p \in Providers
  BY MsgFacts DEF Inv, WireTypes
<1>1. /\ m.kind = "hostReady"
      /\ wire' \in {wire \ {m}, (wire \ {m}) \cup {Announce(m.p)}}
      /\ UNCHANGED <<rows, refused, handlers, writes, port>>
      /\ UNCHANGED routerVars /\ UNCHANGED lockVars /\ UNCHANGED sideVars
  BY DEF attachHostReadyListener, AnswerHostReady
<1>2. PortTypes' /\ ArmedInv' /\ PairsInv' /\ WireTypes'
  BY <1>0, <1>1, AnnounceFacts, OtherWires DEF routerVars, Wired
<1> QED BY <1>1, <1>2 DEF Inv, QueueTypes, RestTypes, LockTypes, lockVars, sideVars

LEMMA attachPortKeeps ==
  ASSUME Inv, NEW m \in wire, attachPort(m)
  PROVE  Inv'
PROOF
<1> DEFINE p == m.p
           n == m.n
<1>a. m \in Messages /\ p \in Providers /\ port[p] \in Numbers
  BY MsgFacts DEF Inv, WireTypes, PortTypes
<1>b. PICK old \in Numbers : old = port[p]
  BY <1>a
<1>0. /\ m \in Messages /\ p \in Providers /\ n \in Numbers
      /\ Pair(p) /\ Comes("connect", p, n) /\ m.kind = "connect"
  BY MsgFacts DEF attachPort, Inv, WireTypes, PortTypes, PairsInv, Comes
<1>1. /\ ports[p] = n /\ old # n /\ n # NoPort /\ ~Comes("hostHears", p, n)
      /\ \A x \in Numbers : Comes("connect", p, x) => x = n
  BY <1>0, <1>b DEF Pair
<1>2. /\ UNCHANGED <<rows, refused, handlers, writes>>
      /\ UNCHANGED routerVars /\ UNCHANGED lockVars /\ UNCHANGED sideVars
  BY DEF attachPort
<1>3. QueueTypes' /\ RestTypes' /\ LockTypes'
  BY <1>2 DEF Inv, QueueTypes, RestTypes, LockTypes, lockVars, sideVars
<1>4. PICK heard \in Numbers : heard = IF ext[p] # "on" THEN n ELSE old
  BY <1>0
<1>5. wire' = (wire \ {m}) \cup IF heard # NoPort THEN {Msg("hostHears", p, heard)} ELSE {}
  BY <1>1, <1>4, <1>b DEF attachPort
<1>6. WireTypes'
  BY <1>0, <1>5, MsgFacts DEF Inv, WireTypes, Kinds
<1>7. \A k, q, x : Comes(k, q, x)' <=>
        \/ Comes(k, q, x) /\ ~(k = "connect" /\ q = p /\ x = n)
        \/ heard # NoPort /\ k = "hostHears" /\ q = p /\ x = heard
  <2>1. m = Msg("connect", p, n)
    BY <1>0, MsgFacts
  <2> QED BY <1>5, <2>1 DEF Comes, Msg
<1>8. port' = IF ext[p] = "on" THEN [port EXCEPT ![p] = n] ELSE port
  BY DEF attachPort
<1>9. PortTypes' /\ ArmedInv'
  BY <1>0, <1>2, <1>8 DEF Inv, PortTypes, ArmedInv, routerVars
<1>10. ports' = ports /\ PortTypes
  BY <1>2 DEF routerVars, Inv
<1> HIDE DEF p, n
<1>11. ASSUME NEW q \in Providers, q # p PROVE Pair(q)'
  <2>1. ports'[q] = ports[q] /\ port'[q] = port[q] /\ Pair(q)
    BY <1>8, <1>10, <1>11 DEF Inv, PairsInv, PortTypes
  <2>2. \A k \in Wired, x \in Numbers : Comes(k, q, x)' <=> Comes(k, q, x)
    BY <1>7, <1>11
  <2> QED BY <1>10, <2>1, <2>2, PairSame
<1>12. \A x \in Numbers :
         /\ ~Comes("connect", p, x)'
         /\ Comes("providerHears", p, x)' <=> Comes("providerHears", p, x)
         /\ Comes("hostHears", p, x)' <=>
              Comes("hostHears", p, x) \/ (heard # NoPort /\ x = heard)
  BY <1>1, <1>7
<1>13. \A x \in Numbers :
         /\ Comes("hostHears", p, x) => old # x /\ x # NoPort
         /\ Comes("providerHears", p, x) => n # x /\ x # NoPort
  BY <1>0, <1>1, <1>b DEF Pair
<1>14. Pair(p)'
  <2>1. CASE ext[p] = "on"
    <3>1. port'[p] = n /\ ports'[p] = n /\ heard = old
      BY <1>0, <1>1, <1>4, <1>8, <1>10, <2>1 DEF PortTypes
    <3> QED BY <1>1, <1>12, <1>13, <3>1 DEF Pair
  <2>2. CASE ext[p] # "on"
    <3>1. port'[p] = old /\ ports'[p] = n /\ heard = n
      BY <1>1, <1>4, <1>8, <1>10, <1>b, <2>2
    <3>2. old # NoPort => Comes("providerHears", p, old)
      BY <1>0, <1>1, <1>b DEF Pair
    <3>3. Comes("hostHears", p, n)' /\ (old # NoPort => Comes("providerHears", p, old)')
      BY <1>0, <1>1, <1>12, <3>1, <3>2
    <3>4. /\ Comes("hostHears", p, ports[p])'
          /\ old # NoPort => Comes("providerHears", p, port[p])'
      BY <3>1, <3>3 DEF Comes
    <3> QED BY <1>1, <1>12, <1>13, <3>1, <3>4 DEF Pair
  <2> QED BY <2>1, <2>2
<1>15. PairsInv'
  BY <1>11, <1>14 DEF PairsInv
<1> QED BY <1>3, <1>6, <1>9, <1>15 DEF Inv

LEMMA providerDisconnectedKeeps ==
  ASSUME Inv, NEW m \in wire, providerDisconnected(m)
  PROVE  Inv'
PROOF
<1> DEFINE p == m.p
           n == m.n
<1>0. /\ m \in Messages /\ p \in Providers /\ n \in Numbers /\ m = Msg("providerHears", p, n)
      /\ Pair(p) /\ Comes("providerHears", p, n) /\ PortTypes
  BY MsgFacts DEF providerDisconnected, Inv, WireTypes, PairsInv, Comes
<1>1. /\ ports[p] # n /\ ports[p] \in Numbers /\ port[p] \in Numbers
  BY <1>0 DEF Pair, PortTypes
<1>2. /\ UNCHANGED <<rows, refused, handlers, writes>>
      /\ UNCHANGED routerVars /\ UNCHANGED lockVars /\ UNCHANGED sideVars
      /\ wire' = wire \ {m}
      /\ port' = IF port[p] = n THEN [port EXCEPT ![p] = NoPort] ELSE port
  BY DEF providerDisconnected
<1>3. QueueTypes' /\ RestTypes' /\ LockTypes' /\ WireTypes'
  BY <1>2 DEF Inv, QueueTypes, RestTypes, LockTypes, WireTypes, lockVars, sideVars
<1>4. PortTypes' /\ ArmedInv' /\ ports' = ports
  BY <1>0, <1>2, NumberFacts DEF Inv, PortTypes, ArmedInv, routerVars
<1>5. \A k, q, x : Comes(k, q, x)' <=>
                     Comes(k, q, x) /\ ~(k = "providerHears" /\ q = p /\ x = n)
  BY <1>0, <1>2 DEF Comes, Msg
<1> HIDE DEF p, n
<1>6. ASSUME NEW q \in Providers, q # p PROVE Pair(q)'
  <2>1. ports'[q] = ports[q] /\ port'[q] = port[q] /\ Pair(q)
    BY <1>2, <1>4, <1>6 DEF Inv, PairsInv, PortTypes
  <2>2. \A k \in Wired, x \in Numbers : Comes(k, q, x)' <=> Comes(k, q, x)
    BY <1>5, <1>6
  <2> QED BY <1>0, <2>1, <2>2, PairSame
<1>7. Pair(p)'
  <2>1. \A x \in Numbers :
          /\ Comes("connect", p, x)' <=> Comes("connect", p, x)
          /\ Comes("hostHears", p, x)' <=> Comes("hostHears", p, x)
          /\ Comes("providerHears", p, x)' <=> Comes("providerHears", p, x) /\ x # n
    BY <1>5
  <2>2. CASE port[p] = n
    <3>1. port'[p] = NoPort
      BY <1>0, <1>2, <2>2 DEF PortTypes
    <3>2. /\ Comes("connect", p, ports[p])' <=> Comes("connect", p, ports[p])
          /\ Comes("hostHears", p, ports[p])' <=> Comes("hostHears", p, ports[p])
      BY <1>1, <1>4, <2>1 DEF Comes
    <3> QED BY <1>0, <1>1, <1>4, <2>1, <2>2, <3>1, <3>2 DEF Pair
  <2>3. CASE port[p] # n
    <3>1. port'[p] = port[p]
      BY <1>2, <2>3
    <3>2. /\ Comes("connect", p, ports[p])' <=> Comes("connect", p, ports[p])
          /\ Comes("hostHears", p, ports[p])' <=> Comes("hostHears", p, ports[p])
          /\ Comes("providerHears", p, port[p])' <=> Comes("providerHears", p, port[p])
      BY <1>1, <1>4, <2>1, <2>3, <3>1 DEF Comes
    <3> QED BY <1>0, <1>4, <2>1, <3>1, <3>2 DEF Pair
  <2> QED BY <2>2, <2>3
<1>8. PairsInv'
  BY <1>6, <1>7 DEF PairsInv
<1> QED BY <1>3, <1>4, <1>8 DEF Inv

LEMMA LockingKeeps ==
  ASSUME Inv, Locking
  PROVE  Inv'
PROOF
<1>1. LockUnchanged
  BY DEF Locking, LockForUpgrade, LEGACY_MIGRATION_DONE, ReleaseUpgradeLock, SetupLock
<1>2. PortTypes' /\ ArmedInv' /\ PairsInv'
  BY <1>1, WiresStill DEF LockUnchanged, routerVars
<1>3. LockTypes'
  BY DEF Locking, LockForUpgrade, LEGACY_MIGRATION_DONE, ReleaseUpgradeLock, SetupLock,
         Inv, LockTypes
<1> QED BY <1>1, <1>2, <1>3
        DEF LockUnchanged, sideVars, Inv, QueueTypes, RestTypes, WireTypes

LEMMA Counted ==
  ASSUME Inv, flips < MaxFlips, flips' = flips + 1
  PROVE  flips' \in 0..MaxFlips
PROOF
  BY HandshakeAssumption DEF Inv, RestTypes

LEMMA HostStartsKeeps ==
  ASSUME Inv, HostStarts
  PROVE  Inv'
PROOF
<1>1. /\ UNCHANGED <<ext, speaks, rows, refused, handlers, writes, port, wire, settingUp,
                     pending, work>>
      /\ UNCHANGED routerVars /\ host' = "boot" /\ upgrading' = pending
      /\ flips' \in 0..MaxFlips
  BY Counted DEF HostStarts
<1>2. PortTypes' /\ ArmedInv' /\ PairsInv'
  BY <1>1, WiresStill DEF routerVars
<1> QED BY <1>1, <1>2 DEF Inv, QueueTypes, RestTypes, WireTypes, LockTypes

LEMMA HostStopsKeeps ==
  ASSUME Inv, HostStops
  PROVE  Inv'
PROOF
<1>0. PortTypes /\ WireTypes /\ PairsInv /\ RestTypes /\ LockTypes
  BY DEF Inv
<1> DEFINE heard == {p \in Providers : ports[p] # NoPort /\ port[p] = ports[p]}
<1>1. /\ rows' = [p \in Providers |-> "absent"]
      /\ refused' = {} /\ handlers' = {} /\ writes' = <<>>
      /\ ports' = [p \in Providers |-> NoPort]
      /\ knows' = {} /\ reachable' = {} /\ timers' = [p \in Providers |-> 0]
      /\ upgrading' = {} /\ settingUp' = {} /\ host' = "off"
      /\ UNCHANGED <<ext, speaks, port, pending, work>>
      /\ flips' \in 0..MaxFlips
  BY Counted DEF HostStops
<1>2. \A m : m \in wire' <=>
        \/ m \in wire /\ m.kind \notin {"hostHears", "connect", "disabled"}
        \/ \E p \in heard : m = Msg("providerHears", p, ports[p])
  <2>1. wire' = {m \in wire : m.kind \notin {"hostHears", "connect", "disabled"}}
                 \cup UNION {ProviderHears(p, ports[p]) : p \in {q \in Providers :
                                                                    ports[q] # NoPort}}
    BY DEF HostStops
  <2>2. \A p \in Providers : ProviderHears(p, ports[p]) =
          IF port[p] = ports[p] THEN {Msg("providerHears", p, ports[p])} ELSE {}
    BY DEF ProviderHears
  <2>3. \A m : m \in UNION {ProviderHears(p, ports[p]) : p \in {q \in Providers :
                                                                   ports[q] # NoPort}}
               <=> \E p \in heard : m = Msg("providerHears", p, ports[p])
    BY <2>2
  <2> HIDE DEF heard
  <2> QED BY <2>1, <2>3
<1>3. WireTypes'
  BY <1>0, <1>2, MsgFacts DEF WireTypes, PortTypes, Kinds
<1>4. ASSUME NEW q \in Providers, NEW x \in Numbers
      PROVE  /\ ~Comes("connect", q, x)' /\ ~Comes("hostHears", q, x)'
             /\ Comes("providerHears", q, x)' <=>
                  \/ Comes("providerHears", q, x)
                  \/ ports[q] # NoPort /\ port[q] = ports[q] /\ x = ports[q]
  <2>1. \A k : Comes(k, q, x)' <=>
          \/ Comes(k, q, x) /\ k \notin {"hostHears", "connect", "disabled"}
          \/ \E p \in heard : Msg(k, q, x) = Msg("providerHears", p, ports[p])
    BY <1>2, MsgFacts DEF Comes
  <2>2. \A k, p : Msg(k, q, x) = Msg("providerHears", p, ports[p]) <=>
                   k = "providerHears" /\ q = p /\ x = ports[p]
    BY DEF Msg
  <2>3. q \in heard <=> ports[q] # NoPort /\ port[q] = ports[q]
    OBVIOUS
  <2> HIDE DEF heard
  <2>4. \A k : Comes(k, q, x)' <=>
          \/ Comes(k, q, x) /\ k \notin {"hostHears", "connect", "disabled"}
          \/ k = "providerHears" /\ q \in heard /\ x = ports[q]
    <3>1. \A k : (\E p \in heard : Msg(k, q, x) = Msg("providerHears", p, ports[p]))
                 <=> k = "providerHears" /\ q \in heard /\ x = ports[q]
      BY <2>2
    <3> QED BY <2>1, <3>1, Zenon
  <2>5. ~Comes("connect", q, x)' /\ ~Comes("hostHears", q, x)'
    BY <2>4
  <2>6. Comes("providerHears", q, x)' <=>
          Comes("providerHears", q, x) \/ (q \in heard /\ x = ports[q])
    BY <2>4
  <2> QED BY <2>3, <2>5, <2>6
<1>5. PortTypes' /\ ArmedInv'
  BY <1>0, <1>1, NumberFacts DEF PortTypes, ArmedInv
<1>6. PairsInv'
  <2> SUFFICES ASSUME NEW q \in Providers PROVE Pair(q)'
    BY DEF PairsInv
  <2>1. ports'[q] = NoPort /\ port'[q] = port[q] /\ port[q] \in Numbers /\ Pair(q)
    BY <1>0, <1>1 DEF PortTypes, PairsInv
  <2>2. port[q] # NoPort => Comes("providerHears", q, port[q])'
    <3> SUFFICES ASSUME port[q] # NoPort PROVE Comes("providerHears", q, port[q])'
      OBVIOUS
    <3>1. PICK b \in Numbers : b = port[q]
      BY <2>1
    <3>2. Comes("providerHears", q, b)'
      BY <1>4, <2>1, <3>1 DEF Pair
    <3> QED BY <2>1, <3>1, <3>2 DEF Comes
  <2>3. \A x \in Numbers : Comes("providerHears", q, x)' => x # NoPort
    BY <1>4, <2>1 DEF Pair
  <2> QED BY <1>4, <2>1, <2>2, <2>3 DEF Pair
<1>7. QueueTypes' /\ RestTypes' /\ LockTypes'
  BY <1>0, <1>1 DEF QueueTypes, RestTypes, LockTypes
<1> QED BY <1>3, <1>5, <1>6, <1>7 DEF Inv

(* The page of a provider is gone, and the host is yet to hear of its ports. *)
LEMMA GoneKeeps ==
  ASSUME Inv, NEW p \in Providers, PageGone(p), UNCHANGED routerVars,
         wire' \in {Dropped(p), Dropped(p) \cup {Msg("disabled", p, NoPort)}}
  PROVE  /\ PortTypes' /\ WireTypes' /\ ArmedInv' /\ PairsInv'
         /\ work' \in [Providers -> {"none", "upgrade", "done", "setup"}]
         /\ \A m \in wire' : \/ m \in wire \/ m.kind = "hostHears"
                           \/ m = Msg("disabled", p, NoPort)
PROOF
<1>0. PortTypes /\ WireTypes /\ ArmedInv /\ PairsInv /\ LockTypes
  BY DEF Inv
<1>1. /\ port' = [port EXCEPT ![p] = NoPort] /\ work' = [work EXCEPT ![p] = "none"]
      /\ UNCHANGED <<ports, knows, reachable, timers>>
  BY DEF PageGone, routerVars
<1>2. PICK b \in Numbers : b = port[p]
  BY <1>0 DEF PortTypes
<1>3. \A m : m \in Dropped(p) <=>
        \/ m \in wire /\ ~(m.p = p /\ m.kind \in {"connect", "providerHears", "hostReady"})
        \/ b # NoPort /\ m = Msg("hostHears", p, b)
        \/ \E c \in wire : c.kind = "connect" /\ c.p = p /\ m = Msg("hostHears", p, c.n)
  <2>1. \A m : m \in {Msg("hostHears", p, c.n) :
                       c \in {d \in wire : d.kind = "connect" /\ d.p = p}}
               <=> \E c \in wire : c.kind = "connect" /\ c.p = p /\ m = Msg("hostHears", p, c.n)
    OBVIOUS
  <2>2. \A m : m \in (IF port[p] = NoPort THEN {} ELSE {Msg("hostHears", p, port[p])})
               <=> b # NoPort /\ m = Msg("hostHears", p, b)
    BY <1>2
  <2>3. Dropped(p) =
          {m \in wire : ~(m.p = p /\ m.kind \in {"connect", "providerHears", "hostReady"})}
            \cup (IF port[p] = NoPort THEN {} ELSE {Msg("hostHears", p, port[p])})
            \cup {Msg("hostHears", p, m.n) : m \in {c \in wire : c.kind = "connect" /\ c.p = p}}
    BY DEF Dropped
  <2> QED BY <2>1, <2>2, <2>3
<1>4. \A m : m \in wire' => m \in Dropped(p) \/ m = Msg("disabled", p, NoPort)
  OBVIOUS
<1>5. \A m : m \in Dropped(p) => m \in wire'
  OBVIOUS
<1>6. \A m \in Dropped(p) : m \in Messages /\ (m \in wire \/ m.kind = "hostHears")
  <2>1. \A c \in wire : c \in Messages /\ c.n \in Numbers
    BY <1>0, MsgFacts DEF WireTypes
  <2>2. \A x \in Numbers : /\ Msg("hostHears", p, x) \in Messages
                           /\ Msg("hostHears", p, x).kind = "hostHears"
    BY MsgFacts DEF Kinds
  <2> QED BY <1>3, <2>1, <2>2
<1>7. WireTypes'
  BY <1>4, <1>6, MsgFacts, NumberFacts DEF WireTypes, Kinds
<1>8. PortTypes' /\ ArmedInv'
  BY <1>0, <1>1, NumberFacts DEF PortTypes, ArmedInv
<1>9. \A k \in Wired : \A q, x : Comes(k, q, x)' <=> Msg(k, q, x) \in Dropped(p)
  BY <1>4, <1>5, MsgFacts DEF Comes, Wired
<1>10. \A k, q, x : Msg(k, q, x) \in Dropped(p) <=>
         \/ Comes(k, q, x) /\ ~(q = p /\ k \in {"connect", "providerHears", "hostReady"})
         \/ b # NoPort /\ k = "hostHears" /\ q = p /\ x = b
         \/ Comes("connect", p, x) /\ k = "hostHears" /\ q = p
  <2> SUFFICES ASSUME NEW k, NEW q, NEW x
               PROVE  Msg(k, q, x) \in Dropped(p) <=>
                        \/ /\ Comes(k, q, x)
                           /\ ~(q = p /\ k \in {"connect", "providerHears", "hostReady"})
                        \/ b # NoPort /\ k = "hostHears" /\ q = p /\ x = b
                        \/ Comes("connect", p, x) /\ k = "hostHears" /\ q = p
    OBVIOUS
  <2>1. \A y : Msg(k, q, x) = Msg("hostHears", p, y) <=> k = "hostHears" /\ q = p /\ x = y
    BY DEF Msg
  <2>2. (\E c \in wire : /\ c.kind = "connect" /\ c.p = p
                        /\ Msg(k, q, x) = Msg("hostHears", p, c.n))
          <=> Comes("connect", p, x) /\ k = "hostHears" /\ q = p
    <3>1. \A c \in wire : c.kind = "connect" /\ c.p = p => c = Msg("connect", p, c.n)
      BY <1>0, MsgFacts DEF WireTypes
    <3> QED BY <2>1, <3>1, MsgFacts DEF Comes
  <2> QED BY <1>3, <2>1, <2>2, MsgFacts DEF Comes
<1>11. ASSUME NEW q \in Providers, q # p PROVE Pair(q)'
  <2>1. ports'[q] = ports[q] /\ port'[q] = port[q] /\ Pair(q)
    BY <1>0, <1>1, <1>11 DEF PairsInv, PortTypes
  <2>2. \A k \in Wired, x \in Numbers : Comes(k, q, x)' <=> Comes(k, q, x)
    BY <1>9, <1>10, <1>11
  <2> QED BY <1>0, <2>1, <2>2, PairSame
<1>12. Pair(p)'
  <2>1. ports'[p] = ports[p] /\ port'[p] = NoPort /\ Pair(p) /\ ports[p] \in Numbers
    BY <1>0, <1>1 DEF PairsInv, PortTypes
  <2>2. \A x \in Numbers :
          /\ ~Comes("connect", p, x)' /\ ~Comes("providerHears", p, x)'
          /\ Comes("hostHears", p, x)' <=>
               Comes("hostHears", p, x) \/ (b # NoPort /\ x = b) \/ Comes("connect", p, x)
    BY <1>9, <1>10 DEF Wired
  <2>3. \A x \in Numbers : Comes("hostHears", p, x)' => x # NoPort
    BY <2>1, <2>2 DEF Pair
  <2>4. ports[p] # NoPort => Comes("hostHears", p, ports[p])'
    <3>1. PICK a \in Numbers : a = ports[p]
      BY <2>1
    <3>2. a # NoPort => Comes("hostHears", p, a)'
      BY <1>2, <2>1, <2>2, <3>1 DEF Pair
    <3> QED BY <2>1, <3>1, <3>2 DEF Comes
  <2> QED BY <2>1, <2>2, <2>3, <2>4 DEF Pair
<1>13. PairsInv'
  BY <1>11, <1>12 DEF PairsInv
<1>14. work' \in [Providers -> {"none", "upgrade", "done", "setup"}]
  BY <1>0, <1>1 DEF LockTypes
<1> QED BY <1>4, <1>6, <1>7, <1>8, <1>13, <1>14

LEMMA EnableKeeps ==
  ASSUME Inv, NEW p \in Providers, Enable(p)
  PROVE  Inv'
PROOF
<1>1. /\ ext' = [ext EXCEPT ![p] = "starting"]
      /\ UNCHANGED <<host, speaks, rows, refused, handlers, writes, port, wire>>
      /\ UNCHANGED routerVars /\ UNCHANGED lockVars
      /\ flips' \in 0..MaxFlips
  BY Counted DEF Enable
<1>2. PortTypes' /\ ArmedInv' /\ PairsInv'
  BY <1>1, WiresStill DEF routerVars
<1> QED BY <1>1, <1>2 DEF Inv, QueueTypes, RestTypes, WireTypes, LockTypes, lockVars

LEMMA DisableKeeps ==
  ASSUME Inv, NEW p \in Providers, Disable(p)
  PROVE  Inv'
PROOF
<1>1. /\ ext' = [ext EXCEPT ![p] = "off"] /\ PageGone(p)
      /\ wire' \in {Dropped(p), Dropped(p) \cup {Msg("disabled", p, NoPort)}}
      /\ UNCHANGED <<host, speaks, rows, refused, handlers, writes, upgrading, settingUp,
                     pending>>
      /\ UNCHANGED routerVars
      /\ flips' \in 0..MaxFlips
  <2>1. wire' = Dropped(p) \cup (IF host = "off" THEN {} ELSE {Msg("disabled", p, NoPort)})
    BY DEF Disable
  <2>2. wire' \in {Dropped(p), Dropped(p) \cup {Msg("disabled", p, NoPort)}}
    BY <2>1
  <2> QED BY <2>2, Counted DEF Disable
<1>2. /\ PortTypes' /\ WireTypes' /\ ArmedInv' /\ PairsInv'
      /\ work' \in [Providers -> {"none", "upgrade", "done", "setup"}]
  BY <1>1, GoneKeeps
<1> QED BY <1>1, <1>2 DEF Inv, QueueTypes, RestTypes, LockTypes

LEMMA ReplaceKeeps ==
  ASSUME Inv, NEW p \in Providers, Replace(p)
  PROVE  Inv'
PROOF
<1>1. /\ ext' = [ext EXCEPT ![p] = "starting"] /\ PageGone(p) /\ wire' = Dropped(p)
      /\ UNCHANGED <<host, rows, refused, handlers, writes, upgrading, settingUp, pending>>
      /\ UNCHANGED routerVars
      /\ flips' \in 0..MaxFlips
  BY Counted DEF Replace
<1>2. /\ PortTypes' /\ WireTypes' /\ ArmedInv' /\ PairsInv'
      /\ work' \in [Providers -> {"none", "upgrade", "done", "setup"}]
  BY <1>1, GoneKeeps
<1>3. speaks' \in [Providers -> Versions]
  BY DEF Replace, Inv, RestTypes
<1> QED BY <1>1, <1>2, <1>3 DEF Inv, QueueTypes, RestTypes, LockTypes

LEMMA Initially == Init => Inv
PROOF
<1> SUFFICES ASSUME Init PROVE Inv
  OBVIOUS
<1>1. PortTypes /\ ArmedInv /\ WireTypes
  BY NumberFacts DEF Init, PortTypes, ArmedInv, WireTypes
<1>2. PairsInv
  BY DEF Init, PairsInv, Pair, Comes
<1>3. QueueTypes /\ LockTypes
  BY DEF Init, QueueTypes, LockTypes
<1>4. RestTypes
  BY HandshakeAssumption DEF Init, RestTypes, Versions
<1> QED BY <1>1, <1>2, <1>3, <1>4 DEF Inv

LEMMA Stepwise == Inv /\ [Next]_vars => Inv'
PROOF
<1> SUFFICES ASSUME Inv, [Next]_vars PROVE Inv'
  OBVIOUS
<1>1. CASE Flip
  BY <1>1, HostStartsKeeps, HostStopsKeeps, EnableKeeps, DisableKeeps, ReplaceKeeps DEF Flip
<1>2. CASE Starting
  BY <1>2, StartingKeeps
<1>3. CASE Handling
  BY <1>3, lookupKeeps, handleUnannounceKeeps DEF Handling
<1>4. CASE Write
  BY <1>4, WriteKeeps
<1>5. CASE Locking
  BY <1>5, LockingKeeps
<1>6. ASSUME NEW m \in wire, Deliver(m) PROVE Inv'
  BY <1>6, handleDisconnectKeeps, handleAnnounceKeeps, handleDisabledKeeps,
     attachHostReadyKeeps, attachPortKeeps, providerDisconnectedKeeps DEF Deliver
<1>7. ASSUME NEW p \in Providers, ProviderInit(p) \/ Probe(p) PROVE Inv'
  BY <1>7, ProviderInitKeeps, ProbeKeeps
<1>8. CASE UNCHANGED vars
  <2>1. PortTypes' /\ ArmedInv' /\ PairsInv'
    BY <1>8, WiresStill DEF vars
  <2> QED BY <1>8, <2>1 DEF vars, Inv, QueueTypes, RestTypes, LockTypes, WireTypes
<1> QED BY <1>1, <1>2, <1>3, <1>4, <1>5, <1>6, <1>7, <1>8 DEF Next

(* The types, the armed probes and the two ends of every port.               *)
THEOREM Invariant == Spec => []Inv
PROOF
  BY Initially, Stepwise, PTL DEF Spec

(* Every variable keeps its type.                                            *)
THEOREM HandshakeTyped == Spec => []TypeOK
PROOF
  BY Invariant, Typed, PTL

-----------------------------------------------------------------------------
(* When no add-on is switched while the host still handles how it was        *)
(* switched before, the rows agree with the ports too.                       *)

Waits(W, p) == \E i \in 1..Len(W) : W[i].p = p
Has(W, op, p) == \E i \in 1..Len(W) : W[i].op = op /\ W[i].p = p
Final(W, op, p) ==
  \E i \in 1..Len(W) : /\ W[i].op = op /\ W[i].p = p
                       /\ \A j \in 1..Len(W) : j > i => W[j].p # p

Leaving(p) == \/ \E m \in wire : m.kind = "disabled" /\ m.p = p
              \/ \E h \in handlers : h.p = p
              \/ Has(writes, "remove", p)
Announced(p) == \E m \in wire : m.kind = "announce" /\ m.p = p

(* A removal that is under way finds its add-on off, and no announce after it. *)
LeavingInv ==
  \A p \in Providers :
    Leaving(p) => ext[p] = "off" /\ ~Has(writes, "upsert", p) /\ ~Announced(p)

(* What the router knows has a row, and nothing waits to remove it.          *)
KnownInv ==
  \A p \in Providers : p \in knows => ~Has(writes, "remove", p) /\ rows[p] # "absent"

(* The last write of a row, or the row itself, fits the port.                *)
Fits(state, p) ==
  /\ state = "active" => ports[p] # NoPort
  /\ state = "stale" => p \in knows /\ timers[p] > 0
FitsInv ==
  \A p \in Providers :
    /\ \A op \in {"stale", "active"} : Final(writes, op, p) => Fits(op, p)
    /\ ~Waits(writes, p) => Fits(rows[p], p)

RowsInv == LeavingInv /\ KnownInv /\ FitsInv

LEMMA AppendFacts ==
  ASSUME NEW W \in Seq(Writes), NEW w \in Writes, NEW V, V = Append(W, w)
  PROVE  /\ \A p : Waits(V, p) <=> Waits(W, p) \/ w.p = p
         /\ \A p, op : Has(V, op, p) <=> Has(W, op, p) \/ (w.op = op /\ w.p = p)
         /\ \A op : Final(V, op, w.p) <=> w.op = op
         /\ \A p, op : w.p # p => (Final(V, op, p) <=> Final(W, op, p))
PROOF
<1>1. /\ Len(W) \in Nat /\ Len(V) = Len(W) + 1 /\ V[Len(W) + 1] = w
      /\ \A i \in 1..Len(W) : V[i] = W[i]
  OBVIOUS
<1>2. PICK n \in Nat : n = Len(W)
  BY <1>1
<1>3. Len(V) = n + 1 /\ V[n + 1] = w /\ \A i \in 1..n : V[i] = W[i]
  BY <1>1, <1>2
<1>4. \A i : i \in 1..(n + 1) <=> i \in 1..n \/ i = n + 1
  OBVIOUS
<1>5. ASSUME NEW p PROVE Waits(V, p) <=> Waits(W, p) \/ w.p = p
  BY <1>2, <1>3, <1>4 DEF Waits
<1>6. ASSUME NEW p, NEW op PROVE Has(V, op, p) <=> Has(W, op, p) \/ (w.op = op /\ w.p = p)
  BY <1>2, <1>3, <1>4 DEF Has
<1>7. ASSUME NEW op PROVE Final(V, op, w.p) <=> w.op = op
  <2>1. \A i \in 1..n : n + 1 > i
    OBVIOUS
  <2>2. \A i \in 1..(n + 1) : ~(i > n + 1)
    OBVIOUS
  <2> QED BY <1>3, <1>4, <2>1, <2>2 DEF Final
<1>8. ASSUME NEW p, NEW op, w.p # p PROVE Final(V, op, p) <=> Final(W, op, p)
  BY <1>2, <1>3, <1>4, <1>8 DEF Final
<1> QED BY <1>5, <1>6, <1>7, <1>8

LEMMA TailFacts ==
  ASSUME NEW W \in Seq(Writes), W # <<>>, NEW V, V = Tail(W), NEW w, w = Head(W)
  PROVE  \A p : /\ \A op : /\ Has(V, op, p) => Has(W, op, p)
                           /\ Final(V, op, p) => Final(W, op, p)
                /\ w.p # p /\ ~Waits(V, p) => ~Waits(W, p)
                /\ w.p = p /\ ~Waits(V, p) => Final(W, w.op, p)
                /\ w.p = p => Has(W, w.op, p)
PROOF
<1>1. /\ Len(W) \in Nat \ {0} /\ Len(V) = Len(W) - 1 /\ w = W[1]
      /\ \A i \in 1..Len(V) : V[i] = W[i + 1]
  OBVIOUS
<1>2. PICK n \in Nat : Len(W) = n + 1 /\ Len(V) = n
  <2>1. Len(W) - 1 \in Nat /\ Len(W) = (Len(W) - 1) + 1
    BY <1>1
  <2> QED BY <1>1, <2>1
<1>3. w = W[1] /\ \A i \in 1..n : V[i] = W[i + 1]
  BY <1>1, <1>2
<1>4. \A i \in 1..n : i + 1 \in 1..(n + 1)
  OBVIOUS
<1>5. \A i \in 1..(n + 1) : i = 1 \/ (i - 1 \in 1..n /\ (i - 1) + 1 = i)
  OBVIOUS
<1> SUFFICES ASSUME NEW p
             PROVE /\ \A op : /\ Has(V, op, p) => Has(W, op, p)
                              /\ Final(V, op, p) => Final(W, op, p)
                   /\ w.p # p /\ ~Waits(V, p) => ~Waits(W, p)
                   /\ w.p = p /\ ~Waits(V, p) => Final(W, w.op, p)
                   /\ w.p = p => Has(W, w.op, p)
  OBVIOUS
<1>6. ASSUME NEW op, Has(V, op, p) PROVE Has(W, op, p)
  BY <1>2, <1>3, <1>4, <1>6 DEF Has
<1>7. ASSUME NEW op, Final(V, op, p) PROVE Final(W, op, p)
  <2>1. PICK i \in 1..n : /\ V[i].op = op /\ V[i].p = p
                          /\ \A j \in 1..n : j > i => V[j].p # p
    BY <1>2, <1>7 DEF Final
  <2>2. i + 1 \in 1..(n + 1) /\ W[i + 1].op = op /\ W[i + 1].p = p
    BY <1>3, <1>4, <2>1
  <2>3. ASSUME NEW j \in 1..(n + 1), j > i + 1 PROVE W[j].p # p
    <3>1. j - 1 \in 1..n /\ j - 1 > i /\ (j - 1) + 1 = j
      BY <2>3
    <3>2. V[j - 1] = W[j]
      BY <1>3, <3>1
    <3> QED BY <2>1, <3>1, <3>2
  <2> QED BY <1>2, <2>2, <2>3 DEF Final
<1>8. ASSUME ~Waits(V, p) PROVE \A i \in 1..(n + 1) : W[i].p = p => i = 1
  <2> SUFFICES ASSUME NEW i \in 1..(n + 1), W[i].p = p, i # 1 PROVE FALSE
    OBVIOUS
  <2>1. i - 1 \in 1..n /\ V[i - 1] = W[i]
    BY <1>3, <1>5
  <2> QED BY <1>2, <1>8, <2>1 DEF Waits
<1>9. w.p # p /\ ~Waits(V, p) => ~Waits(W, p)
  BY <1>2, <1>3, <1>8 DEF Waits
<1>10. 1 \in 1..(n + 1)
  OBVIOUS
<1>11. w.p = p /\ ~Waits(V, p) => Final(W, w.op, p)
  <2> SUFFICES ASSUME w.p = p, ~Waits(V, p) PROVE Final(W, w.op, p)
    OBVIOUS
  <2>1. \A j \in 1..(n + 1) : j > 1 => W[j].p # p
    BY <1>8
  <2> QED BY <1>2, <1>3, <1>10, <2>1 DEF Final
<1>12. w.p = p => Has(W, w.op, p)
  BY <1>2, <1>3, <1>10 DEF Has
<1> QED BY <1>6, <1>7, <1>9, <1>11, <1>12

(* Every write is in the type, so what is written is known of it.            *)
LEMMA Queued ==
  ASSUME Inv
  PROVE  writes \in Seq(Writes)
PROOF
  BY DEF Inv, QueueTypes

-----------------------------------------------------------------------------
(* Steps that leave the rows, their writes and the router alone.             *)
LEMMA RowsStill ==
  ASSUME KnownInv, FitsInv, UNCHANGED <<rows, writes>>, UNCHANGED routerVars
  PROVE  KnownInv' /\ FitsInv'
PROOF
<1>1. KnownInv'
  BY DEF KnownInv, Has, routerVars
<1>2. FitsInv'
  BY DEF FitsInv, Fits, Final, Waits, routerVars
<1> QED BY <1>1, <1>2

(* Steps that start no removal and no announce.                              *)
LEMMA LeavingStill ==
  ASSUME LeavingInv, ext' = ext,
         \A m \in wire' : m \in wire \/ m.kind \notin {"disabled", "announce"},
         \A h \in handlers' : Leaving(h.p),
         \A p \in Providers : /\ Has(writes, "remove", p)' => Leaving(p)
                              /\ Has(writes, "upsert", p)' => Has(writes, "upsert", p)
  PROVE  LeavingInv'
PROOF
<1> SUFFICES ASSUME NEW p \in Providers, Leaving(p)'
             PROVE  (ext[p] = "off" /\ ~Has(writes, "upsert", p) /\ ~Announced(p))'
  BY DEF LeavingInv
<1>1. Leaving(p)
  BY DEF Leaving
<1>2. ext[p] = "off" /\ ~Has(writes, "upsert", p) /\ ~Announced(p)
  BY <1>1 DEF LeavingInv
<1>3. ~Announced(p)'
  BY <1>2 DEF Announced
<1> QED BY <1>2, <1>3

(* A write more, of a row whose port it fits.                                *)
LEMMA WriteMore ==
  ASSUME Inv, FitsInv, NEW w \in Writes, writes' = Append(writes, w), rows' = rows,
         w.op \in {"stale", "active"} => Fits(w.op, w.p)',
         \A q \in Providers : q # w.p => /\ ports'[q] = ports[q] /\ timers'[q] = timers[q]
                                         /\ q \in knows => q \in knows'
  PROVE  FitsInv'
PROOF
<1>0. PICK V : V = writes'
  OBVIOUS
<1>a. V = Append(writes, w)
  BY <1>0
<1>b. \A p : Waits(V, p) <=> Waits(writes, p) \/ w.p = p
  BY <1>a, Queued, AppendFacts
<1>c. \A op : Final(V, op, w.p) <=> w.op = op
  BY <1>a, Queued, AppendFacts
<1>d. \A p, op : w.p # p => (Final(V, op, p) <=> Final(writes, op, p))
  BY <1>a, Queued, AppendFacts
<1>1. ASSUME NEW q \in Providers, NEW op \in {"stale", "active"}, Final(V, op, q)
      PROVE  Fits(op, q)'
  <2>1. CASE w.p = q
    BY <1>c, <1>1, <2>1 DEF Fits
  <2>2. CASE w.p # q
    <3>1. Fits(op, q)
      BY <1>d, <1>1, <2>2 DEF FitsInv
    <3> QED BY <2>2, <3>1 DEF Fits
  <2> QED BY <2>1, <2>2
<1>2. ASSUME NEW q \in Providers, ~Waits(V, q) PROVE Fits(rows[q], q)'
  <2>1. w.p # q /\ ~Waits(writes, q)
    BY <1>b, <1>2
  <2>2. Fits(rows[q], q)
    BY <2>1 DEF FitsInv
  <2> QED BY <2>1, <2>2 DEF Fits
<1> QED BY <1>0, <1>1, <1>2 DEF FitsInv, Fits, Final, Waits

LEMMA HasMore ==
  ASSUME Inv, NEW w \in Writes, writes' = Append(writes, w)
  PROVE  \A p, op : Has(writes, op, p)' <=> Has(writes, op, p) \/ (w.op = op /\ w.p = p)
PROOF
<1>0. PICK V : V = writes'
  OBVIOUS
<1>1. V = Append(writes, w)
  BY <1>0
<1>2. \A p, op : Has(V, op, p) <=> Has(writes, op, p) \/ (w.op = op /\ w.p = p)
  BY <1>1, Queued, AppendFacts
<1> QED BY <1>0, <1>2 DEF Has

LEMMA KnownMore ==
  ASSUME Inv, KnownInv, NEW w \in Writes, writes' = Append(writes, w), rows' = rows,
         knows' \subseteq knows, w.op = "remove" => w.p \notin knows'
  PROVE  KnownInv'
PROOF
<1>1. \A p : Has(writes, "remove", p)' <=>
               Has(writes, "remove", p) \/ (w.op = "remove" /\ w.p = p)
  BY HasMore
<1> SUFFICES ASSUME NEW p \in Providers, p \in knows'
             PROVE  ~Has(writes, "remove", p)' /\ rows'[p] # "absent"
  BY DEF KnownInv
<1> QED BY <1>1 DEF KnownInv

-----------------------------------------------------------------------------
(* The actions, again.                                                       *)

LEMMA RowsDisconnect ==
  ASSUME Inv, RowsInv, NEW m \in wire, handleDisconnect(m)
  PROVE  RowsInv'
PROOF
<1>0. LeavingInv /\ KnownInv /\ FitsInv /\ PortTypes /\ ArmedInv
  BY DEF RowsInv, Inv
<1>1. /\ m \in Messages /\ m.kind = "hostHears" /\ m.p \in Providers /\ m.n \in Numbers
      /\ m.n # NoPort
  <2>1. m \in Messages /\ m.kind = "hostHears" /\ m.p \in Providers /\ m.n \in Numbers
    BY MsgFacts DEF handleDisconnect, Inv, WireTypes
  <2>2. Comes("hostHears", m.p, m.n)
    BY <2>1, MsgFacts DEF Comes
  <2> QED BY <2>1, <2>2 DEF Inv, PairsInv, Pair
<1>2. /\ wire' = wire \ {m} /\ ext' = ext /\ knows' = knows
      /\ UNCHANGED <<rows, handlers>>
  BY DEF handleDisconnect, sideVars
<1>3. CASE ports[m.p] # m.n
  <2>1. UNCHANGED <<ports, timers, reachable, writes>>
    BY <1>3 DEF handleDisconnect
  <2>2. LeavingInv'
    BY <1>0, <1>2, <2>1, LeavingStill DEF Has, Leaving
  <2> QED BY <1>0, <1>2, <2>1, <2>2, RowsStill DEF RowsInv, routerVars
<1>4. CASE ports[m.p] = m.n
  <2>1. PICK w : w = [op |-> "stale", p |-> m.p]
    OBVIOUS
  <2>2. /\ ports' = [ports EXCEPT ![m.p] = NoPort] /\ timers' = [timers EXCEPT ![m.p] = @ + 1]
        /\ writes' = Append(writes, w)
    BY <1>4, <2>1 DEF handleDisconnect, scheduleBackoffProbe
  <2>3. w \in Writes /\ w.op = "stale" /\ w.p = m.p
    BY <1>1, <2>1 DEF Writes
  <2>4. KnownInv'
    BY <1>0, <1>2, <2>2, <2>3, KnownMore
  <2>5. \A p, op : Has(writes, op, p)' <=> Has(writes, op, p) \/ (w.op = op /\ w.p = p)
    BY <2>2, <2>3, HasMore
  <2>6. \A p \in Providers : /\ Has(writes, "remove", p)' => Leaving(p)
                             /\ Has(writes, "upsert", p)' => Has(writes, "upsert", p)
    BY <2>3, <2>5 DEF Leaving
  <2>7. LeavingInv'
    BY <1>0, <1>2, <2>6, LeavingStill DEF Leaving
  <2>8. w.p \in knows' /\ timers'[w.p] > 0
    BY <1>0, <1>1, <1>2, <1>4, <2>2, <2>3 DEF ArmedInv, PortTypes
  <2>9. \A q \in Providers : q # w.p => /\ ports'[q] = ports[q] /\ timers'[q] = timers[q]
                                        /\ q \in knows => q \in knows'
    BY <1>0, <1>2, <2>2, <2>3 DEF PortTypes
  <2>10. w.op \in {"stale", "active"} => Fits(w.op, w.p)'
    BY <2>3, <2>8 DEF Fits
  <2>11. FitsInv'
    BY <1>0, <1>2, <2>2, <2>3, <2>9, <2>10, WriteMore
  <2> QED BY <2>4, <2>7, <2>11 DEF RowsInv
<1> QED BY <1>3, <1>4

LEMMA RowsProbe ==
  ASSUME Inv, RowsInv, NEW p \in Providers, Probe(p)
  PROVE  RowsInv'
PROOF
<1>0. LeavingInv /\ KnownInv /\ FitsInv /\ PortTypes
  BY DEF RowsInv, Inv
<1>1. /\ timers' = [timers EXCEPT ![p] = @ - 1] /\ port' = port /\ ext' = ext
      /\ UNCHANGED <<rows, handlers>>
  BY DEF Probe, sideVars
<1>2. /\ timers' \in [Providers -> Nat]
      /\ \A q \in Providers : q # p => timers'[q] = timers[q]
  BY <1>0, <1>1 DEF PortTypes, Probe
<1>3. CASE p \in knows
  <2>1. PICK w : w = [op |-> "active", p |-> p]
    OBVIOUS
  <2>2. w \in Writes /\ w.op = "active" /\ w.p = p
    BY <2>1 DEF Writes
  <2>3. openPortToProvider(p) /\ writes' = Append(writes, w)
    BY <1>3, <2>1 DEF Probe
  <2>4. /\ ports'[p] # NoPort /\ knows' = knows \cup {p}
        /\ \A q \in Providers : q # p => ports'[q] = ports[q]
        /\ \A m \in wire' : m \in wire \/ m.kind \in {"connect", "hostHears"}
    BY <1>1, <1>2, <2>3, OpenKeeps
  <2>5. KnownInv'
    BY <1>0, <1>1, <1>3, <2>2, <2>3, <2>4, KnownMore
  <2>6. \A q, op : Has(writes, op, q)' <=> Has(writes, op, q) \/ (w.op = op /\ w.p = q)
    BY <2>2, <2>3, HasMore
  <2>7. \A q \in Providers : /\ Has(writes, "remove", q)' => Leaving(q)
                             /\ Has(writes, "upsert", q)' => Has(writes, "upsert", q)
    BY <2>2, <2>6 DEF Leaving
  <2>8. LeavingInv'
    BY <1>0, <1>1, <2>4, <2>7, LeavingStill DEF Leaving
  <2>9. w.op \in {"stale", "active"} => Fits(w.op, w.p)'
    BY <2>2, <2>4 DEF Fits
  <2>10. \A q \in Providers : q # w.p => /\ ports'[q] = ports[q] /\ timers'[q] = timers[q]
                                         /\ q \in knows => q \in knows'
    BY <1>2, <2>2, <2>4
  <2>11. FitsInv'
    BY <1>0, <1>1, <2>2, <2>3, <2>9, <2>10, WriteMore
  <2> QED BY <2>5, <2>8, <2>11 DEF RowsInv
<1>4. CASE p \notin knows
  <2>1. UNCHANGED <<ports, knows, reachable, wire, writes>>
    BY <1>4 DEF Probe
  <2>2. LeavingInv'
    BY <1>0, <1>1, <2>1, LeavingStill DEF Has, Leaving
  <2>3. KnownInv'
    BY <1>0, <1>1, <2>1 DEF KnownInv, Has
  <2>4. \A q \in Providers : \A s : Fits(s, q) => Fits(s, q)'
    BY <1>2, <1>4, <2>1 DEF Fits
  <2>5. FitsInv'
    <3> SUFFICES ASSUME NEW q \in Providers
                 PROVE  /\ \A op \in {"stale", "active"} : Final(writes, op, q)' => Fits(op, q)'
                        /\ ~Waits(writes, q)' => Fits(rows[q], q)'
      BY DEF FitsInv
    <3>1. ASSUME NEW op \in {"stale", "active"}, Final(writes, op, q)'
          PROVE  Fits(op, q)'
      <4>1. Final(writes, op, q)
        BY <2>1, <3>1 DEF Final
      <4> QED BY <1>0, <2>4, <4>1 DEF FitsInv
    <3>2. ASSUME ~Waits(writes, q)' PROVE Fits(rows[q], q)'
      <4>1. ~Waits(writes, q)
        BY <2>1, <3>2 DEF Waits
      <4>2. Fits(rows[q], q)
        BY <1>0, <4>1 DEF FitsInv
      <4> QED BY <1>1, <1>2, <1>4, <2>1, <4>2 DEF Fits
    <3> QED BY <3>1, <3>2
  <2> QED BY <2>2, <2>3, <2>5 DEF RowsInv
<1> QED BY <1>3, <1>4

LEMMA RowsAnnounce ==
  ASSUME Inv, RowsInv, NEW m \in wire, handleAnnounce(m)
  PROVE  RowsInv'
PROOF
<1>0. LeavingInv /\ KnownInv /\ FitsInv /\ m \in Messages /\ m.p \in Providers
  BY MsgFacts DEF RowsInv, Inv, WireTypes
<1>1. /\ m.kind = "announce" /\ wire' = wire \ {m} /\ ext' = ext
      /\ UNCHANGED <<rows, handlers>> /\ UNCHANGED routerVars
  BY DEF handleAnnounce, sideVars
<1>2. CASE writes' = writes
  <2>1. LeavingInv'
    BY <1>0, <1>1, <1>2, LeavingStill DEF Has, Leaving
  <2> QED BY <1>0, <1>1, <1>2, <2>1, RowsStill DEF RowsInv
<1>3. CASE writes' # writes
  <2>1. PICK w : w = [op |-> "upsert", p |-> m.p]
    OBVIOUS
  <2>2. w \in Writes /\ w.op = "upsert" /\ w.p = m.p
    BY <1>0, <2>1 DEF Writes
  <2>3. writes' = Append(writes, w)
    BY <1>3, <2>1 DEF handleAnnounce
  <2>4. KnownInv'
    BY <1>0, <1>1, <2>2, <2>3, KnownMore DEF routerVars
  <2>5. FitsInv'
    BY <1>0, <1>1, <2>2, <2>3, WriteMore DEF routerVars
  <2>6. \A q, op : Has(writes, op, q)' <=> Has(writes, op, q) \/ (w.op = op /\ w.p = q)
    BY <2>2, <2>3, HasMore
  <2>7. LeavingInv'
    <3> SUFFICES ASSUME NEW q \in Providers, Leaving(q)'
                 PROVE  (ext[q] = "off" /\ ~Has(writes, "upsert", q) /\ ~Announced(q))'
      BY DEF LeavingInv
    <3>1. Leaving(q)
      BY <1>1, <2>2, <2>6 DEF Leaving
    <3>2. ext[q] = "off" /\ ~Has(writes, "upsert", q) /\ ~Announced(q)
      BY <1>0, <3>1 DEF LeavingInv
    <3>3. q # m.p
      BY <1>1, <3>2 DEF Announced
    <3>4. ~Has(writes, "upsert", q)'
      BY <2>2, <2>6, <3>2, <3>3
    <3> QED BY <1>1, <3>2, <3>4 DEF Announced
  <2> QED BY <2>4, <2>5, <2>7 DEF RowsInv
<1> QED BY <1>2, <1>3

LEMMA RowsLookup ==
  ASSUME Inv, RowsInv, NEW h \in handlers, providerIdFromExtensionId(h)
  PROVE  RowsInv'
PROOF
<1>0. /\ LeavingInv /\ KnownInv /\ FitsInv /\ h \in Handlers /\ h.p \in Providers
      /\ Leaving(h.p)
  BY DEF RowsInv, Inv, QueueTypes, Handlers, Leaving
<1>1. ext' = ext /\ rows' = rows /\ port' = port
  BY DEF providerIdFromExtensionId, sideVars
<1>2. CASE rows[h.p] = "absent"
  <2>1. handlers' = handlers \ {h} /\ UNCHANGED <<writes, wire>> /\ UNCHANGED routerVars
    BY <1>2 DEF providerIdFromExtensionId
  <2>2. LeavingInv'
    BY <1>0, <1>1, <2>1, LeavingStill DEF Has, Leaving
  <2> QED BY <1>0, <1>1, <2>1, <2>2, RowsStill DEF RowsInv
<1>3. CASE rows[h.p] # "absent"
  <2>1. PICK w : w = [op |-> "remove", p |-> h.p]
    OBVIOUS
  <2>2. w \in Writes /\ w.op = "remove" /\ w.p = h.p
    BY <1>0, <2>1 DEF Writes
  <2>3. /\ closePortToProvider(h.p) /\ writes' = Append(writes, w)
        /\ handlers' = (handlers \ {h}) \cup {[h EXCEPT !.at = "remove"]}
    BY <1>3, <2>1 DEF providerIdFromExtensionId
  <2>4. /\ knows' = knows \ {h.p}
        /\ \A q \in Providers : q # h.p => ports'[q] = ports[q] /\ timers'[q] = timers[q]
        /\ \A m \in wire' : m \in wire \/ m.kind = "providerHears"
    BY <1>0, <1>1, <2>3, CloseKeeps
  <2>5. KnownInv'
    BY <1>0, <1>1, <2>2, <2>3, <2>4, KnownMore
  <2>6. \A q \in Providers : q # w.p => /\ ports'[q] = ports[q] /\ timers'[q] = timers[q]
                                        /\ q \in knows => q \in knows'
    BY <2>2, <2>4
  <2>7. FitsInv'
    BY <1>0, <1>1, <2>2, <2>3, <2>6, WriteMore
  <2>8. \A q, op : Has(writes, op, q)' <=> Has(writes, op, q) \/ (w.op = op /\ w.p = q)
    BY <2>2, <2>3, HasMore
  <2>9. \A q \in Providers : /\ Has(writes, "remove", q)' => Leaving(q)
                             /\ Has(writes, "upsert", q)' => Has(writes, "upsert", q)
    BY <1>0, <2>2, <2>8 DEF Leaving
  <2>10. \A g \in handlers' : Leaving(g.p)
    <3>1. [h EXCEPT !.at = "remove"].p = h.p
      BY <1>0, Moved
    <3>2. \A g \in handlers' : g \in handlers \/ g.p = h.p
      BY <2>3, <3>1
    <3> QED BY <1>0, <3>2 DEF Leaving
  <2>11. LeavingInv'
    BY <1>0, <1>1, <2>4, <2>9, <2>10, LeavingStill
  <2> QED BY <2>5, <2>7, <2>11 DEF RowsInv
<1> QED BY <1>2, <1>3

(* What its turn does to the row of p, and what stays of it.                 *)
LEMMA RowsWrite ==
  ASSUME Inv, RowsInv, Write
  PROVE  RowsInv'
PROOF
<1> DEFINE w == Head(writes)
           p == w.p
<1>0. /\ LeavingInv /\ KnownInv /\ FitsInv /\ writes \in Seq(Writes) /\ writes # <<>>
      /\ PortTypes /\ ArmedInv /\ rows \in [Providers -> {"absent", "active", "stale"}]
  BY DEF RowsInv, Write, Inv, QueueTypes
<1>1. /\ w \in Writes /\ w.op \in {"upsert", "remove", "stale", "active"}
      /\ p \in Providers
  <2>1. Head(writes) \in Writes
    BY <1>0
  <2> QED BY <2>1 DEF Writes
<1>2. /\ writes' = Tail(writes) /\ timers' = timers /\ port' = port /\ ext' = ext
      /\ \A q \in Providers : q # p => rows'[q] = rows[q]
      /\ w.op = "upsert" => rows'[p] = "active" /\ openPortToProvider(p)
      /\ w.op = "remove" => rows'[p] = "absent"
      /\ w.op \in {"stale", "active"} =>
           rows'[p] = IF rows[p] = "absent" THEN "absent" ELSE w.op
      /\ w.op # "upsert" => UNCHANGED <<ports, knows, reachable, wire>>
  <2>1. rows' = [rows EXCEPT ![p] =
                   CASE w.op = "upsert" -> "active"
                     [] w.op = "remove" -> "absent"
                     [] w.op \in {"stale", "active"} -> IF @ = "absent" THEN @ ELSE w.op]
    BY DEF Write
  <2>2. /\ writes' = Tail(writes) /\ timers' = timers /\ port' = port /\ ext' = ext
        /\ w.op = "upsert" => openPortToProvider(p)
        /\ w.op # "upsert" => UNCHANGED <<ports, knows, reachable, wire>>
    BY DEF Write, sideVars
  <2> HIDE DEF w
  <2> QED BY <1>0, <1>1, <2>1, <2>2
<1>3. \A g \in handlers' : \E h \in handlers : h.p = g.p
  <2>1. \A h \in handlers : [h EXCEPT !.at = "unlock"].p = h.p
    BY Moved DEF Inv, QueueTypes
  <2> QED BY <2>1 DEF Write
<1>4. \A q : /\ \A op : /\ Has(writes, op, q)' => Has(writes, op, q)
                        /\ Final(writes, op, q)' => Final(writes, op, q)
             /\ p # q /\ ~Waits(writes, q)' => ~Waits(writes, q)
             /\ p = q /\ ~Waits(writes, q)' => Final(writes, w.op, q)
             /\ p = q => Has(writes, w.op, q)
  <2>1. PICK V : V = writes'
    OBVIOUS
  <2>2. V = Tail(writes)
    BY <1>2, <2>1
  <2>3. \A q : /\ \A op : /\ Has(V, op, q) => Has(writes, op, q)
                          /\ Final(V, op, q) => Final(writes, op, q)
               /\ p # q /\ ~Waits(V, q) => ~Waits(writes, q)
               /\ p = q /\ ~Waits(V, q) => Final(writes, w.op, q)
               /\ p = q => Has(writes, w.op, q)
    BY <1>0, <2>2, TailFacts
  <2>4. \A q, op : /\ Has(V, op, q) <=> Has(writes, op, q)'
                   /\ Final(V, op, q) <=> Final(writes, op, q)'
                   /\ Waits(V, q) <=> Waits(writes, q)'
    BY <2>1 DEF Has, Final, Waits
  <2> HIDE DEF w, p
  <2> QED BY <2>3, <2>4
<1> HIDE DEF w, p
<1>5. /\ \A m \in wire' : m \in wire \/ m.kind \in {"connect", "hostHears"}
      /\ \A q \in Providers : /\ ports[q] # NoPort => ports'[q] # NoPort
                              /\ q \in knows => q \in knows'
                              /\ q \in knows' => q \in knows \/ (q = p /\ w.op = "upsert")
      /\ w.op = "upsert" => ports'[p] # NoPort
  <2>1. CASE w.op = "upsert"
    <3>1. timers' \in [Providers -> Nat] /\ \A q \in Providers : q # p => timers'[q] = timers[q]
      BY <1>0, <1>2 DEF PortTypes
    <3>2. /\ ports'[p] # NoPort /\ knows' = knows \cup {p}
          /\ \A q \in Providers : q # p => ports'[q] = ports[q]
          /\ \A m \in wire' : m \in wire \/ m.kind \in {"connect", "hostHears"}
      BY <1>1, <1>2, <2>1, <3>1, OpenKeeps
    <3> QED BY <2>1, <3>2
  <2>2. CASE w.op # "upsert"
    BY <1>2, <2>2
  <2> QED BY <2>1, <2>2
<1>6. LeavingInv'
  <2>1. \A g \in handlers' : Leaving(g.p)
    BY <1>3 DEF Leaving
  <2>2. \A q \in Providers : /\ Has(writes, "remove", q)' => Leaving(q)
                             /\ Has(writes, "upsert", q)' => Has(writes, "upsert", q)
    BY <1>4 DEF Leaving
  <2> QED BY <1>0, <1>2, <1>5, <2>1, <2>2, LeavingStill
<1>7. KnownInv'
  <2> SUFFICES ASSUME NEW q \in Providers, q \in knows'
               PROVE  ~Has(writes, "remove", q)' /\ rows'[q] # "absent"
    BY DEF KnownInv
  <2>1. CASE q = p /\ w.op = "upsert"
    <3>1. Has(writes, "upsert", q)
      BY <1>4, <2>1
    <3>2. ~Has(writes, "remove", q)
      BY <1>0, <3>1 DEF LeavingInv, Leaving
    <3> QED BY <1>2, <1>4, <2>1, <3>2
  <2>2. CASE ~(q = p /\ w.op = "upsert")
    <3>1. ~Has(writes, "remove", q) /\ rows[q] # "absent"
      BY <1>0, <1>5, <2>2 DEF KnownInv
    <3>2. ~(q = p /\ w.op = "remove")
      BY <1>4, <3>1
    <3> QED BY <1>1, <1>2, <1>4, <2>2, <3>1, <3>2
  <2> QED BY <2>1, <2>2
<1>8. \A q \in Providers : \A s : Fits(s, q) => Fits(s, q)'
  BY <1>2, <1>5 DEF Fits
<1>9. FitsInv'
  <2> SUFFICES ASSUME NEW q \in Providers
               PROVE  /\ \A op \in {"stale", "active"} : Final(writes, op, q)' => Fits(op, q)'
                      /\ ~Waits(writes, q)' => Fits(rows[q], q)'
    BY DEF FitsInv
  <2>1. ASSUME NEW op \in {"stale", "active"}, Final(writes, op, q)' PROVE Fits(op, q)'
    BY <1>0, <1>4, <1>8, <2>1 DEF FitsInv
  <2>2. ASSUME ~Waits(writes, q)' PROVE Fits(rows[q], q)'
    <3>1. CASE q # p
      <4>1. Fits(rows[q], q)
        BY <1>0, <1>4, <2>2, <3>1 DEF FitsInv
      <4> QED BY <1>2, <1>5, <3>1, <4>1 DEF Fits
    <3>2. CASE q = p /\ w.op \in {"stale", "active"}
      <4>1. Fits(w.op, q)
        BY <1>0, <1>4, <2>2, <3>2 DEF FitsInv
      <4> QED BY <1>2, <1>5, <3>2, <4>1 DEF Fits
    <3>3. CASE q = p /\ w.op \in {"upsert", "remove"}
      BY <1>2, <1>5, <3>3 DEF Fits
    <3> QED BY <1>1, <3>1, <3>2, <3>3
  <2> QED BY <2>1, <2>2
<1> QED BY <1>6, <1>7, <1>9 DEF RowsInv

(* What stays of the others: messages, handlers and add-ons.                 *)
LEMMA RowsAside ==
  ASSUME Inv, RowsInv, UNCHANGED <<rows, writes>>, UNCHANGED routerVars, ext' = ext,
         \A h \in handlers' : Leaving(h.p),
         \A m \in wire' : m \in wire \/ m.kind \notin {"disabled", "announce"}
  PROVE  RowsInv'
PROOF
<1>1. LeavingInv'
  BY LeavingStill DEF RowsInv, Has, Leaving
<1> QED BY <1>1, RowsStill DEF RowsInv

LEMMA RowsDisabled ==
  ASSUME Inv, RowsInv, NEW m \in wire, handleDisabled(m)
  PROVE  RowsInv'
PROOF
<1>1. /\ m.kind = "disabled" /\ wire' = wire \ {m}
      /\ UNCHANGED <<rows, writes>> /\ UNCHANGED routerVars /\ ext' = ext
  BY DEF handleDisabled, sideVars
<1>2. \A h \in handlers' : h \in handlers \/ h.p = m.p
  BY DEF handleDisabled
<1>3. \A h \in handlers' : Leaving(h.p)
  BY <1>1, <1>2 DEF Leaving
<1> QED BY <1>1, <1>3, RowsAside

LEMMA RowsHandled ==
  ASSUME Inv, RowsInv,
         \/ \E h \in handlers : handleUnannounce(h)
         \/ Starting \/ Locking \/ HostStarts
         \/ \E m \in wire : providerDisconnected(m)
  PROVE  RowsInv'
PROOF
<1>1. /\ UNCHANGED <<rows, writes>> /\ UNCHANGED routerVars /\ ext' = ext
      /\ handlers' \subseteq handlers
  BY DEF handleUnannounce, Starting, init, broadcastHostReady, Locking, LockForUpgrade,
         LEGACY_MIGRATION_DONE, ReleaseUpgradeLock, SetupLock, LockUnchanged, HostStarts,
         providerDisconnected, sideVars
<1>2. \A h \in handlers' : Leaving(h.p)
  BY <1>1 DEF Leaving
<1>3. ASSUME NEW m \in wire' PROVE m \in wire \/ m.kind \notin {"disabled", "announce"}
  <2>1. CASE broadcastHostReady
    <3>1. m \in wire \/ m \in {Msg("hostReady", p, NoPort) : p \in Providers}
      BY <1>3, <2>1 DEF broadcastHostReady, Send
    <3> QED BY <3>1, MsgFacts
  <2>2. CASE ~broadcastHostReady
    BY <1>3, <2>2 DEF handleUnannounce, Starting, init, Locking, LockForUpgrade,
         LEGACY_MIGRATION_DONE, ReleaseUpgradeLock, SetupLock, LockUnchanged, HostStarts,
         providerDisconnected
  <2> QED BY <2>1, <2>2
<1> QED BY <1>1, <1>2, <1>3, RowsAside

LEMMA RowsAttach ==
  ASSUME Inv, RowsInv, NEW m \in wire, attachPort(m)
  PROVE  RowsInv'
PROOF
<1>1. /\ UNCHANGED <<rows, writes>> /\ UNCHANGED routerVars /\ ext' = ext
      /\ handlers' = handlers
  BY DEF attachPort, sideVars
<1>2. \A h \in handlers' : Leaving(h.p)
  BY <1>1 DEF Leaving
<1>3. \A x \in wire' : x \in wire \/ x \in {Msg("hostHears", m.p, m.n),
                                            Msg("hostHears", m.p, port[m.p])}
  BY DEF attachPort
<1>4. \A x \in wire' : x \in wire \/ x.kind \notin {"disabled", "announce"}
  BY <1>3, MsgFacts
<1> QED BY <1>1, <1>2, <1>4, RowsAside

(* An announce is sent by a provider that is up, and so not leaving.         *)
LEMMA RowsAnnounced ==
  ASSUME Inv, RowsInv, NEW p \in Providers, ext[p] # "off", ext'[p] # "off",
         \A q \in Providers : q # p => ext'[q] = ext[q],
         UNCHANGED <<rows, writes, handlers>>, UNCHANGED routerVars,
         \A m \in wire' : m \in wire \/ m.kind \notin {"disabled", "announce"}
                           \/ (m.kind = "announce" /\ m.p = p)
  PROVE  RowsInv'
PROOF
<1>1. KnownInv' /\ FitsInv'
  BY RowsStill DEF RowsInv
<1>2. LeavingInv'
  <2> SUFFICES ASSUME NEW q \in Providers, Leaving(q)'
               PROVE  (ext[q] = "off" /\ ~Has(writes, "upsert", q) /\ ~Announced(q))'
    BY DEF LeavingInv
  <2>1. Leaving(q)
    BY DEF Leaving, Has
  <2>2. ext[q] = "off" /\ ~Has(writes, "upsert", q) /\ ~Announced(q) /\ q # p
    BY <2>1 DEF RowsInv, LeavingInv
  <2>3. ext'[q] = "off"
    BY <2>2
  <2>4. ~Has(writes, "upsert", q)'
    BY <2>2 DEF Has
  <2>5. ~Announced(q)'
    BY <2>2 DEF Announced
  <2> QED BY <2>3, <2>4, <2>5
<1> QED BY <1>1, <1>2 DEF RowsInv

LEMMA RowsInit ==
  ASSUME Inv, RowsInv, NEW p \in Providers, ProviderInit(p)
  PROVE  RowsInv'
PROOF
<1>1. /\ ext[p] = "starting" /\ ext' = [ext EXCEPT ![p] = "on"]
      /\ wire' = wire \cup {Announce(p)}
      /\ UNCHANGED <<rows, writes, handlers>> /\ UNCHANGED routerVars
  BY DEF ProviderInit, Send
<1>2. ext'[p] = "on" /\ \A q \in Providers : q # p => ext'[q] = ext[q]
  BY <1>1 DEF Inv, RestTypes
<1>3. Announce(p).kind = "announce" /\ Announce(p).p = p
  BY AnnounceFacts
<1> QED BY <1>1, <1>2, <1>3, RowsAnnounced

LEMMA RowsHostReady ==
  ASSUME Inv, RowsInv, NEW m \in wire, attachHostReadyListener(m)
  PROVE  RowsInv'
PROOF
<1>0. m.p \in Providers
  BY MsgFacts DEF Inv, WireTypes
<1>1. /\ UNCHANGED <<rows, writes, handlers>> /\ UNCHANGED routerVars /\ ext' = ext
  BY DEF attachHostReadyListener, sideVars
<1>2. CASE ext[m.p] = "on"
  <2>1. wire' = (wire \ {m}) \cup {Announce(m.p)}
    BY <1>2 DEF attachHostReadyListener, AnswerHostReady
  <2>2. Announce(m.p).kind = "announce" /\ Announce(m.p).p = m.p
    BY <1>0, AnnounceFacts
  <2> QED BY <1>0, <1>1, <1>2, <2>1, <2>2, RowsAnnounced
<1>3. CASE ext[m.p] # "on"
  <2>1. wire' = wire \ {m}
    BY <1>3 DEF attachHostReadyListener
  <2>2. \A h \in handlers' : Leaving(h.p)
    BY <1>1 DEF Leaving
  <2> QED BY <1>1, <2>1, <2>2, RowsAside
<1> QED BY <1>2, <1>3

LEMMA RowsHostStops ==
  ASSUME Inv, RowsInv, HostStops
  PROVE  RowsInv'
PROOF
<1>1. /\ rows' = [p \in Providers |-> "absent"] /\ handlers' = {} /\ writes' = <<>>
      /\ knows' = {}
  BY DEF HostStops
<1>2. \A m \in wire' : m.kind # "disabled"
  <2>1. \A m \in wire' : \/ m.kind \notin {"hostHears", "connect", "disabled"}
                         \/ \E p \in Providers : m = Msg("providerHears", p, ports[p])
    BY DEF HostStops, ProviderHears
  <2> QED BY <2>1, MsgFacts
<1>3. Len(writes') = 0
  BY <1>1
<1>4. \A p, op : ~Has(writes, op, p)' /\ ~Final(writes, op, p)'
  BY <1>3 DEF Has, Final
<1>5. LeavingInv'
  BY <1>1, <1>2, <1>4 DEF LeavingInv, Leaving
<1>6. KnownInv'
  BY <1>1 DEF KnownInv
<1>7. FitsInv'
  BY <1>1, <1>4 DEF FitsInv, Fits
<1> QED BY <1>5, <1>6, <1>7 DEF RowsInv

(* What a switch waits for when switches are not hurried.                    *)
LEMMA SettledFacts ==
  ASSUME NEW p \in Providers, Settled(p)
  PROVE  ~Leaving(p) /\ ~Has(writes, "upsert", p) /\ ~Announced(p)
PROOF
  BY DEF Settled, Leaving, Has, Announced

LEMMA RowsEnable ==
  ASSUME Inv, RowsInv, ~Hurried, NEW p \in Providers, Enable(p)
  PROVE  RowsInv'
PROOF
<1>1. /\ Settled(p) /\ ext' = [ext EXCEPT ![p] = "starting"]
      /\ UNCHANGED <<rows, handlers, writes, wire>> /\ UNCHANGED routerVars
  BY DEF Enable
<1>2. KnownInv' /\ FitsInv'
  BY <1>1, RowsStill DEF RowsInv
<1>3. ASSUME NEW q \in Providers, Leaving(q)'
      PROVE  (ext[q] = "off" /\ ~Has(writes, "upsert", q) /\ ~Announced(q))'
  <2>1. Leaving(q)
    BY <1>1, <1>3 DEF Leaving, Has
  <2>2. q # p
    BY <1>1, <2>1, SettledFacts
  <2>3. ext[q] = "off" /\ ~Has(writes, "upsert", q) /\ ~Announced(q)
    BY <2>1 DEF RowsInv, LeavingInv
  <2> QED BY <1>1, <2>2, <2>3 DEF Has, Announced, Inv, RestTypes
<1> QED BY <1>2, <1>3 DEF RowsInv, LeavingInv

LEMMA RowsDisable ==
  ASSUME Inv, RowsInv, ~Hurried, NEW p \in Providers, Disable(p)
  PROVE  RowsInv'
PROOF
<1>1. /\ Settled(p) /\ ext' = [ext EXCEPT ![p] = "off"] /\ PageGone(p)
      /\ wire' \in {Dropped(p), Dropped(p) \cup {Msg("disabled", p, NoPort)}}
      /\ UNCHANGED <<rows, handlers, writes>> /\ UNCHANGED routerVars
  <2>1. wire' = Dropped(p) \cup (IF host = "off" THEN {} ELSE {Msg("disabled", p, NoPort)})
    BY DEF Disable
  <2> QED BY <2>1 DEF Disable
<1>2. KnownInv' /\ FitsInv'
  BY <1>1, RowsStill DEF RowsInv
<1>3. \A m \in wire' : m \in wire \/ m.kind = "hostHears" \/ (m.kind = "disabled" /\ m.p = p)
  BY <1>1, GoneKeeps, MsgFacts
<1>4. ASSUME NEW q \in Providers, Leaving(q)'
      PROVE  (ext[q] = "off" /\ ~Has(writes, "upsert", q) /\ ~Announced(q))'
  <2>1. Announced(q)' => Announced(q)
    BY <1>3 DEF Announced
  <2>2. Has(writes, "upsert", q)' => Has(writes, "upsert", q)
    BY <1>1 DEF Has
  <2>3. CASE q = p
    <3>1. ext'[p] = "off"
      BY <1>1 DEF Inv, RestTypes
    <3> QED BY <1>1, <2>1, <2>2, <2>3, <3>1, SettledFacts
  <2>4. CASE q # p
    <3>1. Leaving(q)
      BY <1>1, <1>3, <1>4, <2>4 DEF Leaving, Has
    <3>2. ext[q] = "off" /\ ~Has(writes, "upsert", q) /\ ~Announced(q)
      BY <3>1 DEF RowsInv, LeavingInv
    <3>3. ext'[q] = ext[q]
      BY <1>1, <2>4 DEF Inv, RestTypes
    <3> QED BY <2>1, <2>2, <3>2, <3>3
  <2> QED BY <2>3, <2>4
<1> QED BY <1>2, <1>4 DEF RowsInv, LeavingInv

LEMMA RowsReplace ==
  ASSUME Inv, RowsInv, NEW p \in Providers, Replace(p)
  PROVE  RowsInv'
PROOF
<1>1. /\ ext[p] = "on" /\ ext' = [ext EXCEPT ![p] = "starting"] /\ PageGone(p)
      /\ wire' = Dropped(p)
      /\ UNCHANGED <<rows, handlers, writes>> /\ UNCHANGED routerVars
  BY DEF Replace
<1>2. ext'[p] = "starting" /\ \A q \in Providers : q # p => ext'[q] = ext[q]
  BY <1>1 DEF Inv, RestTypes
<1>3. \A m \in wire' : m \in wire \/ m.kind \notin {"disabled", "announce"}
  <2>1. \A m \in Dropped(p) : \/ m \in wire
                              \/ m = Msg("hostHears", p, port[p])
                              \/ \E c \in wire : m = Msg("hostHears", p, c.n)
    BY DEF Dropped
  <2> QED BY <1>1, <2>1, MsgFacts
<1> QED BY <1>1, <1>2, <1>3, RowsAnnounced

LEMMA RowsInitially == Init => RowsInv
PROOF
<1> SUFFICES ASSUME Init PROVE RowsInv
  OBVIOUS
<1>1. /\ writes = <<>> /\ wire = {} /\ handlers = {} /\ knows = {}
      /\ rows = [p \in Providers |-> "absent"]
  BY DEF Init
<1>2. \A p, op : ~Has(writes, op, p) /\ ~Final(writes, op, p)
  BY <1>1 DEF Has, Final
<1> QED BY <1>1, <1>2 DEF RowsInv, LeavingInv, KnownInv, FitsInv, Leaving, Fits

LEMMA RowsStepwise ==
  ASSUME ~Hurried
  PROVE  Inv /\ RowsInv /\ [Next]_vars => RowsInv'
PROOF
<1> SUFFICES ASSUME Inv, RowsInv, [Next]_vars PROVE RowsInv'
  OBVIOUS
<1>1. CASE Flip
  BY <1>1, RowsHandled, RowsHostStops, RowsEnable, RowsDisable, RowsReplace DEF Flip
<1>2. CASE Starting \/ Locking
  BY <1>2, RowsHandled
<1>3. CASE Handling
  BY <1>3, RowsLookup, RowsHandled DEF Handling
<1>4. CASE Write
  BY <1>4, RowsWrite
<1>5. ASSUME NEW m \in wire, Deliver(m) PROVE RowsInv'
  BY <1>5, RowsDisconnect, RowsAnnounce, RowsDisabled, RowsHostReady, RowsAttach,
     RowsHandled DEF Deliver
<1>6. ASSUME NEW p \in Providers, ProviderInit(p) \/ Probe(p) PROVE RowsInv'
  BY <1>6, RowsInit, RowsProbe
<1>7. CASE UNCHANGED vars
  <2>1. UNCHANGED <<rows, writes>> /\ UNCHANGED routerVars /\ ext' = ext /\ handlers' = handlers
        /\ wire' = wire
    BY <1>7 DEF vars, routerVars
  <2>2. \A h \in handlers' : Leaving(h.p)
    BY <2>1 DEF Leaving
  <2> QED BY <2>1, <2>2, RowsAside
<1> QED BY <1>1, <1>2, <1>3, <1>4, <1>5, <1>6, <1>7 DEF Next

LEMMA Agreement == Inv /\ RowsInv => SidesAgree
PROOF
<1> SUFFICES ASSUME Inv, RowsInv, NEW p \in Providers, Quiet(p)
             PROVE  ports[p] = port[p] /\ (rows[p] = "active" <=> ports[p] # NoPort)
  BY DEF SidesAgree
<1>1. handlers = {} /\ writes = <<>> /\ wire = {} /\ timers[p] = 0
  BY DEF Quiet
<1>2. ports[p] = port[p]
  BY <1>1 DEF Inv, PairsInv, Pair, Comes
<1>3. ~Waits(writes, p)
  BY <1>1 DEF Waits
<1>4. Fits(rows[p], p)
  BY <1>3 DEF RowsInv, FitsInv
<1>5. rows[p] = "active" => ports[p] # NoPort
  BY <1>4 DEF Fits
<1>6. ports[p] # NoPort => rows[p] = "active"
  <2>1. ports[p] # NoPort => rows[p] # "absent"
    BY DEF Inv, ArmedInv, RowsInv, KnownInv
  <2>2. rows[p] # "stale"
    BY <1>1, <1>4 DEF Fits
  <2> QED BY <2>1, <2>2 DEF Inv, QueueTypes
<1> QED BY <1>2, <1>5, <1>6

(* Unless add-ons are switched while the host still handles how they were    *)
(* switched before, a host and a provider that have nothing on its way mean  *)
(* the same port, and the row is active exactly if there is one.             *)
THEOREM SettledSidesAgree ==
  ASSUME ~Hurried
  PROVE  Spec => []SidesAgree
PROOF
<1>1. Init => RowsInv
  BY RowsInitially
<1>2. Inv /\ RowsInv /\ [Next]_vars => RowsInv'
  BY RowsStepwise
<1>3. Inv /\ RowsInv => SidesAgree
  BY Agreement
<1> QED BY <1>1, <1>2, <1>3, Invariant, PTL DEF Spec

==============================================================================
