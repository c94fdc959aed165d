------------------------ MODULE CommandChannel_proofs -------------------------
(***************************************************************************)
(* Proofs about CommandChannel, for every set of calls, asks and accounts, *)
(* whatever is sent and whatever restarts.                                 *)
(***************************************************************************)
EXTENDS CommandChannel, TLAPS

(***************************************************************************)
(* The inductive invariant                                                 *)
(***************************************************************************)

(* A command on its way has been sent.                                      *)
CallsSent ==
  \A i \in 1..Len(toProvider) :
    toProvider[i].kind = "call" => call[toProvider[i].id].state # "unsent"

(* No event is of a port that was never opened.                             *)
PortsKnown ==
  /\ \A i \in 1..Len(toProvider) : toProvider[i].port \in 1..opened
  /\ \A i \in 1..Len(toHost) : toHost[i].port \in 1..opened

Typed == TypeOK /\ CallsSent /\ PortsKnown

(* The port that a provider with port "now" is given at place k of what is  *)
(* on its way to it (0: none); place 0 is the port that it has.             *)
PortAt(now, q, k) ==
  IF k = 0 THEN now ELSE IF q[k].kind = "connect" THEN q[k].port ELSE 0

EndsBetween(q, p, k, i) == \E j \in (k + 1)..i : q[j] = Disconnect(p)

(* The provider hears the end of one port before it is given the next.      *)
OneAfterTheOther(now, q) ==
  \A k \in 0..Len(q) : \A i \in (k + 1)..Len(q) :
    PortAt(now, q, k) # 0 /\ PortAt(now, q, i) # 0
    => EndsBetween(q, PortAt(now, q, k), k, i - 1)

(* It will hear the end of every port but p, the one the host has.          *)
OthersEnd(now, q, p) ==
  \A k \in 0..Len(q) :
    PortAt(now, q, k) \notin {0, p} => EndsBetween(q, PortAt(now, q, k), k, Len(q))

(* The host hears the end of a port when the provider's end is gone.        *)
EndsAreReal == \A p \in Ports : In(toHost, Disconnect(p)) => ~Linked(p)

PortsInOrder ==
  /\ OneAfterTheOther(incoming, toProvider)
  /\ OthersEnd(incoming, toProvider, port)
  /\ EndsAreReal

(***************************************************************************)
(* Queues                                                                  *)
(***************************************************************************)
LEMMA Appended ==
  ASSUME NEW S, NEW q \in Seq(S), NEW e \in S
  PROVE  /\ Append(q, e) \in Seq(S) /\ Len(Append(q, e)) = Len(q) + 1
         /\ \A i \in 1..Len(q) : Append(q, e)[i] = q[i]
         /\ Append(q, e)[Len(q) + 1] = e
  OBVIOUS

LEMMA Received ==
  ASSUME NEW S, NEW q \in Seq(S), q # <<>>
  PROVE  /\ Len(q) \in Nat /\ Len(q) # 0
         /\ Tail(q) \in Seq(S) /\ Len(Tail(q)) = Len(q) - 1
         /\ \A i \in 1..Len(Tail(q)) : Tail(q)[i] = q[i + 1]
         /\ Head(q) = q[1] /\ Head(q) \in S
  OBVIOUS

LEMMA EventTypes ==
  ASSUME NEW p \in Ports
  PROVE  /\ Connect(p) \in Event /\ Disconnect(p) \in Event
         /\ \A kind \in {"call", "reply"}, c \in Calls :
              [kind |-> kind, port |-> p, id |-> c] \in Event
         /\ \A kind \in {"ask", "askReply"}, r \in Asks :
              [kind |-> kind, port |-> p, id |-> r] \in Event
  BY DEF Event, Connect, Disconnect

LEMMA EventKinds ==
  ASSUME NEW e \in Event
  PROVE  /\ e.port \in Ports
         /\ e.kind \in {"call", "reply"} => e.id \in Calls
         /\ e.kind \in {"ask", "askReply"} => e.id \in Asks
         /\ e.kind \in {"connect", "disconnect", "call", "reply", "ask", "askReply"}
         /\ e.kind = "connect" => e = Connect(e.port)
         /\ e.kind = "disconnect" => e = Disconnect(e.port)
  <1>1. CASE e \in [kind : {"connect", "disconnect"}, port : Ports]
    BY <1>1 DEF Connect, Disconnect
  <1>2. CASE e \in [kind : {"call", "reply"}, port : Ports, id : Calls]
    BY <1>2
  <1>3. CASE e \in [kind : {"ask", "askReply"}, port : Ports, id : Asks]
    BY <1>3
  <1> QED BY <1>1, <1>2, <1>3 DEF Event

(* A step that forgets no command and sends none that is not in the table.  *)
LEMMA SentStill ==
  ASSUME Typed,
         \A c \in Calls : call[c].state # "unsent" => call'[c].state # "unsent",
         \A i \in 1..Len(toProvider') : toProvider'[i].kind = "call" =>
           \/ \E j \in 1..Len(toProvider) : toProvider'[i] = toProvider[j]
           \/ call'[toProvider'[i].id].state # "unsent"
  PROVE  CallsSent'
  <1> SUFFICES ASSUME NEW i \in 1..Len(toProvider'), toProvider'[i].kind = "call",
                      call'[toProvider'[i].id].state = "unsent"
               PROVE  call'[toProvider'[i].id].state # "unsent"
    BY DEF CallsSent
  <1>1. PICK j \in 1..Len(toProvider) : toProvider'[i] = toProvider[j]
    OBVIOUS
  <1>2. toProvider[j] \in Event
    BY DEF Typed, TypeOK
  <1>3. toProvider[j].id \in Calls
    BY <1>1, <1>2, EventKinds
  <1>4. call[toProvider[j].id].state # "unsent"
    BY <1>1 DEF Typed, CallsSent
  <1> QED BY <1>1, <1>3, <1>4

(* A linked port is one of those that were opened.                          *)
LEMMA LinkedPort ==
  ASSUME Typed, NEW p \in 0..MaxPorts, Linked(p)
  PROVE  p \in Ports
  BY ChannelAssumption DEF Linked, Ports

(* Sending keeps the queue to the provider as it should be.                 *)
LEMMA PostedType ==
  ASSUME Typed, NEW p \in 0..opened, NEW e, p \in Ports => e \in Event,
         e.port = p, toProvider' = Posted(toProvider, p, e)
  PROVE  /\ toProvider' \in Seq(Event)
         /\ \A i \in 1..Len(toProvider') : toProvider'[i].port \in 1..opened
         /\ \A i \in 1..Len(toProvider') :
              (i \in 1..Len(toProvider) /\ toProvider'[i] = toProvider[i]) \/ toProvider'[i] = e
  <1>1. CASE Linked(p)
    <2>1. e \in Event
      BY <1>1, LinkedPort, ChannelAssumption DEF Typed, TypeOK
    <2>2. toProvider \in Seq(Event) /\ toProvider' = Append(toProvider, e)
      BY <1>1 DEF Posted, Typed, TypeOK
    <2>3. p \in 1..opened /\ opened \in Nat
      BY <1>1, ChannelAssumption DEF Linked, Typed, TypeOK
    <2>4. Len(toProvider) \in Nat
      BY <2>2
    <2> QED BY <2>1, <2>2, <2>3, <2>4, Appended DEF Typed, PortsKnown
  <1>2. CASE ~Linked(p)
    BY <1>2 DEF Posted, Typed, TypeOK, PortsKnown
  <1> QED BY <1>1, <1>2

(***************************************************************************)
(* Type correctness                                                        *)
(***************************************************************************)

(* What the table of calls is at every step: entries of the right kind, and *)
(* those that are pending on a port that was opened.                        *)
Table(t) == t \in [Calls -> Call] /\ \A c \in Calls : t[c].state = "pending" => t[c].on \in 1..opened

LEMMA SettledType ==
  ASSUME Typed, NEW d \in Calls, Pending(d), NEW code \in Settled
  PROVE  [call[d] EXCEPT !.state = code] \in Call
  BY DEF Typed, TypeOK, Call, Pending, Settled

LEMMA SentType ==
  ASSUME Typed, NEW cmd \in Commands, NEW a \in Accounts,
         NEW state \in {"pending"} \cup Settled
  PROVE  /\ Sent(cmd, a, state) \in Call
         /\ Sent(cmd, a, state).state = state /\ Sent(cmd, a, state).on = port
         /\ Sent(cmd, a, state).cmd = cmd /\ Sent(cmd, a, state).account = a
  BY DEF Typed, TypeOK, Call, Sent

LEMMA FatesType ==
  ASSUME Typed, NEW fate \in Fates
  PROVE  fate \in {"pending", "closed"} /\ (fate = "pending" => port # 0)
  BY DEF Fates, Linked, Settled

LEMMA RejectType ==
  ASSUME Typed, NEW code \in Settled, RejectPending(code)
  PROVE  /\ Table(call')
         /\ \A c \in Calls : call'[c].state # "pending" /\ (call[c].state # "unsent" => call'[c].state # "unsent")
  <1>1. \A c \in Calls : Pending(c) => [call[c] EXCEPT !.state = code] \in Call
    BY SettledType
  <1>2. \A c \in Calls : call'[c] = IF Pending(c) THEN [call[c] EXCEPT !.state = code] ELSE call[c]
    BY DEF RejectPending
  <1>3. call \in [Calls -> Call] /\ call' \in [Calls -> Call]
    BY <1>1, <1>2 DEF RejectPending, Typed, TypeOK
  <1>4. \A c \in Calls : Pending(c) => call'[c].state = code
    BY <1>2, <1>3 DEF Call, Pending
  <1>5. code # "pending" /\ code # "unsent"
    BY DEF Settled
  <1> QED BY <1>2, <1>3, <1>4, <1>5 DEF Table, Pending

LEMMA SweptType ==
  ASSUME Typed, NEW a \in Accounts
  PROVE  /\ Table(Swept(a))
         /\ \A c \in Calls : /\ Swept(a)[c].state = "pending" => Swept(a)[c] = call[c]
                             /\ call[c].state # "unsent" => Swept(a)[c].state # "unsent"
  <1>1. \A c \in Calls : Pending(c) => [call[c] EXCEPT !.state = "cancelled"] \in Call
    BY SettledType DEF Settled
  <1>2. \A c \in Calls : Pending(c) => [call[c] EXCEPT !.state = "cancelled"].state = "cancelled"
    BY DEF Typed, TypeOK, Call, Pending
  <1>3. \A c \in Calls : \/ Swept(a)[c] = call[c]
                         \/ Pending(c) /\ Swept(a)[c] = [call[c] EXCEPT !.state = "cancelled"]
    BY DEF Swept
  <1>4. Swept(a) \in [Calls -> Call]
    BY <1>1 DEF Swept, Typed, TypeOK
  <1> QED BY <1>1, <1>2, <1>3, <1>4 DEF Table, Typed, TypeOK, Pending

LEMMA TypedInit == ChannelAssumption /\ Init => Typed
  BY DEF ChannelAssumption, Init, Typed, TypeOK, CallsSent, PortsKnown, Call, Ask,
         Controller, NoController, Pending

LEMMA TypedHost ==
  ASSUME Typed,
         OpenPortToProvider \/ ClosePortToProvider \/ HostRestart
  PROVE  Typed'
  <1> USE ChannelAssumption
  <1>1. CASE OpenPortToProvider
    <2>1. opened + 1 \in Ports
      BY <1>1 DEF OpenPortToProvider, Typed, TypeOK, Ports
    <2>2. /\ toProvider' \in Seq(Event) /\ toHost' \in Seq(Event)
          /\ \A i \in 1..Len(toProvider') : toProvider'[i].port \in 1..(opened + 1)
          /\ \A i \in 1..Len(toHost') : toHost'[i].port \in 1..(opened + 1)
          /\ \A i \in 1..Len(toProvider') :
               toProvider'[i].kind = "call" =>
                 i \in 1..Len(toProvider) /\ toProvider'[i] = toProvider[i]
      <3>1. CASE alive
        <4>1. /\ toProvider' = Append(toProvider, Connect(opened + 1)) /\ toHost' = toHost
              /\ Connect(opened + 1) \in Event /\ Connect(opened + 1).port = opened + 1
              /\ Connect(opened + 1).kind = "connect"
          BY <1>1, <2>1, <3>1, EventTypes DEF OpenPortToProvider, Connect
        <4> QED BY <4>1, Appended DEF Typed, TypeOK, PortsKnown
      <3>2. CASE ~alive
        <4>1. /\ toHost' = Append(toHost, Disconnect(opened + 1)) /\ toProvider' = toProvider
              /\ Disconnect(opened + 1) \in Event /\ Disconnect(opened + 1).port = opened + 1
          BY <1>1, <2>1, <3>2, EventTypes DEF OpenPortToProvider, Disconnect
        <4> QED BY <4>1, Appended DEF Typed, TypeOK, PortsKnown
      <3> QED BY <3>1, <3>2
    <2>3. UNCHANGED <<call, serving, alive, incoming, running, aborts, ask>>
          /\ port' = opened + 1 /\ opened' = opened + 1
      BY <1>1 DEF OpenPortToProvider, provider
    <2>4. port' \in 0..MaxPorts /\ opened' \in port'..MaxPorts /\ incoming \in 0..opened'
          /\ \A c \in Calls : Pending(c)' => call[c].on \in 1..opened'
      BY <1>1, <2>3 DEF OpenPortToProvider, Typed, TypeOK, Pending
    <2> QED BY <2>2, <2>3, <2>4 DEF Typed, TypeOK, CallsSent, PortsKnown
  <1>2. CASE ClosePortToProvider
    <2>1. /\ port \in 0..opened /\ Disconnect(port).port = port
          /\ port \in Ports => Disconnect(port) \in Event
          /\ Disconnect(port).kind # "call" /\ "closed" \in Settled
      BY EventTypes DEF Typed, TypeOK, Disconnect, Settled
    <2>2. toProvider' = Posted(toProvider, port, Disconnect(port)) /\ RejectPending("closed")
          /\ UNCHANGED <<opened, serving, toHost, alive, incoming, running, aborts, ask>>
          /\ port' = 0
      BY <1>2 DEF ClosePortToProvider, provider
    <2>3. /\ toProvider' \in Seq(Event)
          /\ \A i \in 1..Len(toProvider') : toProvider'[i].port \in 1..opened
          /\ \A i \in 1..Len(toProvider') :
               toProvider'[i].kind = "call" => i \in 1..Len(toProvider) /\ toProvider'[i] = toProvider[i]
      BY <2>1, <2>2, PostedType
    <2>4. /\ Table(call')
          /\ \A c \in Calls : call[c].state # "unsent" => call'[c].state # "unsent"
      BY <2>1, <2>2, RejectType
    <2>5. CallsSent'
      BY <2>3, <2>4, SentStill
    <2> QED BY <2>2, <2>3, <2>4, <2>5 DEF Typed, TypeOK, PortsKnown, Table, Pending
  <1>3. CASE HostRestart
    <2>1. /\ port \in 0..opened /\ Disconnect(port).port = port
          /\ port \in Ports => Disconnect(port) \in Event
          /\ Disconnect(port).kind # "call" /\ "gone" \in Settled
      BY EventTypes DEF Typed, TypeOK, Disconnect, Settled
    <2>2. toProvider' = Posted(toProvider, port, Disconnect(port)) /\ RejectPending("gone")
          /\ UNCHANGED <<opened, alive, incoming, running, aborts, ask>>
          /\ port' = 0 /\ toHost' = <<>> /\ serving' = [r \in Asks |-> 0]
      BY <1>3 DEF HostRestart, provider
    <2>3. /\ toProvider' \in Seq(Event)
          /\ \A i \in 1..Len(toProvider') : toProvider'[i].port \in 1..opened
          /\ \A i \in 1..Len(toProvider') :
               toProvider'[i].kind = "call" => i \in 1..Len(toProvider) /\ toProvider'[i] = toProvider[i]
      BY <2>1, <2>2, PostedType
    <2>4. /\ Table(call')
          /\ \A c \in Calls : call[c].state # "unsent" => call'[c].state # "unsent"
      BY <2>1, <2>2, RejectType
    <2>5. CallsSent'
      BY <2>3, <2>4, SentStill
    <2>6. toHost' \in Seq(Event) /\ Len(toHost') = 0
      BY <2>2
    <2> QED BY <2>2, <2>3, <2>4, <2>5, <2>6 DEF Typed, TypeOK, PortsKnown, Table, Pending
  <1> QED BY <1>1, <1>2, <1>3

LEMMA TypedSend ==
  ASSUME Typed, NEW c \in Calls, SendCmd(c) \/ AbortAccountSync(c) \/ Timeout(c)
  PROVE  Typed'
  <1> USE ChannelAssumption
  <1>1. CASE SendCmd(c) \/ AbortAccountSync(c)
    <2>1. /\ toProvider' = Posted(toProvider, port, CallEvent(c))
          /\ UNCHANGED <<port, opened, serving, toHost, alive, incoming, running, aborts, ask>>
          /\ call[c].state = "unsent"
      BY <1>1 DEF SendCmd, AbortAccountSync, DrivenBy, provider
    <2>2. /\ port \in 0..opened /\ CallEvent(c).port = port /\ CallEvent(c).id = c
          /\ port \in Ports => CallEvent(c) \in Event
      BY EventTypes DEF Typed, TypeOK, CallEvent
    <2>3. /\ toProvider' \in Seq(Event)
          /\ \A i \in 1..Len(toProvider') : toProvider'[i].port \in 1..opened
          /\ \A i \in 1..Len(toProvider') :
               (i \in 1..Len(toProvider) /\ toProvider'[i] = toProvider[i]) \/ toProvider'[i] = CallEvent(c)
      BY <2>1, <2>2, PostedType
    <2>4. PICK cmd \in Commands, a \in Accounts, fate \in Fates :
            \/ call' = [call EXCEPT ![c] = Sent(cmd, a, fate)]
            \/ call' = [Swept(a) EXCEPT ![c] = Sent(cmd, a, fate)]
      <3>1. CASE SendCmd(c)
        BY <3>1 DEF SendCmd
      <3>2. CASE AbortAccountSync(c)
        BY <3>2 DEF AbortAccountSync, Commands
      <3> QED BY <1>1, <3>1, <3>2
    <2> DEFINE t == IF call' = [call EXCEPT ![c] = Sent(cmd, a, fate)] THEN call ELSE Swept(a)
    <2>5. /\ Table(t)
          /\ \A d \in Calls : call[d].state # "unsent" => t[d].state # "unsent"
      BY <2>4, SweptType DEF Typed, TypeOK, Table, Pending
    <2>6. call' = [t EXCEPT ![c] = Sent(cmd, a, fate)]
      BY <2>4
    <2> HIDE DEF t
    <2>7. /\ Sent(cmd, a, fate) \in Call /\ Sent(cmd, a, fate).on = port
          /\ Sent(cmd, a, fate).state = fate /\ fate # "unsent"
          /\ fate = "pending" => port # 0
      BY FatesType, SentType DEF Settled
    <2>8. /\ Table(call')
          /\ \A d \in Calls : call[d].state # "unsent" => call'[d].state # "unsent"
          /\ call'[c].state # "unsent"
      <3>1. call' \in [Calls -> Call]
        BY <2>5, <2>7, <2>6 DEF Table
      <3>2. \A d \in Calls : call'[d] = IF d = c THEN Sent(cmd, a, fate) ELSE t[d]
        BY <2>5, <2>6 DEF Table
      <3>3. port # 0 => port \in 1..opened
        BY DEF Typed, TypeOK
      <3> QED BY <2>5, <2>7, <3>1, <3>2, <3>3 DEF Table
    <2>9. CallsSent'
      BY <2>2, <2>3, <2>8, SentStill
    <2> QED BY <2>1, <2>3, <2>8, <2>9 DEF Typed, TypeOK, PortsKnown, Table, Pending
  <1>2. CASE Timeout(c)
    <2>1. /\ Pending(c) /\ call' = [call EXCEPT ![c].state = "timeout"]
          /\ UNCHANGED <<port, opened, serving, toProvider, toHost, alive, incoming, running, aborts, ask>>
      BY <1>2 DEF Timeout, provider
    <2>2. [call[c] EXCEPT !.state = "timeout"] \in Call
      BY <2>1, SettledType DEF Settled
    <2>3. call[c].state # "unsent" /\ call'[c].state = "timeout"
      BY <2>1 DEF Pending, Typed, TypeOK, Call
    <2>4. /\ call' \in [Calls -> Call]
          /\ \A d \in Calls : call'[d] = IF d = c THEN [call[c] EXCEPT !.state = "timeout"] ELSE call[d]
      BY <2>1, <2>2 DEF Typed, TypeOK
    <2>5. CallsSent'
      BY <2>1, <2>3, <2>4, SentStill
    <2> QED BY <2>1, <2>3, <2>4, <2>5 DEF Typed, TypeOK, PortsKnown, Pending
  <1> QED BY <1>1, <1>2

LEMMA TypedHostReceive ==
  ASSUME Typed, HostReceive
  PROVE  Typed'
  <1> USE ChannelAssumption
  <1> DEFINE e == Head(toHost)
  <1>1. /\ toHost # <<>> /\ toHost' = Tail(toHost)
        /\ UNCHANGED <<opened, toProvider, alive, incoming, running, aborts, ask>>
    BY DEF HostReceive, provider
  <1>2. /\ e \in Event /\ toHost' \in Seq(Event)
        /\ \A i \in 1..Len(toHost') : toHost'[i].port \in 1..opened
    <2>1. \A i \in 1..Len(toHost') : i + 1 \in 1..Len(toHost)
      BY <1>1, Received DEF Typed, TypeOK
    <2> QED BY <1>1, <2>1, Received DEF Typed, TypeOK, PortsKnown
  <1>3. /\ port' \in {0, port} /\ serving' \in [Asks -> 0..MaxPorts]
        /\ Table(call')
        /\ \A c \in Calls : call[c].state # "unsent" => call'[c].state # "unsent"
    <2>1. CASE UNCHANGED <<port, call, serving>>
      BY <2>1 DEF Typed, TypeOK, Table, Pending
    <2>2. CASE /\ e.kind = "reply" /\ UNCHANGED <<port, serving>>
               /\ call' = IF Pending(e.id) THEN [call EXCEPT ![e.id].state = "answered"] ELSE call
      <3>1. e.id \in Calls
        BY <1>2, <2>2, EventKinds
      <3>2. CASE Pending(e.id)
        <4>1. [call[e.id] EXCEPT !.state = "answered"] \in Call
          BY <3>1, <3>2, SettledType DEF Settled
        <4>2. [call[e.id] EXCEPT !.state = "answered"].state = "answered"
          BY <3>1, <3>2 DEF Pending, Typed, TypeOK, Call
        <4>3. /\ call' \in [Calls -> Call]
              /\ \A d \in Calls : call'[d] = IF d = e.id THEN [call[e.id] EXCEPT !.state = "answered"]
                                             ELSE call[d]
          BY <2>2, <3>1, <3>2, <4>1 DEF Typed, TypeOK
        <4> QED BY <2>2, <4>2, <4>3 DEF Typed, TypeOK, Table, Pending
      <3> QED BY <2>2, <3>2 DEF Typed, TypeOK, Table, Pending
    <2>3. CASE /\ e.kind = "ask" /\ UNCHANGED <<port, call>>
               /\ serving' = [serving EXCEPT ![e.id] = port]
      BY <2>3 DEF Typed, TypeOK, Table, Pending
    <2>4. CASE RejectPending("closed") /\ port' = 0 /\ UNCHANGED serving
      BY <2>4, RejectType DEF Typed, TypeOK, Settled
    <2> QED BY <2>1, <2>2, <2>3, <2>4 DEF HostReceive
  <1>4. CallsSent'
    BY <1>1, <1>3, SentStill
  <1>5. port' \in 0..MaxPorts /\ opened' \in port'..MaxPorts
    BY <1>1, <1>3 DEF Typed, TypeOK
  <1> QED BY <1>1, <1>2, <1>3, <1>4, <1>5 DEF Typed, TypeOK, PortsKnown, Table, Pending

LEMMA AskType ==
  ASSUME Typed, NEW code \in Settled, RejectAllPending(code)
  PROVE  ask' \in [Asks -> Ask] /\ \A r \in Asks : ask'[r].state # "pending"
  <1>1. \A r \in Asks : [ask[r] EXCEPT !.state = code] \in Ask
                        /\ [ask[r] EXCEPT !.state = code].state = code
    BY DEF Typed, TypeOK, Ask
  <1>2. code # "pending"
    BY DEF Settled
  <1> QED BY <1>1, <1>2 DEF RejectAllPending, Asking, Typed, TypeOK

(* The dispatcher: what becomes of the controllers.                         *)
LEMMA DispatchType ==
  ASSUME Typed, NEW c \in Calls, call[c].state # "unsent", DispatchHostCmd(c)
  PROVE  /\ running' \in [Calls -> 0..MaxPorts] /\ aborts' \in [Accounts -> Controller]
         /\ running' = running \/ running' = [running EXCEPT ![c] = incoming]
         /\ UNCHANGED <<incoming, ask, toHost>>
  <1>1. call[c].account \in Accounts /\ incoming \in 0..MaxPorts
    BY ChannelAssumption DEF Typed, TypeOK, Call
  <1>2. ControllerFor(c, call[c].account) \in Controller
    BY <1>1 DEF ControllerFor, Controller, Typed, TypeOK
  <1>3. [aborts[call[c].account] EXCEPT !.aborted = TRUE] \in Controller
    BY <1>1 DEF Controller, Typed, TypeOK
  <1> QED BY <1>1, <1>2, <1>3 DEF DispatchHostCmd, Typed, TypeOK

LEMMA TypedProviderReceive ==
  ASSUME Typed, ProviderReceive
  PROVE  Typed'
  <1> USE ChannelAssumption
  <1> DEFINE e == Head(toProvider)
  <1>1. /\ toProvider # <<>> /\ toProvider' = Tail(toProvider)
        /\ UNCHANGED <<port, opened, call, serving, alive>>
    BY DEF ProviderReceive, host
  <1>2. /\ e \in Event /\ toProvider' \in Seq(Event) /\ e.port \in 1..opened
        /\ e.kind = "call" => call[e.id].state # "unsent"
        /\ \A i \in 1..Len(toProvider') :
             toProvider'[i].port \in 1..opened /\ \E j \in 1..Len(toProvider) : toProvider'[i] = toProvider[j]
    <2>1. \A i \in 1..Len(toProvider') : i + 1 \in 1..Len(toProvider)
      BY <1>1, Received DEF Typed, TypeOK
    <2>2. 1 \in 1..Len(toProvider) /\ e = toProvider[1]
      BY <1>1, Received DEF Typed, TypeOK
    <2> QED BY <1>1, <2>1, <2>2, Received DEF Typed, TypeOK, PortsKnown, CallsSent
  <1>3. CallsSent'
    BY <1>1, <1>2, SentStill
  <1>4. CASE e.kind = "connect" /\ AttachPort(e.port)
    <2>1. /\ toHost' \in Seq(Event)
          /\ \A i \in 1..Len(toHost') : toHost'[i].port \in 1..opened
      <3>1. CASE incoming = 0
        BY <1>4, <3>1 DEF AttachPort, Typed, TypeOK, PortsKnown
      <3>2. CASE incoming # 0
        <4>1. incoming \in Ports /\ incoming \in 1..opened
          BY <3>2 DEF Typed, TypeOK, Ports
        <4>2. Disconnect(incoming) \in Event /\ Disconnect(incoming).port = incoming
          BY <4>1, EventTypes DEF Disconnect
        <4>3. toHost' = Append(toHost, Disconnect(incoming))
          BY <1>4, <3>2 DEF AttachPort
        <4> QED BY <4>1, <4>2, <4>3, Appended DEF Typed, TypeOK, PortsKnown
      <3> QED BY <3>1, <3>2
    <2>2. incoming' \in 0..opened /\ UNCHANGED <<running, aborts, ask>>
      BY <1>2, <1>4 DEF AttachPort, Typed, TypeOK
    <2> QED BY <1>1, <1>2, <1>3, <2>1, <2>2 DEF Typed, TypeOK, PortsKnown, Pending
  <1>5. CASE PortDisconnected(e.port)
    <2>1. incoming' \in 0..opened /\ UNCHANGED <<running, aborts, toHost>>
      BY <1>5 DEF PortDisconnected, Typed, TypeOK
    <2>2. ask' \in [Asks -> Ask]
      BY <1>5, AskType DEF PortDisconnected, Settled
    <2> QED BY <1>1, <1>2, <1>3, <2>1, <2>2 DEF Typed, TypeOK, PortsKnown, Pending
  <1>6. CASE e.kind = "call" /\ DispatchHostCmd(e.id)
    <2>1. e.id \in Calls
      BY <1>2, <1>6, EventKinds
    <2>2. /\ running' \in [Calls -> 0..MaxPorts] /\ aborts' \in [Accounts -> Controller]
          /\ running' = running \/ running' = [running EXCEPT ![e.id] = incoming]
          /\ UNCHANGED <<incoming, ask, toHost>>
      BY <1>2, <1>6, <2>1, DispatchType
    <2>3. \A c \in Calls : running'[c] # 0 => call[c].state # "unsent"
      BY <1>2, <1>6, <2>1, <2>2 DEF Typed, TypeOK
    <2> QED BY <1>1, <1>2, <1>3, <2>2, <2>3 DEF Typed, TypeOK, PortsKnown, Pending
  <1>7. CASE /\ e.kind = "askReply" /\ UNCHANGED <<incoming, running, aborts, toHost>>
             /\ ask' = IF Asking(e.id) THEN [ask EXCEPT ![e.id].state = "answered"] ELSE ask
    <2>1. e.id \in Asks
      BY <1>2, <1>7, EventKinds
    <2>2. [ask[e.id] EXCEPT !.state = "answered"] \in Ask
      BY <2>1 DEF Typed, TypeOK, Ask, Settled
    <2>3. ask' \in [Asks -> Ask]
      BY <1>7, <2>1, <2>2 DEF Typed, TypeOK
    <2> QED BY <1>1, <1>2, <1>3, <1>7, <2>3 DEF Typed, TypeOK, PortsKnown, Pending
  <1> QED BY <1>4, <1>5, <1>6, <1>7 DEF ProviderReceive

LEMMA TypedProvider ==
  ASSUME Typed,
         \/ \E c \in Calls : Finish(c)
         \/ \E r \in Asks : Serve(r) \/ RequestSync(r)
         \/ ProviderEnds \/ ProviderStarts
  PROVE  Typed'
  <1> USE ChannelAssumption
  <1>1. ASSUME NEW c \in Calls, Finish(c) PROVE Typed'
    <2>1. /\ UNCHANGED <<port, opened, call, serving, toProvider, alive, incoming, ask>>
          /\ running[c] # 0 /\ running' = [running EXCEPT ![c] = 0]
      BY <1>1 DEF Finish, host
    <2>2. aborts' \in [Accounts -> Controller]
      BY <1>1 DEF Finish, NoController, Controller, Typed, TypeOK
    <2>3. /\ toHost' \in Seq(Event)
          /\ \A i \in 1..Len(toHost') : toHost'[i].port \in 1..opened
      <3>1. CASE running[c] = incoming
        <4> DEFINE answer == [kind |-> "reply", port |-> incoming, id |-> c]
        <4>1. incoming \in Ports /\ incoming \in 1..opened
          BY <2>1, <3>1 DEF Typed, TypeOK, Ports
        <4>2. answer \in Event /\ answer.port = incoming
          BY <4>1, EventTypes
        <4>3. toHost' = Append(toHost, answer)
          BY <1>1, <3>1 DEF Finish
        <4> HIDE DEF answer
        <4> QED BY <4>1, <4>2, <4>3, Appended DEF Typed, TypeOK, PortsKnown
      <3>2. CASE running[c] # incoming
        BY <1>1, <3>2 DEF Finish, Typed, TypeOK, PortsKnown
      <3> QED BY <3>1, <3>2
    <2>4. running' \in [Calls -> 0..MaxPorts] /\ \A d \in Calls : running'[d] # 0 => running[d] # 0
      BY <2>1 DEF Typed, TypeOK
    <2> QED BY <2>1, <2>2, <2>3, <2>4 DEF Typed, TypeOK, PortsKnown, CallsSent, Pending
  <1>2. ASSUME NEW r \in Asks, Serve(r) PROVE Typed'
    <2> DEFINE answer == [kind |-> "askReply", port |-> port, id |-> r]
    <2>1. /\ UNCHANGED <<port, opened, call, toHost, alive, incoming, running, aborts, ask>>
          /\ serving' = [serving EXCEPT ![r] = 0]
          /\ toProvider' = toProvider \/ toProvider' = Posted(toProvider, port, answer)
      BY <1>2 DEF Serve, provider
    <2>2. /\ port \in 0..opened /\ answer.port = port /\ answer.kind = "askReply"
          /\ port \in Ports => answer \in Event
      BY EventTypes DEF Typed, TypeOK
    <2> HIDE DEF answer
    <2>3. /\ toProvider' \in Seq(Event)
          /\ \A i \in 1..Len(toProvider') : toProvider'[i].port \in 1..opened
          /\ \A i \in 1..Len(toProvider') :
               (i \in 1..Len(toProvider) /\ toProvider'[i] = toProvider[i]) \/ toProvider'[i] = answer
      <3>1. CASE toProvider' = toProvider
        BY <3>1 DEF Typed, TypeOK, PortsKnown
      <3>2. CASE toProvider' = Posted(toProvider, port, answer)
        BY <2>2, <3>2, PostedType
      <3> QED BY <2>1, <3>1, <3>2
    <2>4. CallsSent'
      BY <2>1, <2>2, <2>3, SentStill
    <2> QED BY <2>1, <2>3, <2>4 DEF Typed, TypeOK, PortsKnown, Pending
  <1>3. ASSUME NEW r \in Asks, RequestSync(r) PROVE Typed'
    <2> DEFINE request == [kind |-> "ask", port |-> incoming, id |-> r]
    <2>1. /\ UNCHANGED <<port, opened, call, serving, toProvider, alive, incoming, running, aborts>>
          /\ ask' = [ask EXCEPT ![r] = [state |-> "pending", on |-> incoming]]
          /\ toHost' = Append(toHost, request) /\ incoming # 0
      BY <1>3 DEF RequestSync, host
    <2>2. incoming \in Ports /\ incoming \in 1..opened /\ incoming \in 0..MaxPorts
      BY <2>1 DEF Typed, TypeOK, Ports
    <2>3. request \in Event /\ request.port = incoming
      BY <2>2, EventTypes
    <2> HIDE DEF request
    <2>4. ask' \in [Asks -> Ask]
      BY <2>1, <2>2 DEF Ask, Typed, TypeOK
    <2> QED BY <2>1, <2>2, <2>3, <2>4, Appended DEF Typed, TypeOK, PortsKnown, CallsSent, Pending
  <1>4. CASE ProviderEnds
    <2>1. /\ UNCHANGED <<port, opened, call, serving>> /\ alive' = FALSE
          /\ toProvider' = <<>> /\ incoming' = 0
          /\ running' = [c \in Calls |-> 0] /\ aborts' = [a \in Accounts |-> NoController]
      BY <1>4 DEF ProviderEnds, host
    <2>2. ask' \in [Asks -> Ask]
      BY <1>4, AskType DEF ProviderEnds, Settled
    <2>3. /\ toHost' \in Seq(Event)
          /\ \A i \in 1..Len(toHost') : toHost'[i].port \in 1..opened
      <3>1. CASE Linked(port)
        <4>1. port \in Ports /\ port \in 1..opened
          BY <3>1 DEF Linked, Typed, TypeOK, Ports
        <4>2. Disconnect(port) \in Event /\ Disconnect(port).port = port
          BY <4>1, EventTypes DEF Disconnect
        <4>3. toHost' = Append(toHost, Disconnect(port))
          BY <1>4, <3>1 DEF ProviderEnds
        <4> QED BY <4>1, <4>2, <4>3, Appended DEF Typed, TypeOK, PortsKnown
      <3>2. CASE ~Linked(port)
        BY <1>4, <3>2 DEF ProviderEnds, Typed, TypeOK, PortsKnown
      <3> QED BY <3>1, <3>2
    <2>4. toProvider' \in Seq(Event) /\ Len(toProvider') = 0 /\ aborts' \in [Accounts -> Controller]
      BY <2>1 DEF NoController, Controller
    <2>5. CallsSent' /\ PortsKnown'
      BY <2>1, <2>3, <2>4 DEF CallsSent, PortsKnown
    <2>6. running' \in [Calls -> 0..MaxPorts] /\ \A c \in Calls : running'[c] = 0
      BY <2>1
    <2>7. alive' \in BOOLEAN /\ incoming' \in 0..opened'
      <3>1. alive' \in BOOLEAN
        BY <2>1, Zenon
      <3>2. incoming' \in 0..opened'
        BY <2>1 DEF Typed, TypeOK
      <3> QED BY <3>1, <3>2
    <2>8. UNCHANGED <<port, opened, call, serving>>
      BY <2>1
    <2>9. TypeOK'
      BY <2>2, <2>3, <2>4, <2>6, <2>7, <2>8 DEF Typed, TypeOK, Pending
    <2> QED BY <2>5, <2>9 DEF Typed
  <1>5. CASE ProviderStarts
    BY <1>5 DEF ProviderStarts, host, Typed, TypeOK, PortsKnown, CallsSent, Pending
  <1> QED BY <1>1, <1>2, <1>3, <1>4, <1>5

LEMMA TypedStep ==
  ASSUME Typed, [Next]_vars
  PROVE  Typed'
  <1>1. CASE UNCHANGED vars
    BY <1>1 DEF vars, host, provider, Typed, TypeOK, PortsKnown, CallsSent, Pending
  <1> QED BY <1>1, TypedHost, TypedSend, TypedHostReceive, TypedProviderReceive, TypedProvider DEF Next

(* Every variable keeps its type: a command that is pending, or whose       *)
(* handler runs, was sent; the port a side believes in was opened.          *)
THEOREM ChannelTyped == Spec => []TypeOK
  <1>1. Typed => TypeOK
    BY DEF Typed
  <1> QED BY <1>1, ChannelAssumption, TypedInit, TypedStep, PTL DEF Spec

(***************************************************************************)
(* Controllers                                                             *)
(***************************************************************************)

(* What a command is does not change while it is settled.                   *)
LEMMA SettlingKeeps ==
  ASSUME Typed, NEW d \in Calls, Pending(d), NEW code \in Settled
  PROVE  /\ [call[d] EXCEPT !.state = code].cmd = call[d].cmd
         /\ [call[d] EXCEPT !.state = code].account = call[d].account
         /\ [call[d] EXCEPT !.state = code].on = call[d].on
         /\ [call[d] EXCEPT !.state = code].state = code
  BY DEF Typed, TypeOK, Call, Pending

LEMMA CallsKeep ==
  ASSUME Typed, [Next]_vars, NEW c \in Calls, call[c].state # "unsent"
  PROVE  /\ call'[c].cmd = call[c].cmd /\ call'[c].account = call[c].account
         /\ call'[c].on = call[c].on
  <1> DEFINE Kept == /\ call'[c].cmd = call[c].cmd /\ call'[c].account = call[c].account
                     /\ call'[c].on = call[c].on
  <1>1. ASSUME call'[c] = call[c] PROVE Kept
    BY <1>1
  <1>2. ASSUME NEW code \in Settled, Pending(c), call'[c] = [call[c] EXCEPT !.state = code]
        PROVE  Kept
    BY <1>2, SettlingKeeps
  <1>3. ASSUME NEW code \in Settled, RejectPending(code) PROVE Kept
    BY <1>1, <1>2, <1>3 DEF RejectPending
  <1>4. CASE ClosePortToProvider \/ HostRestart
    BY <1>3, <1>4 DEF ClosePortToProvider, HostRestart, Settled
  <1>5. ASSUME NEW d \in Calls, SendCmd(d) PROVE Kept
    <2>1. call'[c] = call[c]
      BY <1>5 DEF SendCmd, DrivenBy, Typed, TypeOK
    <2> QED BY <2>1, <1>1
  <1>6. ASSUME NEW d \in Calls, AbortAccountSync(d) PROVE Kept
    <2>1. PICK a \in Accounts : call'[c] = Swept(a)[c]
      <3>1. PICK a \in Accounts, fate \in Fates :
              call' = [Swept(a) EXCEPT ![d] = Sent("CANCEL_SYNC", a, fate)]
        BY <1>6 DEF AbortAccountSync
      <3>2. d # c /\ Swept(a) \in [Calls -> Call]
        BY <1>6, SweptType DEF AbortAccountSync, Table
      <3> QED BY <3>1, <3>2
    <2>2. \/ call'[c] = call[c]
          \/ Pending(c) /\ call'[c] = [call[c] EXCEPT !.state = "cancelled"]
      BY <2>1 DEF Swept
    <2> QED BY <2>2, <1>1, <1>2 DEF Settled
  <1>7. ASSUME NEW d \in Calls, Timeout(d) PROVE Kept
    <2>1. \/ call'[c] = call[c]
          \/ Pending(c) /\ call'[c] = [call[c] EXCEPT !.state = "timeout"]
      BY <1>7 DEF Timeout, Typed, TypeOK
    <2> QED BY <2>1, <1>1, <1>2 DEF Settled
  <1>8. CASE HostReceive
    <2>1. \/ call'[c] = call[c]
          \/ Pending(c) /\ call'[c] = [call[c] EXCEPT !.state = "answered"]
          \/ RejectPending("closed")
      BY <1>8 DEF HostReceive, Typed, TypeOK
    <2> QED BY <2>1, <1>1, <1>2, <1>3 DEF Settled
  <1>9. ASSUME UNCHANGED call PROVE Kept
    BY <1>9
  <1>10. CASE OpenPortToProvider \/ ProviderReceive \/ ProviderEnds \/ ProviderStarts
              \/ UNCHANGED vars \/ (\E d \in Calls : Finish(d))
              \/ (\E r \in Asks : Serve(r) \/ RequestSync(r))
    BY <1>9, <1>10 DEF OpenPortToProvider, ProviderReceive, ProviderEnds, ProviderStarts,
       Finish, Serve, RequestSync, host, vars
  <1> QED BY <1>4, <1>5, <1>6, <1>7, <1>8, <1>10 DEF Next

LEMMA ControllersStep ==
  ASSUME Typed, ControllersOwned, [Next]_vars
  PROVE  ControllersOwned'
  <1> SUFFICES ASSUME NEW a \in Accounts, aborts'[a] # NoController
               PROVE  \E c \in Calls : /\ aborts'[a].owner = c /\ running'[c] # 0
                                       /\ call'[c].account = a /\ call'[c].cmd \in SYNC_CMDS
    BY DEF ControllersOwned
  <1> USE ChannelAssumption
  <1>1. \A c \in Calls : running[c] # 0 => call[c].state # "unsent"
    BY DEF Typed, TypeOK
  <1>2. ASSUME aborts'[a].owner = aborts[a].owner, aborts[a] # NoController,
               \A c \in Calls : running[c] # 0 /\ aborts[a].owner = c => running'[c] # 0
        PROVE  \E c \in Calls : /\ aborts'[a].owner = c /\ running'[c] # 0
                                /\ call'[c].account = a /\ call'[c].cmd \in SYNC_CMDS
    BY <1>1, <1>2, CallsKeep DEF ControllersOwned
  <1>3. CASE UNCHANGED <<running, aborts>>
    BY <1>2, <1>3
  <1>4. ASSUME NEW c \in Calls, Finish(c)
        PROVE  aborts'[a].owner = aborts[a].owner /\ aborts[a] # NoController
               /\ aborts[a].owner # c /\ running' = [running EXCEPT ![c] = 0]
    <2>1. running' = [running EXCEPT ![c] = 0] /\ aborts'[a] \in {aborts[a], NoController}
      BY <1>4 DEF Finish, Typed, TypeOK
    <2>2. aborts'[a] = aborts[a]
      BY <2>1
    <2>3. ASSUME aborts[a].owner = c PROVE FALSE
      <3>1. call[c].account = a /\ call[c].cmd \in SYNC_CMDS
        BY <2>2, <2>3 DEF ControllersOwned
      <3>2. aborts'[a] = NoController
        BY <1>4, <2>3, <3>1 DEF Finish, Typed, TypeOK
      <3> QED BY <3>2
    <2> QED BY <2>1, <2>2, <2>3
  <1>5. CASE \E c \in Calls : Finish(c)
    BY <1>2, <1>4, <1>5 DEF Typed, TypeOK
  <1>6. CASE ProviderReceive /\ ~UNCHANGED <<running, aborts>>
    <2> DEFINE c == Head(toProvider).id
    <2>1. Head(toProvider).kind = "call" /\ DispatchHostCmd(c) /\ call' = call /\ toProvider # <<>>
      BY <1>6 DEF ProviderReceive, AttachPort, PortDisconnected, host
    <2>2. c \in Calls
      BY <2>1, Received, EventKinds DEF Typed, TypeOK
    <2>3. /\ incoming # 0 /\ running' = [running EXCEPT ![c] = incoming]
          /\ \/ aborts' = [aborts EXCEPT ![call[c].account] = ControllerFor(c, call[c].account)]
                /\ call[c].cmd \in SYNC_CMDS
             \/ aborts' = [aborts EXCEPT ![call[c].account].aborted = TRUE]
                /\ aborts[call[c].account] # NoController
             \/ aborts' = aborts
      BY <1>6, <2>1 DEF DispatchHostCmd
    <2>4. \A d \in Calls : running[d] # 0 => running'[d] # 0
      BY <2>2, <2>3 DEF Typed, TypeOK
    <2>5. aborts[a] \in Controller
      BY DEF Typed, TypeOK
    <2>6. \/ aborts'[a].owner = aborts[a].owner /\ aborts[a] # NoController
          \/ /\ call[c].account = a /\ call[c].cmd \in SYNC_CMDS
             /\ aborts'[a] = [owner |-> c, aborted |-> FALSE]
      <3>1. CASE aborts'[a] = aborts[a]
        BY <3>1
      <3>2. CASE call[c].account = a /\ call[c].cmd \in SYNC_CMDS /\ aborts'[a] = ControllerFor(c, a)
        BY <3>1, <3>2 DEF ControllerFor
      <3>3. CASE aborts[a] # NoController /\ aborts'[a] = [aborts[a] EXCEPT !.aborted = TRUE]
        <4>1. [aborts[a] EXCEPT !.aborted = TRUE].owner = aborts[a].owner
          BY <2>5 DEF Controller
        <4> QED BY <3>3, <4>1
      <3>4. aborts \in [Accounts -> Controller]
        BY DEF Typed, TypeOK
      <3> HIDE DEF c
      <3> QED BY <2>3, <3>1, <3>2, <3>3, <3>4
    <2>7. running'[c] # 0
      BY <2>2, <2>3 DEF Typed, TypeOK
    <2> HIDE DEF c
    <2> QED BY <1>2, <2>1, <2>2, <2>4, <2>6, <2>7
  <1>7. CASE ProviderEnds
    BY <1>7 DEF ProviderEnds
  <1> QED BY <1>3, <1>5, <1>6, <1>7
      DEF Next, OpenPortToProvider, ClosePortToProvider, HostRestart, SendCmd, AbortAccountSync,
          Timeout, HostReceive, Serve, RequestSync, ProviderStarts, provider, vars

(* Every abort controller in the provider's map belongs to a sync command   *)
(* of that account whose handler is still running, across restarts of       *)
(* either side: #dispatchHostCmd's finally deletes what it has to.          *)
THEOREM NoStrayController == Spec => []ControllersOwned
  <1>1. Init => ControllersOwned
    BY DEF Init, ControllersOwned
  <1>2. ChannelAssumption /\ Init => Typed
    BY TypedInit
  <1> QED BY <1>1, <1>2, ChannelAssumption, TypedStep, ControllersStep, PTL DEF Spec

(***************************************************************************)
(* Ports follow one another                                                *)
(***************************************************************************)
LEMMA Longer ==
  ASSUME NEW q \in Seq(Event), NEW e \in Event, NEW now \in Nat
  PROVE  /\ Len(q) \in Nat /\ Len(Append(q, e)) = Len(q) + 1
         /\ \A k \in 0..Len(q) : PortAt(now, Append(q, e), k) = PortAt(now, q, k)
         /\ PortAt(now, Append(q, e), Len(q) + 1) = IF e.kind = "connect" THEN e.port ELSE 0
         /\ Append(q, e)[Len(q) + 1] = e
         /\ \A p, k \in Nat : \A i \in 0..Len(q) : \A m \in i..(Len(q) + 1) :
              EndsBetween(q, p, k, i) => EndsBetween(Append(q, e), p, k, m)
  <1> DEFINE r == Append(q, e)
  <1>1. /\ Len(r) = Len(q) + 1 /\ Len(q) \in Nat
        /\ \A i \in 1..Len(q) : r[i] = q[i]
        /\ r[Len(q) + 1] = e
    BY Appended
  <1> HIDE DEF r
  <1>2. \A k \in 0..Len(q) : PortAt(now, r, k) = PortAt(now, q, k)
    BY <1>1 DEF PortAt
  <1>3. PortAt(now, r, Len(q) + 1) = IF e.kind = "connect" THEN e.port ELSE 0
    BY <1>1 DEF PortAt
  <1>4. ASSUME NEW p \in Nat, NEW k \in Nat, NEW i \in 0..Len(q), NEW m \in i..(Len(q) + 1),
               EndsBetween(q, p, k, i)
        PROVE  EndsBetween(r, p, k, m)
    <2>1. PICK j \in (k + 1)..i : q[j] = Disconnect(p)
      BY <1>4 DEF EndsBetween
    <2>2. j \in 1..Len(q) /\ j \in (k + 1)..m
      BY <1>1, <1>4, <2>1
    <2> QED BY <1>1, <2>1, <2>2 DEF EndsBetween
  <1> QED BY <1>1, <1>2, <1>3, <1>4 DEF r

LEMMA PortAtNat ==
  ASSUME NEW q \in Seq(Event), NEW now \in Nat, NEW k \in 0..Len(q)
  PROVE  PortAt(now, q, k) \in Nat /\ k \in Nat
  <1>1. Len(q) \in Nat /\ \A i \in 1..Len(q) : q[i] \in Event
    OBVIOUS
  <1>2. CASE k = 0
    BY <1>2 DEF PortAt
  <1>3. CASE k # 0
    BY <1>1, <1>3, EventKinds, ChannelAssumption DEF PortAt, Ports
  <1> QED BY <1>2, <1>3

(* Something is added to what the provider is told: a new port only when    *)
(* the host has none (p), the end of a port only when the host gives it up. *)
LEMMA OrderAppend ==
  ASSUME NEW q \in Seq(Event), NEW now \in Nat, NEW p \in Nat, NEW pp \in Nat, NEW e \in Event,
         OneAfterTheOther(now, q), OthersEnd(now, q, p),
         \/ e.kind # "connect" /\ pp = p
         \/ e = Disconnect(p) /\ pp = 0
         \/ e = Connect(pp) /\ p = 0
  PROVE  OneAfterTheOther(now, Append(q, e)) /\ OthersEnd(now, Append(q, e), pp)
  <1> DEFINE r == Append(q, e)
  <1>1. PICK n : n = Len(q)
    OBVIOUS
  <1>2. /\ n \in Nat /\ Len(r) = n + 1
        /\ \A k \in 0..n : PortAt(now, r, k) = PortAt(now, q, k)
        /\ PortAt(now, r, n + 1) = IF e.kind = "connect" THEN e.port ELSE 0
        /\ r[n + 1] = e
        /\ \A s, k \in Nat : \A i \in 0..n : \A m \in i..(n + 1) :
             EndsBetween(q, s, k, i) => EndsBetween(r, s, k, m)
    BY <1>1, Longer
  <1> HIDE DEF r
  <1>3. e.kind = "connect" => p = 0 /\ PortAt(now, r, n + 1) = pp
    BY <1>2 DEF Connect, Disconnect
  <1>4. \A k \in 0..n : PortAt(now, q, k) \in Nat /\ k \in Nat
    BY <1>1, PortAtNat
  <1>5. ASSUME NEW k \in 0..n, PortAt(now, q, k) \notin {0, pp}
        PROVE  EndsBetween(r, PortAt(now, q, k), k, n + 1)
    <2>1. CASE PortAt(now, q, k) # p
      <3>1. EndsBetween(q, PortAt(now, q, k), k, n)
        BY <1>1, <1>5, <2>1 DEF OthersEnd
      <3>2. n \in 0..n /\ n + 1 \in n..(n + 1)
        BY <1>2
      <3> QED BY <1>2, <1>4, <3>1, <3>2
    <2>2. CASE PortAt(now, q, k) = p
      <3>1. r[n + 1] = Disconnect(PortAt(now, q, k))
        BY <1>2, <1>5, <2>2
      <3>2. n + 1 \in (k + 1)..(n + 1)
        BY <1>2
      <3> QED BY <3>1, <3>2 DEF EndsBetween
    <2> QED BY <2>1, <2>2
  <1>6. OthersEnd(now, r, pp)
    <2> SUFFICES ASSUME NEW k \in 0..(n + 1), PortAt(now, r, k) \notin {0, pp}
                 PROVE  EndsBetween(r, PortAt(now, r, k), k, n + 1)
      BY <1>2 DEF OthersEnd
    <2>1. k # n + 1
      BY <1>2, <1>3
    <2>2. k \in 0..n
      BY <1>2, <2>1
    <2> QED BY <1>2, <1>5, <2>2
  <1>7. OneAfterTheOther(now, r)
    <2> SUFFICES ASSUME NEW k \in 0..(n + 1), NEW i \in (k + 1)..(n + 1),
                        PortAt(now, r, k) # 0, PortAt(now, r, i) # 0
                 PROVE  EndsBetween(r, PortAt(now, r, k), k, i - 1)
      BY <1>2 DEF OneAfterTheOther
    <2>1. k \in 0..n /\ PortAt(now, r, k) = PortAt(now, q, k)
      BY <1>2
    <2>2. EndsBetween(q, PortAt(now, q, k), k, i - 1)
      <3>1. CASE i = n + 1
        <4>1. PortAt(now, q, k) \notin {0, p} /\ i - 1 = n
          BY <1>2, <1>3, <2>1, <3>1
        <4> QED BY <1>1, <2>1, <4>1 DEF OthersEnd
      <3>2. CASE i # n + 1
        <4>1. i \in (k + 1)..n /\ i \in 0..n
          BY <1>2, <2>1, <3>2
        <4> QED BY <1>1, <1>2, <2>1, <4>1 DEF OneAfterTheOther
      <3> QED BY <3>1, <3>2
    <2>3. i - 1 \in 0..n /\ i - 1 \in (i - 1)..(n + 1)
      BY <1>2
    <2> QED BY <1>2, <1>4, <2>1, <2>2, <2>3
  <1> QED BY <1>6, <1>7 DEF r

(* The head is received: place k + 1 becomes place k.                       *)
LEMMA OrderTail ==
  ASSUME NEW q \in Seq(Event), q # <<>>, NEW now \in Nat, NEW then \in Nat, NEW p \in Nat,
         OneAfterTheOther(now, q), OthersEnd(now, q, p),
         then = IF Head(q).kind = "connect" THEN Head(q).port
                ELSE IF Head(q) = Disconnect(now) THEN 0 ELSE now
  PROVE  OneAfterTheOther(then, Tail(q)) /\ OthersEnd(then, Tail(q), p)
  <1> DEFINE r == Tail(q)
  <1>1. PICK n : n = Len(r)
    OBVIOUS
  <1>2. /\ n \in Nat /\ Len(q) = n + 1 /\ r \in Seq(Event) /\ Len(r) = n
        /\ \A i \in 1..n : r[i] = q[i + 1]
        /\ Head(q) = q[1]
    BY <1>1, Received
  <1> HIDE DEF r
  <1>3. \A k \in 1..n : PortAt(then, r, k) = PortAt(now, q, k + 1)
    BY <1>2 DEF PortAt
  <1>4. PortAt(then, r, 0) = then /\ PortAt(now, q, 0) = now
        /\ PortAt(now, q, 1) = IF q[1].kind = "connect" THEN q[1].port ELSE 0
    BY DEF PortAt
  (* An end that lies ahead of the new place k, seen from the old one.      *)
  <1>5. ASSUME NEW k \in 0..n, NEW i \in k..n, PortAt(then, r, k) # 0,
               \A h \in 0..(k + 1) : PortAt(now, q, h) = PortAt(then, r, k)
                 => EndsBetween(q, PortAt(then, r, k), h, i + 1)
        PROVE  EndsBetween(r, PortAt(then, r, k), k, i)
    <2> DEFINE s == PortAt(then, r, k)
    <2>1. PICK j \in (k + 2)..(i + 1) : q[j] = Disconnect(s)
      <3>1. CASE k # 0 \/ Head(q).kind = "connect"
        <4>1. PortAt(now, q, k + 1) = s
          BY <1>2, <1>3, <1>4, <3>1
        <4>2. k + 1 \in 0..(k + 1)
          BY <1>2
        <4>3. EndsBetween(q, s, k + 1, i + 1)
          BY <1>5, <4>1, <4>2
        <4>4. (k + 1) + 1 = k + 2
          BY <1>2
        <4> QED BY <4>3, <4>4 DEF EndsBetween
      <3>2. CASE k = 0 /\ Head(q).kind # "connect"
        <4>1. s = now /\ Head(q) # Disconnect(now)
          BY <1>4, <1>5, <3>2
        <4>2. EndsBetween(q, s, 0, i + 1)
          BY <1>2, <1>4, <1>5, <3>2, <4>1
        <4>3. PICK j \in 1..(i + 1) : q[j] = Disconnect(s)
          BY <4>2 DEF EndsBetween
        <4>4. j # 1
          BY <1>2, <4>1, <4>3
        <4>5. j \in (k + 2)..(i + 1)
          BY <3>2, <4>3, <4>4
        <4> QED BY <4>3, <4>5
      <3> QED BY <3>1, <3>2
    <2>2. j - 1 \in (k + 1)..i /\ j - 1 \in 1..n /\ (j - 1) + 1 = j
      BY <1>2, <2>1
    <2>3. r[j - 1] = Disconnect(s)
      BY <1>2, <2>1, <2>2
    <2> QED BY <2>2, <2>3 DEF EndsBetween
  <1>6. OthersEnd(then, r, p)
    <2> SUFFICES ASSUME NEW k \in 0..n, PortAt(then, r, k) \notin {0, p}
                 PROVE  EndsBetween(r, PortAt(then, r, k), k, n)
      BY <1>2 DEF OthersEnd
    <2>1. \A h \in 0..(k + 1) : PortAt(now, q, h) = PortAt(then, r, k)
            => EndsBetween(q, PortAt(then, r, k), h, n + 1)
      BY <1>2 DEF OthersEnd
    <2>2. n \in k..n
      BY <1>2
    <2> QED BY <1>5, <2>1, <2>2
  <1>7. OneAfterTheOther(then, r)
    <2> SUFFICES ASSUME NEW k \in 0..n, NEW i \in (k + 1)..n,
                        PortAt(then, r, k) # 0, PortAt(then, r, i) # 0
                 PROVE  EndsBetween(r, PortAt(then, r, k), k, i - 1)
      BY <1>2 DEF OneAfterTheOther
    <2>1. PortAt(now, q, i + 1) # 0 /\ i + 1 \in 1..Len(q)
      BY <1>2, <1>3
    <2>2. \A h \in 0..(k + 1) : PortAt(now, q, h) = PortAt(then, r, k)
            => EndsBetween(q, PortAt(then, r, k), h, (i - 1) + 1)
      <3> SUFFICES ASSUME NEW h \in 0..(k + 1), PortAt(now, q, h) = PortAt(then, r, k)
                   PROVE  EndsBetween(q, PortAt(now, q, h), h, (i - 1) + 1)
        OBVIOUS
      <3>1. h \in 0..Len(q) /\ i + 1 \in (h + 1)..Len(q) /\ (i + 1) - 1 = (i - 1) + 1
        BY <1>2
      <3> QED BY <2>1, <3>1 DEF OneAfterTheOther
    <2>3. i - 1 \in k..n
      BY <1>2
    <2> QED BY <1>5, <2>2, <2>3
  <1> QED BY <1>6, <1>7 DEF r

LEMMA Ranges ==
  ASSUME Typed
  PROVE  /\ toProvider \in Seq(Event) /\ toHost \in Seq(Event)
         /\ opened \in Nat /\ incoming \in 0..opened /\ port \in 0..opened
         /\ incoming \in Nat /\ port \in Nat /\ opened + 1 \in Nat
         /\ port \in 0..MaxPorts /\ incoming \in 0..MaxPorts
  BY ChannelAssumption DEF Typed, TypeOK

(* A port the provider has, or is on its way to it, is linked; and so what  *)
(* is not linked is not among them.                                         *)
LEMMA PortAtLinked ==
  ASSUME Typed, NEW k \in 0..Len(toProvider), PortAt(incoming, toProvider, k) # 0
  PROVE  Linked(PortAt(incoming, toProvider, k))
  <1>1. CASE k = 0
    BY <1>1 DEF PortAt, Linked
  <1>2. CASE k # 0
    <2>1. k \in 1..Len(toProvider) /\ toProvider[k] \in Event
      BY <1>2, Ranges
    <2>2. toProvider[k] = Connect(PortAt(incoming, toProvider, k))
      BY <1>2, <2>1, EventKinds DEF PortAt
    <2> QED BY <2>1, <2>2 DEF Linked, In
  <1> QED BY <1>1, <1>2

(* The host gives up a port whose other end is gone.                        *)
LEMMA OrderUnlinked ==
  ASSUME Typed, OthersEnd(incoming, toProvider, port), ~Linked(port)
  PROVE  OthersEnd(incoming, toProvider, 0)
  BY PortAtLinked DEF OthersEnd

(* What is posted with the ports as they are, and the end of the host's.    *)
LEMMA OrderPosted ==
  ASSUME Typed, OneAfterTheOther(incoming, toProvider), OthersEnd(incoming, toProvider, port),
         NEW e, port \in Ports => e \in Event, NEW pp \in Nat,
         (e.kind # "connect" /\ pp = port) \/ (e = Disconnect(port) /\ pp = 0)
  PROVE  /\ OneAfterTheOther(incoming, Posted(toProvider, port, e))
         /\ OthersEnd(incoming, Posted(toProvider, port, e), pp)
  <1>1. CASE Linked(port)
    BY <1>1, Ranges, LinkedPort, OrderAppend DEF Posted
  <1>2. CASE ~Linked(port)
    BY <1>2, OrderUnlinked DEF Posted
  <1> QED BY <1>1, <1>2

(* What becomes linked is a new port.                                       *)
LEMMA LinkedAppend ==
  ASSUME Typed, NEW p \in Ports, NEW e \in Event, incoming' = incoming,
         toProvider' = Append(toProvider, e), Linked(p)'
  PROVE  Linked(p) \/ e = Connect(p)
  <1>1. CASE incoming' = p
    BY <1>1 DEF Linked, Ports
  <1>2. CASE incoming' # p
    <2>1. PICK i \in 1..Len(toProvider') : toProvider'[i] = Connect(p)
      BY <1>2 DEF Linked, In, Connect
    <2>2. (i \in 1..Len(toProvider) /\ toProvider'[i] = toProvider[i]) \/ toProvider'[i] = e
      BY Ranges, Appended
    <2> QED BY <2>1, <2>2 DEF Linked, In, Ports
  <1> QED BY <1>1, <1>2

LEMMA LinkedPosted ==
  ASSUME Typed, NEW p \in Ports, NEW e, port \in Ports => e \in Event, e.kind # "connect",
         incoming' = incoming, toProvider' = Posted(toProvider, port, e), Linked(p)'
  PROVE  Linked(p)
  <1>1. CASE Linked(port)
    <2>1. e \in Event /\ toProvider' = Append(toProvider, e)
      BY <1>1, Ranges, LinkedPort DEF Posted
    <2> QED BY <2>1, LinkedAppend DEF Connect
  <1>2. CASE ~Linked(port)
    BY <1>2 DEF Posted, Linked, In, Connect
  <1> QED BY <1>1, <1>2

LEMMA LinkedTail ==
  ASSUME Typed, NEW p \in Ports, toProvider # <<>>, toProvider' = Tail(toProvider),
         \/ incoming' \in {incoming, 0}
         \/ Head(toProvider) = Connect(incoming'),
         Linked(p)'
  PROVE  Linked(p)
  <1>1. CASE incoming' = p
    <2>1. CASE incoming' = incoming
      BY <1>1, <2>1 DEF Linked, Ports
    <2>2. CASE Head(toProvider) = Connect(incoming')
      <3>1. 1 \in 1..Len(toProvider) /\ toProvider[1] = Connect(p)
        BY <1>1, <2>2, Ranges, Received
      <3> QED BY <3>1 DEF Linked, In, Ports
    <2>3. incoming' # 0
      BY <1>1 DEF Ports
    <2> QED BY <2>1, <2>2, <2>3
  <1>2. CASE incoming' # p
    <2>1. PICK i \in 1..Len(toProvider') : toProvider'[i] = Connect(p)
      BY <1>2 DEF Linked, In, Connect
    <2>2. i + 1 \in 1..Len(toProvider) /\ toProvider'[i] = toProvider[i + 1]
      BY Ranges, Received
    <2> QED BY <2>1, <2>2 DEF Linked, In, Ports
  <1> QED BY <1>1, <1>2

(* The provider is given a port only when it has none.                      *)
LEMMA AttachedWhenFree ==
  ASSUME Typed, OneAfterTheOther(incoming, toProvider), toProvider # <<>>,
         Head(toProvider).kind = "connect"
  PROVE  incoming = 0
  <1>1. /\ 0 \in 0..Len(toProvider) /\ 1 \in (0 + 1)..Len(toProvider)
        /\ toProvider[1] = Head(toProvider) /\ Head(toProvider) \in Event
    BY Ranges, Received
  <1>2. PortAt(incoming, toProvider, 1) # 0 /\ PortAt(incoming, toProvider, 0) = incoming
    BY <1>1, EventKinds DEF PortAt, Ports
  <1>3. ~EndsBetween(toProvider, incoming, 0, 1 - 1)
    BY DEF EndsBetween
  <1> QED BY <1>1, <1>2, <1>3 DEF OneAfterTheOther

LEMMA HeardAppend ==
  ASSUME Typed, NEW p \in Ports, NEW e \in Event, toHost' = Append(toHost, e),
         In(toHost', Disconnect(p))
  PROVE  In(toHost, Disconnect(p)) \/ e = Disconnect(p)
  <1>1. PICK i \in 1..Len(toHost') : toHost'[i] = Disconnect(p)
    BY DEF In
  <1>2. (i \in 1..Len(toHost) /\ toHost'[i] = toHost[i]) \/ toHost'[i] = e
    BY Ranges, Appended
  <1> QED BY <1>1, <1>2 DEF In

LEMMA HeardTail ==
  ASSUME Typed, NEW p \in Ports, toHost # <<>>, toHost' = Tail(toHost), In(toHost', Disconnect(p))
  PROVE  In(toHost, Disconnect(p))
  <1>1. PICK i \in 1..Len(toHost') : toHost'[i] = Disconnect(p)
    BY DEF In
  <1>2. i + 1 \in 1..Len(toHost) /\ toHost'[i] = toHost[i + 1]
    BY Ranges, Received
  <1> QED BY <1>1, <1>2 DEF In

LEMMA EndsKept ==
  ASSUME EndsAreReal,
         \A p \in Ports : Linked(p)' => Linked(p),
         \A p \in Ports : In(toHost', Disconnect(p)) => In(toHost, Disconnect(p))
  PROVE  EndsAreReal'
  BY DEF EndsAreReal, Disconnect, In

LEMMA LinkedSame ==
  ASSUME UNCHANGED <<toProvider, incoming>>, NEW p, Linked(p)'
  PROVE  Linked(p)
  BY DEF Linked, In, Connect

LEMMA OrderOpened ==
  ASSUME Typed, PortsInOrder, OpenPortToProvider
  PROVE  PortsInOrder'
  <1> DEFINE new == opened + 1
  <1>1. /\ new \in Ports /\ new \in Nat /\ port' = new /\ port = 0 /\ incoming' = incoming
        /\ Connect(new) \in Event /\ Disconnect(new) \in Event
    BY EventTypes, Ranges, ChannelAssumption DEF OpenPortToProvider, Ports, provider
  <1>2. ~Linked(new)
    <2>1. incoming # new
      BY Ranges
    <2>2. ASSUME NEW i \in 1..Len(toProvider), toProvider[i] = Connect(new) PROVE FALSE
      <3>1. toProvider[i].port \in 1..opened
        BY DEF Typed, PortsKnown
      <3> QED BY <2>2, <3>1, Ranges DEF Connect
    <2> QED BY <2>1, <2>2 DEF Linked, In
  <1>3. ~In(toHost, Disconnect(new))
    <2> SUFFICES ASSUME NEW i \in 1..Len(toHost), toHost[i] = Disconnect(new) PROVE FALSE
      BY DEF In
    <2>1. toHost[i].port \in 1..opened
      BY DEF Typed, PortsKnown
    <2> QED BY <2>1, Ranges DEF Disconnect
  <1> HIDE DEF new
  <1>4. CASE alive
    <2>1. toProvider' = Append(toProvider, Connect(new)) /\ toHost' = toHost
      BY <1>4 DEF OpenPortToProvider, new
    <2>2. OneAfterTheOther(incoming', toProvider') /\ OthersEnd(incoming', toProvider', port')
      BY <1>1, <2>1, Ranges, OrderAppend DEF PortsInOrder
    <2>3. ASSUME NEW p \in Ports, In(toHost', Disconnect(p)) PROVE ~Linked(p)'
      <3>1. ~Linked(p) /\ p # new
        BY <1>3, <2>1, <2>3 DEF PortsInOrder, EndsAreReal
      <3>2. Connect(new) # Connect(p)
        BY <3>1 DEF Connect
      <3> QED BY <1>1, <2>1, <3>1, <3>2, LinkedAppend
    <2> QED BY <2>2, <2>3 DEF PortsInOrder, EndsAreReal, Disconnect, In
  <1>5. CASE ~alive
    <2>1. toHost' = Append(toHost, Disconnect(new)) /\ toProvider' = toProvider
      BY <1>5 DEF OpenPortToProvider, new
    <2>2. OneAfterTheOther(incoming', toProvider') /\ OthersEnd(incoming', toProvider', port')
      BY <1>1, <2>1 DEF PortsInOrder, OthersEnd, OneAfterTheOther
    <2>3. ASSUME NEW p \in Ports, In(toHost', Disconnect(p)) PROVE ~Linked(p)'
      <3>1. In(toHost, Disconnect(p)) \/ p = new
        BY <1>1, <2>1, <2>3, HeardAppend DEF Disconnect
      <3>2. ~Linked(p)
        BY <1>2, <3>1 DEF PortsInOrder, EndsAreReal
      <3> QED BY <1>1, <2>1, <3>2, LinkedSame
    <2> QED BY <2>2, <2>3 DEF PortsInOrder, EndsAreReal, Disconnect, In
  <1> QED BY <1>4, <1>5

(* The host posts something, the end of its port included.                  *)
LEMMA OrderHostPosts ==
  ASSUME Typed, PortsInOrder, NEW e, port \in Ports => e \in Event, incoming' = incoming,
         toProvider' = Posted(toProvider, port, e), toHost' \in {toHost, <<>>},
         (e.kind # "connect" /\ port' = port) \/ (e = Disconnect(port) /\ port' = 0)
  PROVE  PortsInOrder'
  <1>1. e.kind # "connect" /\ port' \in Nat
    BY Ranges DEF Disconnect
  <1>2. OneAfterTheOther(incoming', toProvider') /\ OthersEnd(incoming', toProvider', port')
    BY <1>1, OrderPosted DEF PortsInOrder
  <1>3. \A p \in Ports : Linked(p)' => Linked(p)
    BY <1>1, LinkedPosted
  <1>4. \A p \in Ports : In(toHost', Disconnect(p)) => In(toHost, Disconnect(p))
    BY DEF In
  <1> QED BY <1>2, <1>3, <1>4, EndsKept DEF PortsInOrder

LEMMA OrderHost ==
  ASSUME Typed, PortsInOrder,
         \/ ClosePortToProvider \/ HostRestart
         \/ \E c \in Calls : SendCmd(c) \/ AbortAccountSync(c)
         \/ \E r \in Asks : Serve(r)
  PROVE  PortsInOrder'
  <1>1. CASE ClosePortToProvider \/ HostRestart
    <2>1. /\ toProvider' = Posted(toProvider, port, Disconnect(port)) /\ port' = 0
          /\ incoming' = incoming /\ toHost' \in {toHost, <<>>}
      BY <1>1 DEF ClosePortToProvider, HostRestart, provider
    <2>2. port \in Ports => Disconnect(port) \in Event
      BY EventTypes
    <2> QED BY <2>1, <2>2, OrderHostPosts
  <1>2. ASSUME NEW c \in Calls, SendCmd(c) \/ AbortAccountSync(c) PROVE PortsInOrder'
    <2>1. /\ toProvider' = Posted(toProvider, port, CallEvent(c)) /\ port' = port
          /\ incoming' = incoming /\ toHost' = toHost
      BY <1>2 DEF SendCmd, AbortAccountSync, provider
    <2>2. (port \in Ports => CallEvent(c) \in Event) /\ CallEvent(c).kind = "call"
      BY EventTypes DEF CallEvent
    <2> QED BY <2>1, <2>2, OrderHostPosts
  <1>3. ASSUME NEW r \in Asks, Serve(r) PROVE PortsInOrder'
    <2> DEFINE answer == [kind |-> "askReply", port |-> port, id |-> r]
    <2>1. /\ port' = port /\ incoming' = incoming /\ toHost' = toHost
          /\ toProvider' = toProvider \/ toProvider' = Posted(toProvider, port, answer)
      BY <1>3 DEF Serve, provider
    <2>2. (port \in Ports => answer \in Event) /\ answer.kind = "askReply"
      BY EventTypes
    <2> HIDE DEF answer
    <2>3. CASE toProvider' = toProvider
      BY <2>1, <2>3 DEF PortsInOrder, EndsAreReal, OneAfterTheOther, OthersEnd, Linked, In,
         Connect, Disconnect
    <2> QED BY <2>1, <2>2, <2>3, OrderHostPosts
  <1> QED BY <1>1, <1>2, <1>3

LEMMA OrderHostReceive ==
  ASSUME Typed, PortsInOrder, HostReceive
  PROVE  /\ PortsInOrder'
         /\ port' = port \/ (port' = 0 /\ RejectPending("closed"))
  <1> DEFINE e == Head(toHost)
  <1>1. /\ toHost # <<>> /\ toHost' = Tail(toHost) /\ UNCHANGED <<toProvider, incoming>>
        /\ port' = port \/ (port' = 0 /\ RejectPending("closed")
                            /\ e.kind = "disconnect" /\ e.port = port)
    BY DEF HostReceive, provider
  <1>2. e \in Event /\ 1 \in 1..Len(toHost) /\ e = toHost[1]
    BY <1>1, Ranges, Received
  <1>3. port' = port \/ (~Linked(port) /\ port' = 0)
    <2>1. ASSUME e.kind = "disconnect", e.port = port PROVE ~Linked(port)
      <3>1. e = Disconnect(port) /\ port \in Ports
        BY <1>2, <2>1, EventKinds
      <3> QED BY <1>2, <3>1 DEF PortsInOrder, EndsAreReal, In
    <2> QED BY <1>1, <2>1
  <1>4. OneAfterTheOther(incoming', toProvider') /\ OthersEnd(incoming', toProvider', port')
    BY <1>1, <1>3, OrderUnlinked DEF PortsInOrder
  <1>5. EndsAreReal'
    BY <1>1, HeardTail, LinkedSame, EndsKept DEF PortsInOrder
  <1> QED BY <1>1, <1>4, <1>5 DEF PortsInOrder

(* What the provider does with the next thing it is told.                   *)
LEMMA Hears ==
  ASSUME Typed, PortsInOrder, ProviderReceive, NEW e, e = Head(toProvider)
  PROVE  /\ toProvider # <<>> /\ toProvider' = Tail(toProvider)
         /\ e \in Event /\ toHost' = toHost /\ UNCHANGED host
         /\ e.kind \in {"connect", "disconnect", "call", "askReply"}
         /\ e.kind = "connect" => incoming = 0
         /\ incoming' = IF e.kind = "connect" THEN e.port
                        ELSE IF e = Disconnect(incoming) THEN 0 ELSE incoming
         /\ incoming' \in {incoming, 0} \/ e = Connect(incoming')
         /\ incoming' \in Nat
         /\ e.kind = "call" => DispatchHostCmd(e.id)
         /\ e.kind # "call" => UNCHANGED <<running, aborts>>
         /\ e.kind = "disconnect" => RejectAllPending("closed")
         /\ e.kind \in {"connect", "call"} => ask' = ask
  <1>1. /\ toProvider # <<>> /\ toProvider' = Tail(toProvider) /\ UNCHANGED host
    BY DEF ProviderReceive
  <1>2. e \in Event
    BY <1>1, Ranges, Received
  <1>3. e.kind = "connect" => incoming = 0
    BY <1>1, AttachedWhenFree DEF PortsInOrder
  <1>4. e.kind = "disconnect" => e = Disconnect(e.port) /\ e.port # 0
    BY <1>2, EventKinds DEF Ports
  <1>5. /\ incoming' = IF e.kind = "connect" THEN e.port
                       ELSE IF e = Disconnect(incoming) THEN 0 ELSE incoming
        /\ toHost' = toHost
        /\ e.kind \in {"connect", "disconnect", "call", "askReply"}
        /\ e.kind = "call" => DispatchHostCmd(e.id)
        /\ e.kind # "call" => UNCHANGED <<running, aborts>>
        /\ e.kind = "disconnect" => RejectAllPending("closed")
        /\ e.kind \in {"connect", "call"} => ask' = ask
    <2>1. CASE e.kind = "connect"
      BY <1>3, <2>1 DEF ProviderReceive, AttachPort
    <2>2. CASE e.kind = "disconnect"
      <3>1. e = Disconnect(incoming) <=> e.port = incoming
        BY <1>4, <2>2 DEF Disconnect
      <3> QED BY <2>2, <3>1 DEF ProviderReceive, PortDisconnected
    <2>3. CASE e.kind = "call"
      <3>1. DispatchHostCmd(e.id)
        BY <2>3 DEF ProviderReceive
      <3>2. UNCHANGED <<incoming, ask, toHost>>
        BY <3>1 DEF DispatchHostCmd
      <3>3. e # Disconnect(incoming)
        BY <2>3 DEF Disconnect
      <3> QED BY <2>3, <3>1, <3>2, <3>3
    <2>4. CASE e.kind = "askReply"
      <3>1. UNCHANGED <<incoming, running, aborts, toHost>>
        BY <2>4 DEF ProviderReceive
      <3>2. e # Disconnect(incoming)
        BY <2>4 DEF Disconnect
      <3> QED BY <2>4, <3>1, <3>2
    <2>5. e.kind \in {"connect", "disconnect", "call", "askReply"}
      BY DEF ProviderReceive
    <2> QED BY <2>1, <2>2, <2>3, <2>4, <2>5
  <1>6. incoming' \in Nat
    BY <1>2, <1>5, EventKinds, Ranges, ChannelAssumption DEF Ports
  <1>7. incoming' \in {incoming, 0} \/ e = Connect(incoming')
    BY <1>2, <1>5, EventKinds
  <1> QED BY <1>1, <1>2, <1>3, <1>5, <1>6, <1>7

LEMMA OrderProviderReceive ==
  ASSUME Typed, PortsInOrder, ProviderReceive
  PROVE  PortsInOrder'
  <1>1. PICK e : e = Head(toProvider)
    OBVIOUS
  <1>2. port' = port
    BY <1>1, Hears DEF host
  <1>3. OneAfterTheOther(incoming', toProvider') /\ OthersEnd(incoming', toProvider', port')
    BY <1>1, <1>2, Hears, Ranges, OrderTail DEF PortsInOrder
  <1>4. EndsAreReal'
    BY <1>1, Hears, LinkedTail, EndsKept DEF PortsInOrder
  <1> QED BY <1>3, <1>4 DEF PortsInOrder

LEMMA OrderProvider ==
  ASSUME Typed, PortsInOrder,
         \/ \E c \in Calls : Finish(c)
         \/ \E r \in Asks : RequestSync(r)
         \/ ProviderEnds
  PROVE  PortsInOrder'
  <1>1. ASSUME NEW e \in Event, e.kind # "disconnect", UNCHANGED <<toProvider, incoming, port>>,
               toHost' \in {toHost, Append(toHost, e)}
        PROVE  PortsInOrder'
    <2>1. OneAfterTheOther(incoming', toProvider') /\ OthersEnd(incoming', toProvider', port')
      BY <1>1 DEF PortsInOrder
    <2>2. \A p \in Ports : In(toHost', Disconnect(p)) => In(toHost, Disconnect(p))
      <3>1. \A p \in Ports : e # Disconnect(p)
        BY <1>1 DEF Disconnect
      <3>2. CASE toHost' = Append(toHost, e)
        BY <3>1, <3>2, HeardAppend
      <3> QED BY <1>1, <3>2
    <2> QED BY <1>1, <2>1, <2>2, LinkedSame, EndsKept DEF PortsInOrder
  <1>2. ASSUME NEW c \in Calls, Finish(c) PROVE PortsInOrder'
    <2> DEFINE answer == [kind |-> "reply", port |-> incoming, id |-> c]
    <2>1. UNCHANGED <<toProvider, incoming, port>> /\ toHost' \in {toHost, Append(toHost, answer)}
      BY <1>2 DEF Finish, host
    <2>2. CASE toHost' = toHost
      BY <2>1, <2>2 DEF PortsInOrder, EndsAreReal, OneAfterTheOther, OthersEnd, Linked, In,
         Connect, Disconnect
    <2>3. CASE toHost' # toHost
      <3>1. running[c] = incoming /\ running[c] # 0
        BY <1>2, <2>3 DEF Finish
      <3>2. incoming \in Ports
        BY <3>1, Ranges DEF Ports
      <3>3. answer \in Event /\ answer.kind = "reply"
        BY <3>2, EventTypes
      <3> QED BY <1>1, <2>1, <3>3
    <2> QED BY <2>2, <2>3
  <1>3. ASSUME NEW r \in Asks, RequestSync(r) PROVE PortsInOrder'
    <2> DEFINE request == [kind |-> "ask", port |-> incoming, id |-> r]
    <2>1. UNCHANGED <<toProvider, incoming, port>> /\ toHost' = Append(toHost, request)
          /\ incoming # 0
      BY <1>3 DEF RequestSync, host
    <2>2. incoming \in Ports
      BY <2>1, Ranges DEF Ports
    <2>3. request \in Event /\ request.kind = "ask"
      BY <2>2, EventTypes
    <2> QED BY <1>1, <2>1, <2>3
  <1>4. CASE ProviderEnds
    <2>1. toProvider' = <<>> /\ incoming' = 0 /\ Len(<<>>) = 0
      BY <1>4 DEF ProviderEnds
    <2>2. OneAfterTheOther(0, <<>>) /\ OthersEnd(0, <<>>, port')
      BY DEF OneAfterTheOther, OthersEnd, PortAt
    <2>3. \A p \in Ports : ~Linked(p)'
      BY <2>1 DEF Linked, In, Connect, Ports
    <2> QED BY <2>1, <2>2, <2>3 DEF PortsInOrder, EndsAreReal
  <1> QED BY <1>2, <1>3, <1>4

LEMMA OrderStep ==
  ASSUME Typed, PortsInOrder, [Next]_vars
  PROVE  PortsInOrder'
  <1>1. CASE UNCHANGED <<toProvider, incoming, port, toHost>>
    BY <1>1 DEF PortsInOrder, EndsAreReal, OneAfterTheOther, OthersEnd, Linked, In,
       Connect, Disconnect
  <1>2. CASE ProviderStarts \/ UNCHANGED vars \/ \E c \in Calls : Timeout(c)
    BY <1>1, <1>2 DEF ProviderStarts, Timeout, host, provider, vars
  <1> QED BY <1>2, OrderOpened, OrderHost, OrderHostReceive, OrderProviderReceive, OrderProvider
      DEF Next

(***************************************************************************)
(* What is pending                                                         *)
(***************************************************************************)

(* A step adds to what is pending only a command sent on the host's port.   *)
LEMMA PendingCalls ==
  ASSUME Typed, PortsInOrder, [Next]_vars, NEW c \in Calls, call'[c].state = "pending"
  PROVE  \/ Pending(c) /\ call'[c] = call[c] /\ port' = port
         \/ Pending(c) /\ call'[c] = call[c] /\ port = 0
         \/ call'[c].on = port /\ port # 0 /\ port' = port
  <1> DEFINE Stays == Pending(c) /\ call'[c] = call[c]
  <1>1. ASSUME NEW code \in Settled, RejectPending(code) PROVE FALSE
    BY <1>1, RejectType
  <1>2. CASE ClosePortToProvider \/ HostRestart
    BY <1>1, <1>2 DEF ClosePortToProvider, HostRestart, Settled
  <1>3. ASSUME NEW d \in Calls, SendCmd(d) \/ AbortAccountSync(d)
        PROVE  port' = port /\ (Stays \/ (call'[c].on = port /\ port # 0))
    <2>1. PICK cmd \in Commands, a \in Accounts, fate \in Fates :
            \/ call' = [call EXCEPT ![d] = Sent(cmd, a, fate)]
            \/ call' = [Swept(a) EXCEPT ![d] = Sent(cmd, a, fate)]
      <3>1. CASE SendCmd(d)
        BY <3>1, ChannelAssumption DEF SendCmd
      <3>2. CASE AbortAccountSync(d)
        BY <3>2 DEF AbortAccountSync, Commands
      <3> QED BY <1>3, <3>1, <3>2
    <2>2. /\ Sent(cmd, a, fate).on = port /\ Sent(cmd, a, fate).state = fate
          /\ fate = "pending" => port # 0
      BY FatesType, SentType DEF Settled
    <2>3. \/ call'[c] = Sent(cmd, a, fate) \/ call'[c] = call[c] \/ call'[c] = Swept(a)[c]
      BY <2>1, SweptType DEF Typed, TypeOK, Table
    <2>4. port' = port
      BY <1>3 DEF SendCmd, AbortAccountSync
    <2> QED BY <2>2, <2>3, <2>4, SweptType DEF Pending
  <1>4. ASSUME NEW d \in Calls, Timeout(d) PROVE Stays /\ port' = port
    <2>1. Pending(d) /\ port' = port /\ call' = [call EXCEPT ![d].state = "timeout"]
      BY <1>4 DEF Timeout
    <2>2. [call[d] EXCEPT !.state = "timeout"].state = "timeout"
      BY <2>1, SettlingKeeps DEF Settled
    <2>3. call'[d] = [call[d] EXCEPT !.state = "timeout"] /\ (d # c => call'[c] = call[c])
      BY <2>1 DEF Typed, TypeOK
    <2> QED BY <2>1, <2>2, <2>3 DEF Pending
  <1>5. CASE HostReceive
    <2>1. port' = port
      BY <1>1, <1>5, OrderHostReceive DEF Settled
    <2>2. \/ call' = call
          \/ \E d \in Calls : Pending(d) /\ call' = [call EXCEPT ![d].state = "answered"]
      <3>1. Head(toHost) \in Event
        BY <1>5, Ranges, Received DEF HostReceive
      <3> QED BY <1>1, <1>5, <3>1, EventKinds DEF HostReceive, Settled
    <2>3. ASSUME NEW d \in Calls, Pending(d), call' = [call EXCEPT ![d].state = "answered"]
          PROVE  call'[c] = call[c]
      <3>1. [call[d] EXCEPT !.state = "answered"].state = "answered"
        BY <2>3, SettlingKeeps DEF Settled
      <3>2. call'[d] = [call[d] EXCEPT !.state = "answered"] /\ (d # c => call'[c] = call[c])
        BY <2>3 DEF Typed, TypeOK
      <3> QED BY <3>1, <3>2
    <2> QED BY <2>1, <2>2, <2>3 DEF Pending
  <1>6. CASE OpenPortToProvider
    BY <1>6 DEF OpenPortToProvider, Pending
  <1>7. CASE UNCHANGED <<port, call>>
    BY <1>7 DEF Pending
  <1>8. CASE ProviderReceive \/ ProviderEnds \/ ProviderStarts
             \/ UNCHANGED vars \/ (\E d \in Calls : Finish(d))
             \/ (\E r \in Asks : Serve(r) \/ RequestSync(r))
    BY <1>7, <1>8 DEF ProviderReceive, ProviderEnds, ProviderStarts,
       Finish, Serve, RequestSync, host, vars
  <1> QED BY <1>2, <1>3, <1>4, <1>5, <1>6, <1>8 DEF Next

(* The same of the provider's side.                                         *)
LEMMA PendingAsks ==
  ASSUME Typed, PortsInOrder, [Next]_vars, NEW r \in Asks, ask'[r].state = "pending"
  PROVE  \/ Asking(r) /\ ask'[r] = ask[r] /\ incoming' = incoming
         \/ Asking(r) /\ ask'[r] = ask[r] /\ incoming = 0
         \/ ask'[r].on = incoming /\ incoming # 0 /\ incoming' = incoming
  <1>1. ASSUME NEW code \in Settled, RejectAllPending(code) PROVE FALSE
    BY <1>1, AskType
  <1>2. CASE ProviderReceive
    <2>1. toProvider # <<>> /\ Head(toProvider) \in Event
      BY <1>2, Ranges, Received DEF ProviderReceive
    <2>2. CASE Head(toProvider).kind = "connect" /\ AttachPort(Head(toProvider).port)
      BY <2>1, <2>2, AttachedWhenFree DEF PortsInOrder, AttachPort, Asking
    <2>3. CASE PortDisconnected(Head(toProvider).port)
      BY <1>1, <2>3 DEF PortDisconnected, Settled
    <2>4. CASE DispatchHostCmd(Head(toProvider).id)
      BY <2>4 DEF DispatchHostCmd, Asking
    <2>5. CASE /\ Head(toProvider).kind = "askReply" /\ incoming' = incoming
               /\ ask' = IF Asking(Head(toProvider).id)
                         THEN [ask EXCEPT ![Head(toProvider).id].state = "answered"] ELSE ask
      <3>1. Head(toProvider).id \in Asks
        BY <2>1, <2>5, EventKinds
      <3>2. ASSUME NEW s \in Asks, ask' = [ask EXCEPT ![s].state = "answered"]
            PROVE  ask'[r] = ask[r]
        <4>1. [ask[s] EXCEPT !.state = "answered"].state = "answered"
          BY DEF Typed, TypeOK, Ask
        <4>2. ask'[s] = [ask[s] EXCEPT !.state = "answered"] /\ (s # r => ask'[r] = ask[r])
          BY <3>2 DEF Typed, TypeOK
        <4> QED BY <4>1, <4>2
      <3> QED BY <2>5, <3>1, <3>2 DEF Asking
    <2> QED BY <1>2, <2>2, <2>3, <2>4, <2>5 DEF ProviderReceive
  <1>3. ASSUME NEW s \in Asks, RequestSync(s)
        PROVE  /\ incoming' = incoming /\ incoming # 0
               /\ (Asking(r) /\ ask'[r] = ask[r]) \/ ask'[r].on = incoming
    BY <1>3 DEF RequestSync, Asking, Typed, TypeOK
  <1>4. CASE ProviderEnds
    BY <1>1, <1>4 DEF ProviderEnds, Settled
  <1>5. CASE UNCHANGED <<incoming, ask>>
    BY <1>5 DEF Asking
  <1>6. CASE OpenPortToProvider \/ ClosePortToProvider \/ HostRestart \/ HostReceive \/ ProviderStarts
             \/ UNCHANGED vars \/ (\E s \in Asks : Serve(s))
             \/ (\E c \in Calls : SendCmd(c) \/ AbortAccountSync(c) \/ Timeout(c) \/ Finish(c))
    BY <1>5, <1>6 DEF OpenPortToProvider, ClosePortToProvider, HostRestart, HostReceive, ProviderStarts,
       Serve, SendCmd, AbortAccountSync, Timeout, Finish, provider, vars
  <1> QED BY <1>2, <1>3, <1>4, <1>6 DEF Next

LEMMA PendingStep ==
  ASSUME Typed, PortsInOrder, PendingOnPort, [Next]_vars
  PROVE  PendingOnPort'
  <1>1. ASSUME NEW c \in Calls, call'[c].state = "pending"
        PROVE  port' # 0 /\ call'[c].on = port'
    BY <1>1, PendingCalls DEF PendingOnPort
  <1>2. ASSUME NEW r \in Asks, ask'[r].state = "pending"
        PROVE  incoming' # 0 /\ ask'[r].on = incoming'
    BY <1>2, PendingAsks DEF PendingOnPort
  <1> QED BY <1>1, <1>2 DEF PendingOnPort, Pending, Asking

LEMMA OrderInit == Init => PortsInOrder /\ PendingOnPort
  BY DEF Init, PortsInOrder, OneAfterTheOther, OthersEnd, EndsAreReal, PortAt, Linked, In,
     PendingOnPort, Pending, Asking, Ports

(* On either side, what waits for an answer waits for it on the port that   *)
(* stands: whatever restarts, no command and no REQUEST_SYNC is left        *)
(* waiting on a port that is gone.                                          *)
THEOREM NothingOnLostPort == Spec => []PendingOnPort
  <1>1. ChannelAssumption /\ Init => Typed /\ PortsInOrder /\ PendingOnPort
    BY TypedInit, OrderInit
  <1>2. Typed /\ PortsInOrder /\ PendingOnPort /\ [Next]_vars
        => (Typed /\ PortsInOrder /\ PendingOnPort)'
    BY TypedStep, OrderStep, PendingStep
  <1> QED BY <1>1, <1>2, ChannelAssumption, PTL DEF Spec

(***************************************************************************)
(* Commands keep to their port                                             *)
(***************************************************************************)

(* What is on its way at place i arrives while the provider has its port.   *)
CarriedBy(now, q, i, k) ==
  PortAt(now, q, k) = q[i].port /\ ~EndsBetween(q, q[i].port, k, i - 1)

Carried(now, q) ==
  \A i \in 1..Len(q) :
    q[i].kind \in {"call", "askReply"} => \E k \in 0..(i - 1) : CarriedBy(now, q, i, k)

(* The host's port has another end, or the host is about to hear that it has *)
(* none; the provider is told that it ended only when the host gave it up.   *)
HostPortReal ==
  port # 0 => /\ Linked(port) \/ In(toHost, Disconnect(port))
              /\ ~In(toProvider, Disconnect(port))

(* A command travels, and is worked on, on the port it was sent on; while    *)
(* that is the host's it is the provider's.                                  *)
CallsOnPort ==
  /\ \A i \in 1..Len(toProvider) :
       toProvider[i].kind = "call" => call[toProvider[i].id].on = toProvider[i].port
  /\ \A c \in Calls :
       running[c] # 0 => /\ running[c] = call[c].on /\ running[c] \in 1..opened
                         /\ running[c] = port => incoming = port

(* How commands are carried between the two.                                *)
Routed == Carried(incoming, toProvider) /\ HostPortReal /\ CallsOnPort

LEMMA InAppended ==
  ASSUME NEW q \in Seq(Event), NEW e \in Event, NEW x
  PROVE  /\ In(q, x) => In(Append(q, e), x)
         /\ In(Append(q, e), e)
         /\ In(Append(q, e), x) => In(q, x) \/ x = e
  <1>1. PICK n : n = Len(q)
    OBVIOUS
  <1>2. PICK r : r = Append(q, e)
    OBVIOUS
  <1>3. n \in Nat /\ Len(r) = n + 1 /\ r[n + 1] = e /\ \A i \in 1..n : r[i] = q[i]
    BY <1>1, <1>2, Appended
  <1>4. (\A i \in 1..n : i \in 1..(n + 1)) /\ n + 1 \in 1..(n + 1)
        /\ \A i \in 1..(n + 1) : i \in 1..n \/ i = n + 1
    BY <1>3
  <1> QED BY <1>1, <1>2, <1>3, <1>4 DEF In

LEMMA InReceived ==
  ASSUME NEW q \in Seq(Event), q # <<>>, NEW x
  PROVE  /\ In(q, x) => x = Head(q) \/ In(Tail(q), x)
         /\ In(Tail(q), x) => In(q, x)
         /\ In(q, Head(q))
  <1>1. PICK n : n = Len(Tail(q))
    OBVIOUS
  <1>2. PICK r : r = Tail(q)
    OBVIOUS
  <1>3. n \in Nat /\ Len(q) = n + 1 /\ q[1] = Head(q) /\ \A i \in 1..n : r[i] = q[i + 1]
    BY <1>1, <1>2, Received
  <1>4. ASSUME NEW i \in 1..Len(q), q[i] = x PROVE x = Head(q) \/ In(r, x)
    <2>1. CASE i = 1
      BY <1>3, <1>4, <2>1
    <2>2. CASE i # 1
      <3>1. i - 1 \in 1..n /\ (i - 1) + 1 = i
        BY <1>3, <2>2
      <3>2. r[i - 1] = q[i]
        BY <1>3, <3>1
      <3> QED BY <1>1, <1>2, <1>4, <3>1, <3>2 DEF In
    <2> QED BY <2>1, <2>2
  <1>5. ASSUME NEW i \in 1..n, r[i] = x PROVE In(q, x)
    <2>1. i + 1 \in 1..Len(q) /\ q[i + 1] = x
      BY <1>3, <1>5
    <2> QED BY <2>1 DEF In
  <1>6. In(q, Head(q))
    <2>1. 1 \in 1..Len(q)
      BY <1>3
    <2> QED BY <1>3, <2>1 DEF In
  <1> QED BY <1>1, <1>2, <1>4, <1>5, <1>6 DEF In

LEMMA CarriedAppend ==
  ASSUME NEW q \in Seq(Event), NEW now \in Nat, NEW e \in Event, Carried(now, q),
         e.kind \in {"call", "askReply"} =>
           \E k \in 0..Len(q) : PortAt(now, q, k) = e.port /\ ~EndsBetween(q, e.port, k, Len(q))
  PROVE  Carried(now, Append(q, e))
  <1> DEFINE r == Append(q, e)
  <1>1. PICK n : n = Len(q)
    OBVIOUS
  <1>2. /\ n \in Nat /\ Len(r) = n + 1 /\ r[n + 1] = e
        /\ \A k \in 0..n : PortAt(now, r, k) = PortAt(now, q, k)
        /\ \A i \in 1..n : r[i] = q[i]
    BY <1>1, Longer, Appended
  <1> HIDE DEF r
  <1> SUFFICES ASSUME NEW i \in 1..(n + 1), r[i].kind \in {"call", "askReply"}
               PROVE  \E k \in 0..(i - 1) : CarriedBy(now, r, i, k)
    BY <1>2 DEF Carried, r
  <1>3. PICK k \in 0..(i - 1) : PortAt(now, q, k) = r[i].port
                                /\ ~EndsBetween(q, r[i].port, k, i - 1)
    <2>1. CASE i = n + 1
      <3>1. r[i] = e /\ i - 1 = n
        BY <1>2, <2>1
      <3> QED BY <1>1, <3>1
    <2>2. CASE i # n + 1
      <3>1. i \in 1..n /\ r[i] = q[i]
        BY <1>2, <2>2
      <3> QED BY <1>1, <3>1 DEF Carried, CarriedBy
    <2> QED BY <2>1, <2>2
  <1>4. k \in 0..n
    BY <1>2
  <1>5. ~EndsBetween(r, r[i].port, k, i - 1)
    <2> SUFFICES ASSUME NEW j \in (k + 1)..(i - 1), r[j] = Disconnect(r[i].port)
                 PROVE  FALSE
      BY DEF EndsBetween
    <2>1. j \in 1..n
      BY <1>2
    <2>2. q[j] = Disconnect(r[i].port)
      BY <1>2, <2>1
    <2> QED BY <1>3, <2>2 DEF EndsBetween
  <1> QED BY <1>2, <1>3, <1>4, <1>5 DEF CarriedBy

LEMMA CarriedTail ==
  ASSUME NEW q \in Seq(Event), q # <<>>, NEW now \in Nat, NEW then \in Nat, Carried(now, q),
         Head(q).kind = "connect" => now = 0,
         then = IF Head(q).kind = "connect" THEN Head(q).port
                ELSE IF Head(q) = Disconnect(now) THEN 0 ELSE now
  PROVE  /\ Carried(then, Tail(q))
         /\ Head(q).kind \in {"call", "askReply"} => now = Head(q).port
  <1> DEFINE r == Tail(q)
  <1>1. PICK n : n = Len(r)
    OBVIOUS
  <1>2. /\ n \in Nat /\ Len(q) = n + 1 /\ r \in Seq(Event) /\ Len(r) = n
        /\ \A i \in 1..n : r[i] = q[i + 1]
        /\ Head(q) = q[1] /\ Head(q) \in Event
    BY <1>1, Received
  <1> HIDE DEF r
  <1>3. Head(q).kind \in {"call", "askReply"} => now = Head(q).port
    <2> SUFFICES ASSUME q[1].kind \in {"call", "askReply"} PROVE now = q[1].port
      BY <1>2
    <2>1. 1 \in 1..Len(q) /\ 1 - 1 = 0
      BY <1>2
    <2>2. PICK k \in 0..0 : CarriedBy(now, q, 1, k)
      BY <2>1 DEF Carried
    <2> QED BY <2>2 DEF CarriedBy, PortAt
  <1>4. Carried(then, r)
    <2> SUFFICES ASSUME NEW i \in 1..n, r[i].kind \in {"call", "askReply"}
                 PROVE  \E k \in 0..(i - 1) : CarriedBy(then, r, i, k)
      BY <1>2 DEF Carried
    <2> DEFINE p == r[i].port
    <2>1. i + 1 \in 1..Len(q) /\ q[i + 1] = r[i] /\ (i + 1) - 1 = i
      BY <1>2
    <2>2. PICK k \in 0..i : PortAt(now, q, k) = p /\ ~EndsBetween(q, p, k, i)
      BY <2>1 DEF Carried, CarriedBy
    <2>3. p \in Ports /\ p # 0
      <3>1. r[i] \in Event
        BY <1>2
      <3> QED BY <3>1, EventKinds DEF Ports
    <2> HIDE DEF p
    <2>4. ASSUME NEW h \in 0..(i - 1), PortAt(then, r, h) = p, k = 0 \/ h + 1 = k
          PROVE  CarriedBy(then, r, i, h)
      <3>1. ~EndsBetween(r, p, h, i - 1)
        <4> SUFFICES ASSUME NEW j \in (h + 1)..(i - 1), r[j] = Disconnect(p) PROVE FALSE
          BY DEF EndsBetween
        <4>1. j \in 1..n /\ j + 1 \in (k + 1)..i
          BY <1>2, <2>4
        <4>2. q[j + 1] = Disconnect(p)
          BY <1>2, <4>1
        <4> QED BY <2>2, <4>1, <4>2 DEF EndsBetween
      <3> QED BY <2>4, <3>1 DEF CarriedBy, p
    <2>5. CASE k = 0
      <3>1. now = p
        BY <2>2, <2>5 DEF PortAt
      <3>2. Head(q) # Disconnect(now)
        <4>1. 1 \in (k + 1)..i
          BY <2>5
        <4> QED BY <1>2, <2>2, <3>1, <4>1 DEF EndsBetween
      <3>3. then = p
        BY <2>3, <3>1, <3>2
      <3>4. PortAt(then, r, 0) = p /\ 0 \in 0..(i - 1)
        BY <3>3 DEF PortAt
      <3> QED BY <2>4, <2>5, <3>4
    <2>6. CASE k # 0
      <3>1. k - 1 \in 0..(i - 1) /\ (k - 1) + 1 = k /\ k \in 1..(n + 1)
        BY <1>2, <2>6
      <3>2. q[k].kind = "connect" /\ q[k].port = p
        BY <2>2, <2>3, <2>6 DEF PortAt
      <3>3. PortAt(then, r, k - 1) = p
        <4>1. CASE k = 1
          BY <1>2, <3>2, <4>1 DEF PortAt
        <4>2. CASE k # 1
          <5>1. k - 1 \in 1..n /\ k - 1 # 0
            BY <1>2, <3>1, <4>2
          <5>2. r[k - 1] = q[k]
            BY <1>2, <3>1, <5>1
          <5> QED BY <3>2, <5>1, <5>2 DEF PortAt
        <4> QED BY <4>1, <4>2
      <3> QED BY <2>4, <3>1, <3>3
    <2> QED BY <2>5, <2>6
  <1> QED BY <1>3, <1>4 DEF r

LEMMA RoutedInit == Init => Routed
  BY DEF Init, Routed, Carried, HostPortReal, CallsOnPort

(* A linked port is the one the provider has, or is given at some place.    *)
LEMMA LinkedAt ==
  ASSUME Typed, NEW p, Linked(p)
  PROVE  \E k \in 0..Len(toProvider) : PortAt(incoming, toProvider, k) = p
  <1>1. CASE incoming = p
    BY <1>1, Ranges DEF PortAt
  <1>2. CASE incoming # p
    <2>1. PICK i \in 1..Len(toProvider) : toProvider[i] = Connect(p)
      BY <1>2 DEF Linked, In
    <2>2. i \in 0..Len(toProvider) /\ i # 0
      BY Ranges
    <2> QED BY <2>1, <2>2 DEF PortAt, Connect
  <1> QED BY <1>1, <1>2

(* What the host posts is carried by the port it has.                       *)
LEMMA CarriedPosted ==
  ASSUME Typed, Routed, NEW e, port \in Ports => e \in Event, e.port = port
  PROVE  Carried(incoming, Posted(toProvider, port, e))
  <1>1. CASE Linked(port)
    <2>1. port \in Ports /\ port # 0
      BY <1>1, Ranges, LinkedPort DEF Linked
    <2>2. PICK k \in 0..Len(toProvider) : PortAt(incoming, toProvider, k) = port
      BY <1>1, LinkedAt
    <2>3. ~EndsBetween(toProvider, port, k, Len(toProvider))
      <3> SUFFICES ASSUME NEW j \in (k + 1)..Len(toProvider), toProvider[j] = Disconnect(port)
                   PROVE  FALSE
        BY DEF EndsBetween
      <3>1. j \in 1..Len(toProvider)
        BY Ranges
      <3> QED BY <2>1, <3>1 DEF Routed, HostPortReal, In
    <2>4. Posted(toProvider, port, e) = Append(toProvider, e)
      BY <1>1 DEF Posted
    <2> QED BY <2>1, <2>2, <2>3, <2>4, Ranges, CarriedAppend DEF Routed
  <1>2. CASE ~Linked(port)
    BY <1>2 DEF Posted, Routed
  <1> QED BY <1>1, <1>2

(* A linked port is still linked when more is posted.                       *)
LEMMA LinkedStays ==
  ASSUME Typed, NEW p, Linked(p), incoming' = incoming,
         \/ toProvider' = toProvider
         \/ \E e \in Event : toProvider' = Append(toProvider, e)
  PROVE  Linked(p)'
  <1>1. CASE incoming = p
    BY <1>1 DEF Linked
  <1>2. CASE In(toProvider, Connect(p))
    <2>1. ASSUME NEW e \in Event, toProvider' = Append(toProvider, e)
          PROVE  In(toProvider', Connect(p))
      <3>1. In(Append(toProvider, e), Connect(p))
        BY <1>2, Ranges, InAppended
      <3> QED BY <2>1, <3>1
    <2> QED BY <1>2, <2>1 DEF Linked, In, Connect
  <1> QED BY <1>1, <1>2 DEF Linked

LEMMA PostedWhat ==
  ASSUME Typed, NEW e, port \in Ports => e \in Event, toProvider' = Posted(toProvider, port, e)
  PROVE  \/ toProvider' = toProvider /\ ~Linked(port)
         \/ e \in Event /\ toProvider' = Append(toProvider, e) /\ Linked(port)
  BY Ranges, LinkedPort DEF Posted

(* A step that posts on the host's port, or leaves it alone.                *)
LEMMA RealPosted ==
  ASSUME Typed, HostPortReal, UNCHANGED <<port, incoming, toHost>>, NEW e,
         port \in Ports => e \in Event, e.kind # "disconnect",
         toProvider' = Posted(toProvider, port, e)
  PROVE  HostPortReal'
  <1>1. \/ toProvider' = toProvider
        \/ e \in Event /\ toProvider' = Append(toProvider, e)
    BY PostedWhat
  <1>2. PICK p : p = port
    OBVIOUS
  <1>3. Linked(p) => Linked(p)'
    BY <1>1, LinkedStays
  <1>4. In(toProvider', Disconnect(p)) => In(toProvider, Disconnect(p))
    <2>1. e # Disconnect(p)
      BY DEF Disconnect
    <2>2. ASSUME e \in Event
          PROVE  In(Append(toProvider, e), Disconnect(p)) => In(toProvider, Disconnect(p))
      BY <2>1, <2>2, Ranges, InAppended
    <2> QED BY <1>1, <2>2
  <1>5. port' = p /\ toHost' = toHost
    BY <1>2
  <1> QED BY <1>2, <1>3, <1>4, <1>5 DEF HostPortReal, Disconnect, Linked, Connect, In

LEMMA CallsStill ==
  ASSUME Typed, CallsOnPort, [Next]_vars,
         \A i \in 1..Len(toProvider') : toProvider'[i].kind = "call" =>
           \/ \E j \in 1..Len(toProvider) : toProvider'[i] = toProvider[j]
           \/ call'[toProvider'[i].id].on = toProvider'[i].port,
         \A c \in Calls : running'[c] \in {0, running[c]},
         opened' \in Nat, opened <= opened',
         \A c \in Calls : running'[c] # 0 /\ running'[c] = port' => incoming' = port'
  PROVE  CallsOnPort'
  <1>1. ASSUME NEW i \in 1..Len(toProvider'), toProvider'[i].kind = "call",
               NEW j \in 1..Len(toProvider), toProvider'[i] = toProvider[j]
        PROVE  call'[toProvider'[i].id].on = toProvider'[i].port
    <2>1. toProvider[j] \in Event
      BY Ranges
    <2>2. toProvider[j].id \in Calls
      BY <1>1, <2>1, EventKinds
    <2>3. /\ call[toProvider[j].id].state # "unsent"
          /\ call[toProvider[j].id].on = toProvider[j].port
      BY <1>1 DEF Typed, CallsSent, CallsOnPort
    <2>4. call'[toProvider[j].id].on = call[toProvider[j].id].on
      BY <2>2, <2>3, CallsKeep
    <2> QED BY <1>1, <2>3, <2>4
  <1>2. ASSUME NEW c \in Calls, running'[c] # 0
        PROVE  /\ running'[c] = call'[c].on /\ running'[c] \in 1..opened'
               /\ running'[c] = port' => incoming' = port'
    <2>1. running[c] # 0 /\ running'[c] = running[c]
      BY <1>2
    <2>2. call[c].state # "unsent"
      BY <2>1 DEF Typed, TypeOK
    <2>3. call'[c].on = call[c].on
      BY <2>2, CallsKeep
    <2>4. running'[c] = call'[c].on
      BY <2>1, <2>3 DEF CallsOnPort
    <2>5. running'[c] \in 1..opened'
      BY <2>1, Ranges DEF CallsOnPort
    <2> QED BY <1>2, <2>4, <2>5
  <1>3. \A i \in 1..Len(toProvider') :
          toProvider'[i].kind = "call" => call'[toProvider'[i].id].on = toProvider'[i].port
    BY <1>1
  <1> QED BY <1>2, <1>3 DEF CallsOnPort

LEMMA PostedEvents ==
  ASSUME Typed, NEW e, port \in Ports => e \in Event, toProvider' = Posted(toProvider, port, e)
  PROVE  \A i \in 1..Len(toProvider') :
           (i \in 1..Len(toProvider) /\ toProvider'[i] = toProvider[i]) \/ toProvider'[i] = e
  <1>1. CASE toProvider' = toProvider
    BY <1>1
  <1>2. CASE e \in Event /\ toProvider' = Append(toProvider, e)
    BY <1>2, Ranges, Appended
  <1> QED BY <1>1, <1>2, PostedWhat

LEMMA RoutedPosted ==
  ASSUME Typed, PortsInOrder, Routed, [Next]_vars,
         NEW e, port \in Ports => e \in Event, e.port = port,
         toProvider' = Posted(toProvider, port, e),
         UNCHANGED <<opened, incoming, running>>,
         \/ UNCHANGED <<port, toHost>> /\ e.kind # "disconnect"
         \/ port' = 0,
         e.kind = "call" => call'[e.id].on = port
  PROVE  Routed'
  <1>1. HostPortReal'
    BY RealPosted DEF Routed, HostPortReal
  <1>2. Carried(incoming', toProvider')
    BY CarriedPosted
  <1>3. CallsOnPort'
    <2>1. \A i \in 1..Len(toProvider') : toProvider'[i].kind = "call" =>
            \/ \E j \in 1..Len(toProvider) : toProvider'[i] = toProvider[j]
            \/ call'[toProvider'[i].id].on = toProvider'[i].port
      BY PostedEvents
    <2>2. \A c \in Calls : running'[c] # 0 /\ running'[c] = port' => incoming' = port'
      BY DEF Routed, CallsOnPort
    <2> QED BY <2>1, <2>2, Ranges, CallsStill DEF Routed
  <1> QED BY <1>1, <1>2, <1>3 DEF Routed

LEMMA RoutedOpened ==
  ASSUME Typed, PortsInOrder, Routed, OpenPortToProvider
  PROVE  Routed'
  <1>0. PICK new : new = opened + 1
    OBVIOUS
  <1>1. /\ new \in Ports /\ new \in Nat /\ port' = new /\ incoming' = incoming /\ opened' = new
        /\ running' = running /\ call' = call
        /\ Connect(new) \in Event /\ Disconnect(new) \in Event
    BY <1>0, EventTypes, Ranges, ChannelAssumption DEF OpenPortToProvider, Ports, provider
  <1>2. ~In(toProvider, Disconnect(new))
    <2> SUFFICES ASSUME NEW i \in 1..Len(toProvider), toProvider[i] = Disconnect(new) PROVE FALSE
      BY DEF In
    <2>1. toProvider[i].port \in 1..opened
      BY DEF Typed, PortsKnown
    <2> QED BY <1>0, <2>1, Ranges DEF Disconnect
  <1>3. opened \in Nat /\ opened < new /\ new # 0
    BY <1>0, Ranges
  <1>4. \/ /\ toProvider' = Append(toProvider, Connect(new)) /\ toHost' = toHost
        \/ /\ toHost' = Append(toHost, Disconnect(new)) /\ toProvider' = toProvider
    BY <1>0 DEF OpenPortToProvider
  <1>5. Connect(new).kind = "connect" /\ Connect(new) # Disconnect(new)
    BY DEF Connect, Disconnect
  <1>6. HostPortReal'
    <2>1. Linked(new)' \/ In(toHost', Disconnect(new))
      <3>1. CASE toProvider' = Append(toProvider, Connect(new))
        <4>1. In(Append(toProvider, Connect(new)), Connect(new))
          BY <1>1, Ranges, InAppended
        <4>2. In(toProvider', Connect(new))
          BY <3>1, <4>1
        <4> QED BY <1>3, <4>2 DEF Linked, Connect, In
      <3>2. CASE toHost' = Append(toHost, Disconnect(new))
        <4>1. In(Append(toHost, Disconnect(new)), Disconnect(new))
          BY <1>1, Ranges, InAppended
        <4> QED BY <3>2, <4>1
      <3> QED BY <1>4, <3>1, <3>2
    <2>2. ~In(toProvider', Disconnect(new))
      <3>1. ~In(Append(toProvider, Connect(new)), Disconnect(new))
        BY <1>1, <1>2, <1>5, Ranges, InAppended
      <3>2. CASE toProvider' = Append(toProvider, Connect(new))
        BY <3>1, <3>2
      <3>3. CASE toProvider' = toProvider
        BY <1>2, <3>3
      <3> QED BY <1>4, <3>2, <3>3
    <2> QED BY <1>1, <2>1, <2>2 DEF HostPortReal, Linked, In, Connect, Disconnect
  <1>7. Carried(incoming', toProvider')
    <2>1. Carried(incoming, Append(toProvider, Connect(new)))
      BY <1>1, <1>5, Ranges, CarriedAppend DEF Routed
    <2> QED BY <1>1, <1>4, <2>1 DEF Routed
  <1>8. CallsOnPort'
    <2>1. \A i \in 1..Len(toProvider') : toProvider'[i].kind = "call" =>
            \/ \E j \in 1..Len(toProvider) : toProvider'[i] = toProvider[j]
            \/ call'[toProvider'[i].id].on = toProvider'[i].port
      <3>1. CASE toProvider' = Append(toProvider, Connect(new))
        BY <1>1, <1>5, <3>1, Ranges, Appended
      <3>2. CASE toProvider' = toProvider
        BY <3>2
      <3> QED BY <1>4, <3>1, <3>2
    <2>2. \A c \in Calls : running'[c] # 0 /\ running'[c] = port' => incoming' = port'
      BY <1>1, <1>3 DEF Routed, CallsOnPort
    <2>3. [Next]_vars
      BY DEF Next
    <2> QED BY <1>1, <1>3, <2>1, <2>2, <2>3, CallsStill DEF Routed
  <1> QED BY <1>6, <1>7, <1>8 DEF Routed

LEMMA RoutedHost ==
  ASSUME Typed, PortsInOrder, Routed, [Next]_vars,
         \/ ClosePortToProvider \/ HostRestart
         \/ \E c \in Calls : SendCmd(c) \/ AbortAccountSync(c)
         \/ \E r \in Asks : Serve(r)
  PROVE  Routed'
  <1>1. CASE ClosePortToProvider \/ HostRestart
    <2>1. /\ toProvider' = Posted(toProvider, port, Disconnect(port)) /\ port' = 0
          /\ UNCHANGED <<opened, incoming, running>>
      BY <1>1 DEF ClosePortToProvider, HostRestart, provider
    <2>2. (port \in Ports => Disconnect(port) \in Event) /\ Disconnect(port).port = port
          /\ Disconnect(port).kind # "call"
      BY EventTypes DEF Disconnect
    <2> QED BY <2>1, <2>2, RoutedPosted
  <1>2. ASSUME NEW c \in Calls, SendCmd(c) \/ AbortAccountSync(c) PROVE Routed'
    <2>1. /\ toProvider' = Posted(toProvider, port, CallEvent(c))
          /\ UNCHANGED <<port, toHost, opened, incoming, running>>
      BY <1>2 DEF SendCmd, AbortAccountSync, provider
    <2>2. /\ port \in Ports => CallEvent(c) \in Event
          /\ CallEvent(c).kind = "call" /\ CallEvent(c).port = port /\ CallEvent(c).id = c
      BY EventTypes DEF CallEvent
    <2>3. call'[c].on = port
      <3>1. PICK cmd \in Commands, a \in Accounts, fate \in Fates :
              \/ call' = [call EXCEPT ![c] = Sent(cmd, a, fate)]
              \/ call' = [Swept(a) EXCEPT ![c] = Sent(cmd, a, fate)]
        <4>1. CASE SendCmd(c)
          BY <4>1, ChannelAssumption DEF SendCmd
        <4>2. CASE AbortAccountSync(c)
          BY <4>2 DEF AbortAccountSync, Commands
        <4> QED BY <1>2, <4>1, <4>2
      <3>2. call'[c] = Sent(cmd, a, fate)
        BY <3>1, SweptType DEF Typed, TypeOK, Table
      <3> QED BY <3>2 DEF Sent
    <2> QED BY <2>1, <2>2, <2>3, RoutedPosted
  <1>3. ASSUME NEW r \in Asks, Serve(r) PROVE Routed'
    <2>1. PICK answer : answer = [kind |-> "askReply", port |-> port, id |-> r]
      OBVIOUS
    <2>2. UNCHANGED <<port, toHost, opened, incoming, running, call>>
      BY <1>3 DEF Serve, provider
    <2>3. (port \in Ports => answer \in Event) /\ answer.kind = "askReply" /\ answer.port = port
      BY <2>1, EventTypes
    <2>4. CASE toProvider' = Posted(toProvider, port, answer)
      BY <2>2, <2>3, <2>4, RoutedPosted
    <2>5. CASE toProvider' = toProvider
      BY <2>2, <2>5 DEF Routed, Carried, CarriedBy, PortAt, EndsBetween, HostPortReal, CallsOnPort,
         Linked, In, Connect, Disconnect
    <2> QED BY <1>3, <2>1, <2>4, <2>5 DEF Serve
  <1> QED BY <1>1, <1>2, <1>3

(* The host hears of its port's end before it forgets it.                   *)
LEMMA RoutedHostReceive ==
  ASSUME Typed, PortsInOrder, Routed, HostReceive
  PROVE  Routed'
  <1>1. PICK e : e = Head(toHost)
    OBVIOUS
  <1>2. /\ toHost # <<>> /\ toHost' = Tail(toHost) /\ UNCHANGED <<toProvider, incoming, opened, running>>
        /\ port' = port \/ port' = 0
        /\ e = Disconnect(port) => port' = 0
    BY <1>1 DEF HostReceive, provider, Disconnect
  <1>3. PICK p : p = port
    OBVIOUS
  <1>4. HostPortReal'
    <2> SUFFICES ASSUME port' = p, p # 0 PROVE HostPortReal'
      BY <1>2, <1>3 DEF HostPortReal
    <2>1. In(toHost, Disconnect(p)) => In(toHost', Disconnect(p))
      <3>1. e # Disconnect(p)
        BY <1>2, <1>3
      <3>2. In(toHost, Disconnect(p)) => In(Tail(toHost), Disconnect(p))
        BY <1>1, <1>2, <3>1, Ranges, InReceived
      <3> QED BY <1>2, <3>2
    <2>2. Linked(p) => Linked(p)'
      BY <1>2 DEF Linked, In, Connect
    <2>3. ~In(toProvider, Disconnect(p)) => ~In(toProvider', Disconnect(p))
      BY <1>2
    <2> QED BY <1>3, <2>1, <2>2, <2>3 DEF Routed, HostPortReal, Linked, In, Connect, Disconnect
  <1>5. Carried(incoming', toProvider')
    BY <1>2 DEF Routed
  <1>6. CallsOnPort'
    <2>1. \A c \in Calls : running'[c] # 0 /\ running'[c] = port' => incoming' = port'
      BY <1>2 DEF Routed, CallsOnPort
    <2>2. [Next]_vars
      BY DEF Next
    <2> QED BY <1>2, <2>1, <2>2, Ranges, CallsStill DEF Routed
  <1> QED BY <1>4, <1>5, <1>6 DEF Routed

(* The provider keeps its port while that is the host's.                    *)
LEMMA LinkedHeard ==
  ASSUME Typed, PortsInOrder, HostPortReal, ProviderReceive, NEW p, p = port, p # 0
  PROVE  /\ incoming = p => incoming' = p
         /\ Linked(p) => incoming' = p \/ In(Tail(toProvider), Connect(p))
         /\ ~In(Tail(toProvider), Disconnect(p))
  <1>1. PICK e : e = Head(toProvider)
    OBVIOUS
  <1>2. /\ toProvider # <<>> /\ e \in Event
        /\ e.kind = "connect" => incoming = 0
        /\ incoming' = IF e.kind = "connect" THEN e.port
                       ELSE IF e = Disconnect(incoming) THEN 0 ELSE incoming
    BY <1>1, Hears
  <1>3. /\ In(toProvider, Connect(p)) => Connect(p) = e \/ In(Tail(toProvider), Connect(p))
        /\ In(Tail(toProvider), Disconnect(p)) => In(toProvider, Disconnect(p))
        /\ In(toProvider, e)
    BY <1>1, <1>2, Ranges, InReceived
  <1>4. ~In(toProvider, Disconnect(p))
    BY DEF HostPortReal
  <1>5. incoming = p => incoming' = p
    <2>1. e # Disconnect(p)
      BY <1>3, <1>4
    <2> QED BY <1>2, <2>1
  <1>6. Connect(p) = e => incoming' = p
    BY <1>2 DEF Connect
  <1>7. Linked(p) => incoming' = p \/ In(Tail(toProvider), Connect(p))
    BY <1>3, <1>5, <1>6 DEF Linked
  <1> QED BY <1>3, <1>4, <1>5, <1>7

LEMMA RoutedProviderReceive ==
  ASSUME Typed, PortsInOrder, Routed, ProviderReceive
  PROVE  Routed'
  <1>1. PICK e : e = Head(toProvider)
    OBVIOUS
  <1>2. /\ toProvider # <<>> /\ toProvider' = Tail(toProvider) /\ e \in Event /\ toHost' = toHost
        /\ UNCHANGED <<port, call, opened>> /\ incoming' \in Nat
        /\ e.kind = "connect" => incoming = 0
        /\ incoming' = IF e.kind = "connect" THEN e.port
                       ELSE IF e = Disconnect(incoming) THEN 0 ELSE incoming
        /\ e.kind = "call" => DispatchHostCmd(e.id)
        /\ e.kind # "call" => running' = running
    BY <1>1, Hears DEF host
  <1>3. /\ Carried(incoming', toProvider')
        /\ e.kind = "call" => incoming = e.port
    BY <1>1, <1>2, Ranges, CarriedTail DEF Routed
  <1>4. HostPortReal'
    <2>1. PICK p : p = port
      OBVIOUS
    <2> SUFFICES ASSUME p # 0 PROVE HostPortReal'
      BY <1>2, <2>1 DEF HostPortReal
    <2>2. /\ Linked(p) => incoming' = p \/ In(toProvider', Connect(p))
          /\ ~In(toProvider', Disconnect(p))
      BY <1>2, <2>1, LinkedHeard DEF Routed
    <2>3. Linked(p) => Linked(p)'
      BY <2>2 DEF Linked, In, Connect
    <2>4. In(toHost, Disconnect(p)) => In(toHost', Disconnect(p))
      BY <1>2
    <2> QED BY <1>2, <2>1, <2>2, <2>3, <2>4 DEF Routed, HostPortReal, Linked, In, Connect, Disconnect
  <1>5. ASSUME NEW i \in 1..Len(toProvider'), toProvider'[i].kind = "call"
        PROVE  call'[toProvider'[i].id].on = toProvider'[i].port
    <2>1. i + 1 \in 1..Len(toProvider) /\ toProvider'[i] = toProvider[i + 1]
      BY <1>2, Ranges, Received
    <2> QED BY <1>2, <1>5, <2>1 DEF Routed, CallsOnPort
  <1>6. ASSUME NEW c \in Calls, running'[c] # 0
        PROVE  /\ running'[c] = call'[c].on /\ running'[c] \in 1..opened'
               /\ running'[c] = port' => incoming' = port'
    <2>1. CASE running'[c] = running[c]
      <3>1. /\ running[c] = call[c].on /\ running[c] \in 1..opened
            /\ running[c] = port => incoming = port
        BY <1>6, <2>1 DEF Routed, CallsOnPort
      <3>2. running[c] = port => incoming' = port
        BY <1>6, <2>1, <3>1, LinkedHeard DEF Routed
      <3> QED BY <1>2, <2>1, <3>1, <3>2
    <2>2. CASE running'[c] # running[c]
      <3>1. e.kind = "call" /\ incoming # 0 /\ running' = [running EXCEPT ![e.id] = incoming]
            /\ incoming' = incoming
        BY <1>2, <2>2 DEF DispatchHostCmd
      <3>2. c = e.id /\ running'[c] = incoming
        BY <2>2, <3>1 DEF Typed, TypeOK
      <3>3. 1 \in 1..Len(toProvider) /\ toProvider[1] = e
        BY <1>1, <1>2, Ranges, Received
      <3>4. call[c].on = incoming
        BY <1>3, <3>1, <3>2, <3>3 DEF Routed, CallsOnPort
      <3>5. incoming \in 1..opened
        BY <3>1, Ranges
      <3> QED BY <1>2, <3>1, <3>2, <3>4, <3>5
    <2> QED BY <2>1, <2>2
  <1> QED BY <1>3, <1>4, <1>5, <1>6 DEF Routed, CallsOnPort

LEMMA RoutedProvider ==
  ASSUME Typed, PortsInOrder, Routed, [Next]_vars,
         \/ \E c \in Calls : Finish(c)
         \/ \E r \in Asks : RequestSync(r)
         \/ ProviderEnds
  PROVE  Routed'
  <1>1. PICK p : p = port
    OBVIOUS
  <1>2. ASSUME UNCHANGED <<toProvider, incoming, port, opened>>,
               \A c \in Calls : running'[c] \in {0, running[c]},
               toHost' = toHost \/ \E e \in Event : toHost' = Append(toHost, e)
        PROVE  Routed'
    <2>1. In(toHost, Disconnect(p)) => In(toHost', Disconnect(p))
      <3>1. ASSUME NEW e \in Event, toHost' = Append(toHost, e), In(toHost, Disconnect(p))
            PROVE  In(toHost', Disconnect(p))
        <4>1. In(Append(toHost, e), Disconnect(p))
          BY <3>1, Ranges, InAppended
        <4> QED BY <3>1, <4>1
      <3> QED BY <1>2, <3>1
    <2>2. Linked(p) => Linked(p)'
      BY <1>2 DEF Linked, In, Connect
    <2>3. HostPortReal'
      BY <1>1, <1>2, <2>1, <2>2 DEF Routed, HostPortReal, Linked, In, Connect, Disconnect
    <2>4. Carried(incoming', toProvider')
      BY <1>2 DEF Routed
    <2>5. \A c \in Calls : running'[c] # 0 /\ running'[c] = port' => incoming' = port'
      BY <1>2 DEF Routed, CallsOnPort
    <2>6. CallsOnPort'
      BY <1>2, <2>5, Ranges, CallsStill DEF Routed
    <2> QED BY <2>3, <2>4, <2>6 DEF Routed
  <1>3. ASSUME NEW c \in Calls, Finish(c) PROVE Routed'
    <2>1. PICK answer : answer = [kind |-> "reply", port |-> incoming, id |-> c]
      OBVIOUS
    <2>2. UNCHANGED <<toProvider, incoming, port, opened>>
          /\ running' = [running EXCEPT ![c] = 0] /\ running[c] # 0
          /\ toHost' = IF running[c] = incoming THEN Append(toHost, answer) ELSE toHost
      BY <1>3, <2>1 DEF Finish, host
    <2>3. running[c] = incoming => answer \in Event
      <3>1. running[c] = incoming => incoming \in Ports
        BY <2>2, Ranges DEF Ports
      <3> QED BY <2>1, <3>1, EventTypes
    <2>4. \A d \in Calls : running'[d] \in {0, running[d]}
      BY <2>2 DEF Typed, TypeOK
    <2> QED BY <1>2, <2>2, <2>3, <2>4
  <1>4. ASSUME NEW r \in Asks, RequestSync(r) PROVE Routed'
    <2>1. PICK request : request = [kind |-> "ask", port |-> incoming, id |-> r]
      OBVIOUS
    <2>2. UNCHANGED <<toProvider, incoming, port, opened, running>>
          /\ toHost' = Append(toHost, request) /\ incoming # 0
      BY <1>4, <2>1 DEF RequestSync, host
    <2>3. incoming \in Ports
      BY <2>2, Ranges DEF Ports
    <2>4. request \in Event
      BY <2>1, <2>3, EventTypes
    <2> QED BY <1>2, <2>2, <2>4
  <1>5. CASE ProviderEnds
    <2>1. /\ toProvider' = <<>> /\ incoming' = 0 /\ UNCHANGED <<port, opened>>
          /\ running' = [c \in Calls |-> 0]
          /\ toHost' = IF Linked(port) THEN Append(toHost, Disconnect(port)) ELSE toHost
          /\ Len(toProvider') = 0
      BY <1>5 DEF ProviderEnds, host
    <2>2. p # 0 => In(toHost', Disconnect(p))
      <3>1. CASE Linked(port)
        <4>1. Disconnect(port) \in Event
          BY <3>1, Ranges, LinkedPort, EventTypes
        <4>2. In(Append(toHost, Disconnect(port)), Disconnect(port))
          BY <4>1, Ranges, InAppended
        <4> QED BY <1>1, <2>1, <3>1, <4>2
      <3>2. CASE ~Linked(port)
        BY <1>1, <2>1, <3>2 DEF Routed, HostPortReal
      <3> QED BY <3>1, <3>2
    <2>3. ~In(toProvider', Disconnect(p))
      BY <2>1 DEF In
    <2>4. HostPortReal'
      BY <1>1, <2>1, <2>2, <2>3 DEF HostPortReal, Linked, In, Connect, Disconnect
    <2> QED BY <2>1, <2>4 DEF Routed, Carried, CallsOnPort
  <1> QED BY <1>3, <1>4, <1>5

LEMMA RoutedStep ==
  ASSUME Typed, PortsInOrder, Routed, [Next]_vars
  PROVE  Routed'
  <1>1. CASE ProviderStarts \/ UNCHANGED vars \/ \E c \in Calls : Timeout(c)
    <2>1. UNCHANGED <<toProvider, incoming, port, toHost, opened, running>>
      BY <1>1 DEF ProviderStarts, Timeout, host, provider, vars
    <2>2. \A c \in Calls : running'[c] # 0 /\ running'[c] = port' => incoming' = port'
      BY <2>1 DEF Routed, CallsOnPort
    <2>3. CallsOnPort'
      BY <2>1, <2>2, Ranges, CallsStill DEF Routed
    <2>4. Carried(incoming', toProvider') /\ HostPortReal'
      BY <2>1 DEF Routed, HostPortReal, Linked, In, Connect, Disconnect
    <2> QED BY <2>3, <2>4 DEF Routed
  <1> QED BY <1>1, RoutedOpened, RoutedHost, RoutedHostReceive, RoutedProviderReceive, RoutedProvider
      DEF Next

(***************************************************************************)
(* Nothing is forgotten                                                    *)
(***************************************************************************)
LEMMA InGrown ==
  ASSUME NEW q \in Seq(Event), NEW r, NEW x, In(q, x),
         r = q \/ \E e \in Event : r = Append(q, e)
  PROVE  In(r, x)
  <1>1. \A e \in Event : In(Append(q, e), x)
    BY InAppended
  <1> QED BY <1>1

(* A command that becomes pending is being sent.                            *)
LEMMA PendingOrSent ==
  ASSUME Typed, PortsInOrder, PendingOnPort, [Next]_vars, NEW c \in Calls, call'[c].state = "pending"
  PROVE  /\ port # 0 /\ port' = port /\ call'[c].on = port
         /\ Pending(c) \/ SendCmd(c) \/ AbortAccountSync(c)
  <1>1. port # 0 /\ port' = port /\ call'[c].on = port
    BY PendingCalls DEF PendingOnPort
  <1> DEFINE Why == Pending(c) \/ SendCmd(c) \/ AbortAccountSync(c)
  <1>2. ASSUME call'[c] = call[c] PROVE Why
    BY <1>2 DEF Pending
  <1>3. ASSUME NEW code \in Settled, RejectPending(code) PROVE FALSE
    BY <1>3, RejectType
  <1>4. ASSUME NEW d \in Calls, SendCmd(d), d # c PROVE call'[c] = call[c]
    BY <1>4 DEF SendCmd, Typed, TypeOK
  <1>5. ASSUME NEW d \in Calls, AbortAccountSync(d), d # c PROVE call'[c] = call[c]
    <2>1. PICK a \in Accounts, fate \in Fates :
            call' = [Swept(a) EXCEPT ![d] = Sent("CANCEL_SYNC", a, fate)]
      BY <1>5 DEF AbortAccountSync
    <2>2. call'[c] = Swept(a)[c]
      BY <1>5, <2>1, SweptType DEF Table
    <2> QED BY <2>2, SweptType
  <1>6. ASSUME HostReceive \/ \E d \in Calls : Timeout(d) PROVE Why
    <2>1. \/ call' = call
          \/ \E d \in Calls, code \in Settled : Pending(d) /\ call' = [call EXCEPT ![d].state = code]
      <3>1. CASE HostReceive
        <4>1. Head(toHost) \in Event
          BY <3>1, Ranges, Received DEF HostReceive
        <4> QED BY <1>3, <3>1, <4>1, EventKinds DEF HostReceive, Settled
      <3>2. CASE \E d \in Calls : Timeout(d)
        BY <3>2 DEF Timeout, Settled
      <3> QED BY <1>6, <3>1, <3>2
    <2>2. ASSUME NEW d \in Calls, NEW code \in Settled, Pending(d),
                 call' = [call EXCEPT ![d].state = code]
          PROVE  call'[c] = call[c] \/ Pending(c)
      BY <2>2 DEF Typed, TypeOK
    <2> QED BY <1>2, <2>1, <2>2
  <1>7. ASSUME ClosePortToProvider \/ HostRestart PROVE Why
    BY <1>3, <1>7 DEF ClosePortToProvider, HostRestart, Settled
  <1>8. ASSUME OpenPortToProvider \/ ProviderReceive \/ ProviderEnds \/ ProviderStarts
               \/ UNCHANGED vars \/ (\E d \in Calls : Finish(d))
               \/ (\E r \in Asks : Serve(r) \/ RequestSync(r))
        PROVE  Why
    BY <1>2, <1>8 DEF OpenPortToProvider, ProviderReceive, ProviderEnds, ProviderStarts,
       Finish, Serve, RequestSync, host, vars
  <1>9. Why
    BY <1>2, <1>4, <1>5, <1>6, <1>7, <1>8 DEF Next
  <1> QED BY <1>1, <1>9

(* What a command that is pending on port p is waiting for.                 *)
Due(c, p) ==
  \/ In(toProvider, [kind |-> "call", port |-> p, id |-> c])
  \/ running[c] = p /\ incoming = p
  \/ In(toHost, [kind |-> "reply", port |-> p, id |-> c])
  \/ In(toHost, Disconnect(p))

LEMMA DueGrown ==
  ASSUME Typed, NEW c \in Calls, NEW p, Due(c, p),
         toProvider' = toProvider \/ \E e \in Event : toProvider' = Append(toProvider, e),
         toHost' = toHost \/ \E e \in Event : toHost' = Append(toHost, e),
         running'[c] = running[c], incoming' = incoming
  PROVE  Due(c, p)'
  <1>1. \A x : In(toProvider, x) => In(toProvider', x)
    BY Ranges, InGrown
  <1>2. \A x : In(toHost, x) => In(toHost', x)
    BY Ranges, InGrown
  <1> QED BY <1>1, <1>2 DEF Due, In, Disconnect

LEMMA DueSent ==
  ASSUME Typed, Routed', NEW c \in Calls, NEW p, p = port, p # 0, port' = p,
         SendCmd(c) \/ AbortAccountSync(c)
  PROVE  Due(c, p)'
  <1>1. /\ toProvider' = Posted(toProvider, port, CallEvent(c))
        /\ UNCHANGED <<port, toHost, incoming>>
    BY DEF SendCmd, AbortAccountSync, provider
  <1>2. /\ port \in Ports => CallEvent(c) \in Event
        /\ CallEvent(c) = [kind |-> "call", port |-> p, id |-> c]
    BY EventTypes DEF CallEvent
  <1>3. CASE toProvider' = Append(toProvider, CallEvent(c)) /\ CallEvent(c) \in Event
    <2>1. In(Append(toProvider, CallEvent(c)), CallEvent(c))
      BY <1>3, Ranges, InAppended
    <2>2. In(toProvider', [kind |-> "call", port |-> p, id |-> c])
      BY <1>2, <1>3, <2>1
    <2> QED BY <2>2 DEF Due, In
  <1>4. CASE toProvider' = toProvider /\ ~Linked(port)
    <2>1. ~Linked(p)'
      BY <1>1, <1>4 DEF Linked, In, Connect
    <2> QED BY <2>1 DEF Due, Routed, HostPortReal, In, Disconnect, Linked, Connect
  <1> QED BY <1>1, <1>2, <1>3, <1>4, PostedWhat

LEMMA DueHostReceive ==
  ASSUME Typed, HostReceive, NEW c \in Calls, Pending(c), call'[c].state = "pending",
         NEW p, p = port, p # 0, port' = p, Due(c, p)
  PROVE  Due(c, p)'
  <1>1. PICK e : e = Head(toHost)
    OBVIOUS
  <1>2. /\ toHost # <<>> /\ toHost' = Tail(toHost)
        /\ UNCHANGED <<toProvider, incoming, running>>
    BY DEF HostReceive, provider
  <1>3. e # Disconnect(p)
    BY <1>1 DEF HostReceive, Disconnect
  <1>4. e # [kind |-> "reply", port |-> p, id |-> c]
    <2> SUFFICES ASSUME e = [kind |-> "reply", port |-> p, id |-> c] PROVE FALSE
      OBVIOUS
    <2>1. e.port = port /\ e.kind = "reply" /\ e.id = c
      OBVIOUS
    <2>2. call' = [call EXCEPT ![c].state = "answered"]
      BY <1>1, <2>1 DEF HostReceive
    <2>3. call'[c] = [call[c] EXCEPT !.state = "answered"]
      BY <2>2 DEF Typed, TypeOK
    <2> QED BY <2>3, SettlingKeeps DEF Settled
  <1>5. \A x : In(toHost, x) /\ x # e => In(toHost', x)
    BY <1>1, <1>2, Ranges, InReceived
  <1> QED BY <1>2, <1>3, <1>4, <1>5 DEF Due, In, Disconnect

LEMMA DueProviderReceive ==
  ASSUME Typed, PortsInOrder, Routed, ProviderReceive, NEW c \in Calls,
         NEW p, p = port, p # 0, Due(c, p)
  PROVE  Due(c, p)'
  <1>1. PICK e : e = Head(toProvider)
    OBVIOUS
  <1>2. PICK ev : ev = [kind |-> "call", port |-> p, id |-> c]
    OBVIOUS
  <1>3. /\ toProvider # <<>> /\ toProvider' = Tail(toProvider)
        /\ e \in Event /\ toHost' = toHost
        /\ e.kind = "connect" => incoming = 0
        /\ incoming' = IF e.kind = "connect" THEN e.port
                       ELSE IF e = Disconnect(incoming) THEN 0 ELSE incoming
        /\ incoming' \in Nat
        /\ e.kind = "call" => DispatchHostCmd(e.id)
        /\ e.kind # "call" => running' = running
    BY <1>1, Hears
  <1>4. e.kind = "call" => incoming = e.port
    BY <1>1, <1>3, Ranges, CarriedTail DEF Routed
  <1>5. incoming = p => incoming' = p
    BY LinkedHeard DEF Routed
  <1>6. CASE In(toProvider, ev) /\ e # ev
    <2>1. In(toProvider', ev)
      BY <1>1, <1>3, <1>6, Ranges, InReceived
    <2> QED BY <1>2, <2>1 DEF Due, In
  <1>7. CASE e = ev
    <2>1. e.kind = "call" /\ e.port = p /\ e.id = c
      BY <1>2, <1>7
    <2>2. incoming = p /\ running' = [running EXCEPT ![c] = incoming]
      BY <1>3, <1>4, <2>1 DEF DispatchHostCmd
    <2>3. running'[c] = p
      BY <2>2 DEF Typed, TypeOK
    <2> QED BY <1>5, <2>2, <2>3 DEF Due
  <1>8. CASE running[c] = p /\ incoming = p
    <2>1. running'[c] = p
      <3>1. running' = running \/ \E d : running' = [running EXCEPT ![d] = p]
        BY <1>3, <1>8 DEF DispatchHostCmd
      <3> QED BY <1>8, <3>1 DEF Typed, TypeOK
    <2> QED BY <1>5, <1>8, <2>1 DEF Due
  <1>9. CASE In(toHost, [kind |-> "reply", port |-> p, id |-> c]) \/ In(toHost, Disconnect(p))
    BY <1>3, <1>9 DEF Due, In, Disconnect
  <1> QED BY <1>2, <1>6, <1>7, <1>8, <1>9 DEF Due

LEMMA DueProvider ==
  ASSUME Typed, Routed, Routed', NEW c \in Calls, NEW p, p = port, p # 0, Due(c, p),
         \/ \E d \in Calls : Finish(d)
         \/ \E r \in Asks : RequestSync(r)
         \/ ProviderEnds
  PROVE  Due(c, p)'
  <1>1. ASSUME NEW d \in Calls, Finish(d) PROVE Due(c, p)'
    <2>1. PICK answer : answer = [kind |-> "reply", port |-> incoming, id |-> d]
      OBVIOUS
    <2>2. /\ UNCHANGED <<toProvider, incoming, port>> /\ running[d] # 0
          /\ running' = [running EXCEPT ![d] = 0]
          /\ toHost' = IF running[d] = incoming THEN Append(toHost, answer) ELSE toHost
      BY <1>1, <2>1 DEF Finish, host
    <2>3. running[d] = incoming => answer \in Event
      <3>1. running[d] = incoming => incoming \in Ports
        BY <2>2, Ranges DEF Ports
      <3> QED BY <2>1, <3>1, EventTypes
    <2>4. CASE running[d] = incoming
      <3>1. In(toHost', answer)
        <4>1. In(Append(toHost, answer), answer)
          BY <2>3, <2>4, Ranges, InAppended
        <4> QED BY <2>2, <2>4, <4>1
      <3>2. CASE c = d /\ running[c] = p
        <4>1. In(toHost', [kind |-> "reply", port |-> p, id |-> c])
          BY <2>1, <2>4, <3>1, <3>2
        <4> QED BY <4>1 DEF Due, In
      <3>3. CASE c = d /\ running[c] # p
        <4>1. \A x : In(toProvider, x) => In(toProvider', x)
          BY <2>2
        <4>2. \A x : In(toHost, x) => In(toHost', x)
          BY <2>2, <2>3, <2>4, Ranges, InGrown
        <4> QED BY <3>3, <4>1, <4>2 DEF Due, In, Disconnect
      <3>4. CASE c # d
        <4>1. running'[c] = running[c]
          BY <2>2, <3>4 DEF Typed, TypeOK
        <4> QED BY <2>2, <2>3, <2>4, <4>1, DueGrown
      <3> QED BY <3>2, <3>3, <3>4
    <2>5. CASE running[d] # incoming
      <3>1. CASE c = d
        <4>1. ~(running[c] = p /\ incoming = p)
          BY <2>5, <3>1
        <4> QED BY <2>2, <2>5, <4>1 DEF Due, In, Disconnect
      <3>2. CASE c # d
        <4>1. running'[c] = running[c]
          BY <2>2, <3>2 DEF Typed, TypeOK
        <4> QED BY <2>2, <2>5, <4>1, DueGrown
      <3> QED BY <3>1, <3>2
    <2> QED BY <2>4, <2>5
  <1>2. ASSUME NEW r \in Asks, RequestSync(r) PROVE Due(c, p)'
    <2>1. PICK request : request = [kind |-> "ask", port |-> incoming, id |-> r]
      OBVIOUS
    <2>2. UNCHANGED <<toProvider, incoming, running>>
          /\ toHost' = Append(toHost, request) /\ incoming # 0
      BY <1>2, <2>1 DEF RequestSync, host
    <2>3. incoming \in Ports
      BY <2>2, Ranges DEF Ports
    <2>4. request \in Event
      BY <2>1, <2>3, EventTypes
    <2> QED BY <2>2, <2>4, DueGrown
  <1>3. CASE ProviderEnds
    <2>1. toProvider' = <<>> /\ incoming' = 0 /\ port' = p
      BY <1>3 DEF ProviderEnds, host
    <2>2. ~Linked(p)'
      BY <2>1 DEF Linked, In, Connect
    <2> QED BY <2>1, <2>2 DEF Due, Routed, HostPortReal, In, Disconnect, Linked, Connect
  <1> QED BY <1>1, <1>2, <1>3

LEMMA DueStep ==
  ASSUME Typed, PortsInOrder, PendingOnPort, Routed, [Next]_vars, NEW c \in Calls,
         Pending(c) => Due(c, call[c].on), call'[c].state = "pending", NEW p, p = call'[c].on
  PROVE  Due(c, p)'
  <1>1. p = port
    BY PendingOrSent
  <1>2. /\ p # 0 /\ port' = p /\ call'[c].on = p
        /\ Pending(c) \/ SendCmd(c) \/ AbortAccountSync(c)
    BY <1>1, PendingOrSent
  <1>3. Routed'
    BY RoutedStep
  <1>4. CASE SendCmd(c) \/ AbortAccountSync(c)
    BY <1>1, <1>2, <1>3, <1>4, DueSent
  <1> SUFFICES ASSUME Pending(c), Due(c, p) PROVE Due(c, p)'
    BY <1>1, <1>2, <1>4 DEF PendingOnPort
  <1>5. CASE HostReceive
    BY <1>1, <1>2, <1>5, DueHostReceive
  <1>6. CASE ProviderReceive
    BY <1>1, <1>2, <1>6, DueProviderReceive
  <1>7. CASE ProviderEnds \/ (\E d \in Calls : Finish(d)) \/ (\E r \in Asks : RequestSync(r))
    BY <1>1, <1>2, <1>3, <1>7, DueProvider
  <1>8. CASE OpenPortToProvider \/ ClosePortToProvider \/ HostRestart
    BY <1>1, <1>2, <1>8 DEF OpenPortToProvider, ClosePortToProvider, HostRestart
  <1>9. ASSUME NEW d \in Calls, SendCmd(d) \/ AbortAccountSync(d) PROVE Due(c, p)'
    <2>1. /\ toProvider' = Posted(toProvider, port, CallEvent(d))
          /\ UNCHANGED <<toHost, incoming, running>>
      BY <1>9 DEF SendCmd, AbortAccountSync, provider
    <2>2. port \in Ports => CallEvent(d) \in Event
      BY EventTypes DEF CallEvent
    <2> QED BY <2>1, <2>2, PostedWhat, DueGrown
  <1>10. ASSUME NEW r \in Asks, Serve(r) PROVE Due(c, p)'
    <2>1. PICK answer : answer = [kind |-> "askReply", port |-> port, id |-> r]
      OBVIOUS
    <2>2. /\ UNCHANGED <<toHost, incoming, running>>
          /\ toProvider' = toProvider \/ toProvider' = Posted(toProvider, port, answer)
      BY <1>10, <2>1 DEF Serve, provider
    <2>3. port \in Ports => answer \in Event
      BY <2>1, EventTypes
    <2> QED BY <2>2, <2>3, PostedWhat, DueGrown
  <1>11. CASE ProviderStarts \/ UNCHANGED vars \/ \E d \in Calls : Timeout(d)
    <2>1. UNCHANGED <<toProvider, incoming, toHost, running>>
      BY <1>11 DEF ProviderStarts, Timeout, host, provider, vars
    <2> QED BY <2>1, DueGrown
  <1> QED BY <1>5, <1>6, <1>7, <1>8, <1>9, <1>10, <1>11 DEF Next

(* The same of a REQUEST_SYNC that waits on the provider's port.            *)
AskDue(r, p) ==
  \/ In(toHost, [kind |-> "ask", port |-> p, id |-> r])
  \/ serving[r] = p /\ port = p
  \/ In(toProvider, [kind |-> "askReply", port |-> p, id |-> r])
  \/ In(toProvider, Disconnect(p))

LEMMA AskingOrSent ==
  ASSUME Typed, PortsInOrder, PendingOnPort, [Next]_vars, NEW r \in Asks, ask'[r].state = "pending"
  PROVE  /\ incoming # 0 /\ incoming' = incoming /\ ask'[r].on = incoming
         /\ Asking(r) \/ RequestSync(r)
  <1>1. incoming # 0 /\ incoming' = incoming /\ ask'[r].on = incoming
    BY PendingAsks DEF PendingOnPort
  <1> DEFINE Why == Asking(r) \/ RequestSync(r)
  <1>2. ASSUME ask'[r] = ask[r] PROVE Why
    BY <1>2 DEF Asking
  <1>3. ASSUME NEW code \in Settled, RejectAllPending(code) PROVE FALSE
    BY <1>3, AskType
  <1>4. ASSUME NEW s \in Asks, RequestSync(s), s # r PROVE Why
    <2>1. ask'[r] = ask[r]
      BY <1>4 DEF RequestSync, Typed, TypeOK
    <2> QED BY <1>2, <2>1
  <1>5. ASSUME ProviderReceive PROVE Why
    <2>1. \/ ask' = ask \/ RejectAllPending("closed")
          \/ /\ Asking(Head(toProvider).id)
             /\ ask' = [ask EXCEPT ![Head(toProvider).id].state = "answered"]
      BY <1>5 DEF ProviderReceive, AttachPort, PortDisconnected, DispatchHostCmd
    <2>2. ASSUME NEW s, Asking(s), ask' = [ask EXCEPT ![s].state = "answered"] PROVE Why
      <3>1. ask'[r] = ask[r] \/ s = r
        BY <2>2 DEF Typed, TypeOK
      <3> QED BY <1>2, <2>2, <3>1
    <2> QED BY <1>2, <1>3, <2>1, <2>2 DEF Settled
  <1>6. ASSUME ProviderEnds PROVE Why
    BY <1>3, <1>6 DEF ProviderEnds, Settled
  <1>7. ASSUME \/ OpenPortToProvider \/ ClosePortToProvider \/ HostRestart \/ HostReceive
               \/ ProviderStarts \/ UNCHANGED vars \/ (\E s \in Asks : Serve(s))
               \/ (\E c \in Calls : SendCmd(c) \/ AbortAccountSync(c) \/ Timeout(c) \/ Finish(c))
        PROVE  Why
    BY <1>2, <1>7 DEF OpenPortToProvider, ClosePortToProvider, HostRestart, HostReceive,
       ProviderStarts, Serve, SendCmd, AbortAccountSync, Timeout, Finish, provider, vars
  <1>8. Why
    BY <1>4, <1>5, <1>6, <1>7 DEF Next
  <1> QED BY <1>1, <1>8

(* The provider hears the end of a port that the host gives up or has given *)
(* up: of its own, unless that is the host's.                               *)
LEMMA EndOnItsWay ==
  ASSUME Typed, PortsInOrder, NEW p, p = incoming, p # 0, p # port
  PROVE  In(toProvider, Disconnect(p))
  <1>1. 0 \in 0..Len(toProvider) /\ PortAt(incoming, toProvider, 0) = p
    BY Ranges DEF PortAt
  <1>2. EndsBetween(toProvider, p, 0, Len(toProvider))
    BY <1>1 DEF PortsInOrder, OthersEnd
  <1>3. PICK j \in (0 + 1)..Len(toProvider) : toProvider[j] = Disconnect(p)
    BY <1>2 DEF EndsBetween
  <1>4. j \in 1..Len(toProvider)
    BY Ranges
  <1> QED BY <1>3, <1>4 DEF In

LEMMA EndPosted ==
  ASSUME Typed, PortsInOrder, NEW p, p = incoming, p # 0,
         toProvider' = Posted(toProvider, port, Disconnect(port))
  PROVE  In(toProvider', Disconnect(p))
  <1>1. port \in Ports => Disconnect(port) \in Event
    BY EventTypes
  <1>2. CASE p # port
    <2>1. In(toProvider, Disconnect(p))
      BY <1>2, EndOnItsWay
    <2> QED BY <1>1, <2>1, Ranges, PostedWhat, InGrown
  <1>3. CASE p = port
    <2>1. Linked(port)
      BY <1>3 DEF Linked
    <2>2. Disconnect(port) \in Event /\ toProvider' = Append(toProvider, Disconnect(port))
      BY <1>1, <2>1, PostedWhat
    <2>3. In(Append(toProvider, Disconnect(port)), Disconnect(port))
      BY <2>2, Ranges, InAppended
    <2> QED BY <1>3, <2>2, <2>3
  <1> QED BY <1>2, <1>3

LEMMA AskGrown ==
  ASSUME Typed, NEW r \in Asks, NEW p, AskDue(r, p),
         toProvider' = toProvider \/ \E e \in Event : toProvider' = Append(toProvider, e),
         toHost' = toHost \/ \E e \in Event : toHost' = Append(toHost, e),
         serving'[r] = serving[r], port' = port
  PROVE  AskDue(r, p)'
  <1>1. \A x : In(toProvider, x) => In(toProvider', x)
    BY Ranges, InGrown
  <1>2. \A x : In(toHost, x) => In(toHost', x)
    BY Ranges, InGrown
  <1> QED BY <1>1, <1>2 DEF AskDue, In, Disconnect

LEMMA AskHostReceive ==
  ASSUME Typed, PortsInOrder, HostReceive, NEW r \in Asks,
         NEW p, p = incoming, p # 0, AskDue(r, p)
  PROVE  AskDue(r, p)'
  <1>1. PICK e : e = Head(toHost)
    OBVIOUS
  <1>2. PICK ev : ev = [kind |-> "ask", port |-> p, id |-> r]
    OBVIOUS
  <1>3. /\ toHost # <<>> /\ toHost' = Tail(toHost) /\ toProvider' = toProvider
        /\ e \in Event
    BY <1>1, Ranges, Received DEF HostReceive
  <1>4. CASE p # port
    <2>1. In(toProvider, Disconnect(p))
      BY <1>4, EndOnItsWay
    <2> QED BY <1>3, <2>1 DEF AskDue, In, Disconnect
  <1>5. CASE p = port
    <2>1. port' = p
      <3>1. In(toHost, e)
        BY <1>1, <1>3, Ranges, InReceived
      <3>2. e # Disconnect(p)
        <4>1. Linked(p) /\ p \in Ports
          BY Ranges, <1>5 DEF Linked, Ports
        <4> QED BY <3>1, <4>1 DEF PortsInOrder, EndsAreReal
      <3>3. e.kind = "disconnect" => e.port # port
        BY <1>3, <1>5, <3>2, EventKinds
      <3> QED BY <1>1, <1>5, <3>3 DEF HostReceive
    <2>2. CASE e = ev
      <3>1. e.port = port /\ e.kind = "ask" /\ e.id = r
        BY <1>2, <1>5, <2>2
      <3>2. serving' = [serving EXCEPT ![r] = port]
        BY <1>1, <3>1 DEF HostReceive
      <3>3. serving'[r] = p
        BY <1>5, <3>2 DEF Typed, TypeOK
      <3> QED BY <2>1, <3>3 DEF AskDue
    <2>3. CASE In(toHost, ev) /\ e # ev
      <3>1. In(toHost', ev)
        BY <1>1, <1>3, <2>3, Ranges, InReceived
      <3> QED BY <1>2, <3>1 DEF AskDue, In
    <2>4. CASE serving[r] = p
      <3>1. serving'[r] = p
        <4>1. serving' = serving \/ \E s : serving' = [serving EXCEPT ![s] = p]
          BY <1>5 DEF HostReceive
        <4> QED BY <2>4, <4>1 DEF Typed, TypeOK
      <3> QED BY <2>1, <3>1 DEF AskDue
    <2>5. CASE \/ In(toProvider, [kind |-> "askReply", port |-> p, id |-> r])
               \/ In(toProvider, Disconnect(p))
      BY <1>3, <2>5 DEF AskDue, In, Disconnect
    <2> QED BY <1>2, <2>2, <2>3, <2>4, <2>5 DEF AskDue
  <1> QED BY <1>4, <1>5

LEMMA AskProviderReceive ==
  ASSUME Typed, PortsInOrder, ProviderReceive, NEW r \in Asks, Asking(r), ask'[r].state = "pending",
         NEW p, p = incoming, p # 0, AskDue(r, p)
  PROVE  AskDue(r, p)'
  <1>1. PICK e : e = Head(toProvider)
    OBVIOUS
  <1>2. /\ toProvider # <<>> /\ toProvider' = Tail(toProvider) /\ toHost' = toHost
        /\ UNCHANGED <<port, serving>>
        /\ e.kind = "disconnect" => RejectAllPending("closed")
    BY <1>1, Hears DEF host
  <1>3. e # Disconnect(p)
    <2>1. ~RejectAllPending("closed")
      BY AskType DEF Settled
    <2> QED BY <1>2, <2>1 DEF Disconnect
  <1>4. e # [kind |-> "askReply", port |-> p, id |-> r]
    <2> SUFFICES ASSUME e = [kind |-> "askReply", port |-> p, id |-> r] PROVE FALSE
      OBVIOUS
    <2>1. ask' = [ask EXCEPT ![r].state = "answered"]
      BY <1>1 DEF ProviderReceive
    <2>2. ask'[r].state = "answered"
      BY <2>1 DEF Typed, TypeOK, Ask
    <2> QED BY <2>2
  <1>5. \A x : In(toProvider, x) /\ x # e => In(toProvider', x)
    BY <1>1, <1>2, Ranges, InReceived
  <1> QED BY <1>2, <1>3, <1>4, <1>5 DEF AskDue, In, Disconnect

LEMMA AskServe ==
  ASSUME Typed, PortsInOrder, NEW s \in Asks, Serve(s), NEW r \in Asks,
         NEW p, p = incoming, p # 0, AskDue(r, p)
  PROVE  AskDue(r, p)'
  <1>1. PICK answer : answer = [kind |-> "askReply", port |-> port, id |-> s]
    OBVIOUS
  <1>2. /\ UNCHANGED <<port, toHost>> /\ serving' = [serving EXCEPT ![s] = 0]
        /\ toProvider' = IF serving[s] = port THEN Posted(toProvider, port, answer) ELSE toProvider
    BY <1>1 DEF Serve
  <1>3. (port \in Ports => answer \in Event) /\ answer.kind = "askReply"
    BY <1>1, EventTypes
  <1>4. toProvider' = toProvider \/ \E e \in Event : toProvider' = Append(toProvider, e)
    BY <1>2, <1>3, PostedWhat
  <1>5. CASE r # s
    <2>1. serving'[r] = serving[r]
      BY <1>2, <1>5 DEF Typed, TypeOK
    <2> QED BY <1>2, <1>4, <2>1, AskGrown
  <1>6. CASE r = s /\ serving[r] = p /\ port = p
    <2>1. Linked(port)
      BY <1>6 DEF Linked
    <2>2. answer \in Event /\ toProvider' = Append(toProvider, answer)
      BY <1>2, <1>3, <1>6, <2>1, PostedWhat
    <2>3. In(Append(toProvider, answer), answer)
      BY <2>2, Ranges, InAppended
    <2>4. In(toProvider', [kind |-> "askReply", port |-> p, id |-> r])
      BY <1>1, <1>6, <2>2, <2>3
    <2> QED BY <2>4 DEF AskDue, In
  <1>7. CASE ~(serving[r] = p /\ port = p)
    <2>1. \A x : In(toProvider, x) => In(toProvider', x)
      BY <1>4, Ranges, InGrown
    <2> QED BY <1>2, <1>7, <2>1 DEF AskDue, In, Disconnect
  <1> QED BY <1>5, <1>6, <1>7

LEMMA AskDueStep ==
  ASSUME Typed, PortsInOrder, PendingOnPort, [Next]_vars, NEW r \in Asks,
         Asking(r) => AskDue(r, ask[r].on), ask'[r].state = "pending", NEW p, p = ask'[r].on
  PROVE  AskDue(r, p)'
  <1>1. p = incoming
    BY AskingOrSent
  <1>2. /\ p # 0 /\ incoming' = p /\ ask'[r].on = p
        /\ Asking(r) \/ RequestSync(r)
    BY <1>1, AskingOrSent
  <1>3. ASSUME NEW s \in Asks, RequestSync(s)
        PROVE  \E e \in Event : /\ e = [kind |-> "ask", port |-> p, id |-> s]
                                /\ toHost' = Append(toHost, e)
    <2>1. incoming \in Ports
      BY <1>1, <1>2, Ranges DEF Ports
    <2> QED BY <1>1, <1>3, <2>1, EventTypes DEF RequestSync
  <1>4. CASE RequestSync(r)
    <2>1. PICK e \in Event : /\ e = [kind |-> "ask", port |-> p, id |-> r]
                             /\ toHost' = Append(toHost, e)
      BY <1>3, <1>4
    <2>2. In(Append(toHost, e), e)
      BY Ranges, InAppended
    <2>3. In(toHost', [kind |-> "ask", port |-> p, id |-> r])
      BY <2>1, <2>2
    <2> QED BY <2>3 DEF AskDue, In
  <1> SUFFICES ASSUME Asking(r), AskDue(r, p) PROVE AskDue(r, p)'
    BY <1>1, <1>2, <1>4 DEF PendingOnPort
  <1>5. CASE HostReceive
    BY <1>1, <1>2, <1>5, AskHostReceive
  <1>6. CASE ProviderReceive
    BY <1>1, <1>2, <1>6, AskProviderReceive
  <1>7. CASE \E s \in Asks : Serve(s)
    BY <1>1, <1>2, <1>7, AskServe
  <1>8. CASE ClosePortToProvider \/ HostRestart
    <2>1. toProvider' = Posted(toProvider, port, Disconnect(port))
      BY <1>8 DEF ClosePortToProvider, HostRestart
    <2>2. In(toProvider', Disconnect(p))
      BY <1>1, <1>2, <2>1, EndPosted
    <2> QED BY <2>2 DEF AskDue, In, Disconnect
  <1>9. CASE OpenPortToProvider
    <2>1. port = 0
      BY <1>9 DEF OpenPortToProvider
    <2>2. In(toProvider, Disconnect(p))
      BY <1>1, <1>2, <2>1, EndOnItsWay
    <2>3. toProvider' = toProvider \/ \E e \in Event : toProvider' = Append(toProvider, e)
      <3>1. opened + 1 \in Ports
        BY <1>9, Ranges, ChannelAssumption DEF OpenPortToProvider, Ports
      <3> QED BY <1>9, <3>1, EventTypes DEF OpenPortToProvider
    <2>4. In(toProvider', Disconnect(p))
      BY <2>2, <2>3, Ranges, InGrown
    <2> QED BY <2>4 DEF AskDue, In, Disconnect
  <1>10. CASE ProviderEnds
    BY <1>2, <1>10 DEF ProviderEnds
  <1>11. ASSUME NEW d \in Calls, SendCmd(d) \/ AbortAccountSync(d) PROVE AskDue(r, p)'
    <2>1. /\ toProvider' = Posted(toProvider, port, CallEvent(d))
          /\ UNCHANGED <<toHost, port, serving>>
      BY <1>11 DEF SendCmd, AbortAccountSync
    <2>2. port \in Ports => CallEvent(d) \in Event
      BY EventTypes DEF CallEvent
    <2> QED BY <2>1, <2>2, PostedWhat, AskGrown
  <1>12. ASSUME NEW d \in Calls, Finish(d) PROVE AskDue(r, p)'
    <2>1. PICK answer : answer = [kind |-> "reply", port |-> incoming, id |-> d]
      OBVIOUS
    <2>2. answer \in Event
      <3>1. incoming \in Ports
        BY <1>1, <1>2, Ranges DEF Ports
      <3> QED BY <2>1, <3>1, EventTypes
    <2>3. /\ UNCHANGED <<toProvider, port, serving>>
          /\ toHost' = toHost \/ toHost' = Append(toHost, answer)
      BY <1>12, <2>1 DEF Finish, host
    <2> QED BY <2>2, <2>3, AskGrown
  <1>13. CASE \E s \in Asks : RequestSync(s)
    <2>1. UNCHANGED <<toProvider, port, serving>>
      BY <1>13 DEF RequestSync, host
    <2> QED BY <1>3, <1>13, <2>1, AskGrown
  <1>14. CASE ProviderStarts \/ UNCHANGED vars \/ \E d \in Calls : Timeout(d)
    <2>1. UNCHANGED <<toProvider, port, toHost, serving>>
      BY <1>14 DEF ProviderStarts, Timeout, host, provider, vars
    <2> QED BY <2>1, AskGrown
  <1> QED BY <1>5, <1>6, <1>7, <1>8, <1>9, <1>10, <1>11, <1>12, <1>13, <1>14 DEF Next

LEMMA ForgottenStep ==
  ASSUME Typed, PortsInOrder, PendingOnPort, Routed, NoneForgotten, [Next]_vars
  PROVE  NoneForgotten'
  <1>1. \A c \in Calls : Pending(c) => Due(c, call[c].on)
    BY DEF NoneForgotten, CommandNotForgotten, Due
  <1>2. ASSUME NEW c \in Calls, call'[c].state = "pending" PROVE CommandNotForgotten(c)'
    <2>1. PICK p : p = call'[c].on
      OBVIOUS
    <2>2. Due(c, p)'
      BY <1>1, <1>2, <2>1, DueStep
    <2> QED BY <2>1, <2>2 DEF CommandNotForgotten, Due, In, Disconnect
  <1>3. \A r \in Asks : Asking(r) => AskDue(r, ask[r].on)
    BY DEF NoneForgotten, AskNotForgotten, AskDue
  <1>4. ASSUME NEW r \in Asks, ask'[r].state = "pending" PROVE AskNotForgotten(r)'
    <2>1. PICK p : p = ask'[r].on
      OBVIOUS
    <2>2. AskDue(r, p)'
      BY <1>3, <1>4, <2>1, AskDueStep
    <2> QED BY <2>1, <2>2 DEF AskNotForgotten, AskDue, In, Disconnect
  <1> QED BY <1>2, <1>4 DEF NoneForgotten, Pending, Asking

(***************************************************************************)
(* What a cancel reaches, and what it spares                               *)
(***************************************************************************)

(* An event that brings the provider command c; one that cancels account a. *)
Brings(e, c) == e.kind = "call" /\ e.id = c

Cancels(e, a) ==
  e.kind = "call" /\ call[e.id].cmd = "CANCEL_SYNC" /\ call[e.id].account = a

(* A cancelled command that is still on its way has a cancel behind it.     *)
CancelBehind ==
  \A c \in Calls : call[c].state = "cancelled" =>
    \A i \in 1..Len(toProvider) : Brings(toProvider[i], c) =>
      \E j \in (i + 1)..Len(toProvider) : Cancels(toProvider[j], call[c].account)

(* One that owns its account's controller was told, or will be.             *)
CancelDue ==
  \A c \in Calls :
    running[c] # 0 /\ call[c].state = "cancelled" /\ aborts[call[c].account].owner = c
    => \/ aborts[call[c].account].aborted
       \/ \E j \in 1..Len(toProvider) : Cancels(toProvider[j], call[c].account)

(* A cancel on its way is ahead of every sync of its account that the host  *)
(* waits for.                                                               *)
CancelAhead ==
  \A c \in Calls : Pending(c) /\ call[c].cmd = "SYNC_FOLDER" =>
    \A i \in 1..Len(toProvider) : Cancels(toProvider[i], call[c].account) =>
      /\ running[c] = 0
      /\ \A j \in 1..i : ~Brings(toProvider[j], c)

CancelsInOrder == CancelBehind /\ CancelDue /\ CancelAhead

(* What travels keeps its meaning.                                          *)
LEMMA CancelsSame ==
  ASSUME Typed, [Next]_vars, NEW i \in 1..Len(toProvider), NEW e, e = toProvider[i], NEW a
  PROVE  Cancels(e, a)' <=> Cancels(e, a)
  <1>1. CASE e.kind # "call"
    BY <1>1 DEF Cancels
  <1>2. CASE e.kind = "call"
    <2>1. e \in Event
      BY Ranges
    <2>2. e.id \in Calls /\ call[e.id].state # "unsent"
      BY <1>2, <2>1, EventKinds DEF Typed, CallsSent
    <2> QED BY <2>2, CallsKeep DEF Cancels
  <1> QED BY <1>1, <1>2

(* A command is cancelled by the sweep of an abort of its account.          *)
Sweeps(d, c) ==
  /\ AbortAccountSync(d) /\ d # c /\ Pending(c)
  /\ call'[d].cmd = "CANCEL_SYNC" /\ call'[d].account = call[c].account

LEMMA SweptWhat ==
  ASSUME Typed, NEW d \in Calls, NEW a \in Accounts, NEW fate \in Fates,
         call' = [Swept(a) EXCEPT ![d] = Sent("CANCEL_SYNC", a, fate)]
  PROVE  call'[d] = Sent("CANCEL_SYNC", a, fate)
  BY SweptType DEF Table

LEMMA SweptOther ==
  ASSUME Typed, NEW d \in Calls, NEW a \in Accounts, NEW fate \in Fates,
         call' = [Swept(a) EXCEPT ![d] = Sent("CANCEL_SYNC", a, fate)],
         NEW c \in Calls, c # d
  PROVE  /\ call'[c] = call[c] \/ (Pending(c) /\ call[c].account = a)
         /\ Pending(c) /\ call[c].account = a /\ call[c].cmd \in ABORTABLE_CMDS
            => call'[c].state = "cancelled"
  <1>1. call'[c] = Swept(a)[c]
    BY SweptType DEF Table
  <1>2. Pending(c) => [call[c] EXCEPT !.state = "cancelled"].state = "cancelled"
    BY SettlingKeeps DEF Settled
  <1> QED BY <1>1, <1>2 DEF Swept

LEMMA CancelledBySweep ==
  ASSUME Typed, [Next]_vars, NEW c \in Calls, call'[c].state = "cancelled"
  PROVE  call[c].state = "cancelled" \/ \E d \in Calls : Sweeps(d, c)
  <1> DEFINE Why == call[c].state = "cancelled" \/ \E d \in Calls : Sweeps(d, c)
  <1>1. ASSUME call'[c] = call[c] PROVE Why
    BY <1>1
  <1>2. ASSUME NEW code \in Settled, code # "cancelled", Pending(c),
               call'[c] = [call[c] EXCEPT !.state = code]
        PROVE  Why
    BY <1>2, SettlingKeeps
  <1>3. ASSUME NEW code \in Settled, code # "cancelled", RejectPending(code) PROVE Why
    BY <1>1, <1>2, <1>3 DEF RejectPending
  <1>4. ASSUME ClosePortToProvider \/ HostRestart PROVE Why
    BY <1>3, <1>4 DEF ClosePortToProvider, HostRestart, Settled
  <1>5. ASSUME NEW d \in Calls, SendCmd(d) PROVE Why
    <2>1. PICK cmd \in Commands, a \in Accounts, fate \in Fates :
            call' = [call EXCEPT ![d] = Sent(cmd, a, fate)]
      BY <1>5, ChannelAssumption DEF SendCmd
    <2>2. call'[c] = call[c] \/ call'[c].state = fate
      BY <2>1 DEF Typed, TypeOK, Sent
    <2>3. fate # "cancelled"
      BY FatesType
    <2> QED BY <1>1, <2>2, <2>3
  <1>6. ASSUME NEW d \in Calls, AbortAccountSync(d) PROVE Why
    <2>1. PICK a \in Accounts, fate \in Fates :
            call' = [Swept(a) EXCEPT ![d] = Sent("CANCEL_SYNC", a, fate)]
      BY <1>6 DEF AbortAccountSync
    <2>2. call'[d].cmd = "CANCEL_SYNC" /\ call'[d].account = a /\ call'[d].state = fate
      <3>1. call'[d] = Sent("CANCEL_SYNC", a, fate)
        BY <2>1, SweptWhat
      <3> QED BY <3>1 DEF Sent
    <2>3. fate # "cancelled"
      BY FatesType
    <2>4. c # d
      BY <2>2, <2>3
    <2>5. call'[c] = call[c] \/ (Pending(c) /\ call[c].account = a)
      BY <2>1, <2>4, SweptOther
    <2>6. Pending(c) /\ call[c].account = a => Sweeps(d, c)
      BY <1>6, <2>2, <2>4 DEF Sweeps
    <2> QED BY <1>1, <2>5, <2>6
  <1>7. ASSUME HostReceive \/ \E d \in Calls : Timeout(d) PROVE Why
    <2>1. \/ call' = call \/ RejectPending("closed")
          \/ \E d \in Calls, code \in Settled :
               code # "cancelled" /\ Pending(d) /\ call' = [call EXCEPT ![d].state = code]
      <3>1. CASE HostReceive
        <4>1. Head(toHost) \in Event
          BY <3>1, Ranges, Received DEF HostReceive
        <4> QED BY <3>1, <4>1, EventKinds DEF HostReceive, Settled
      <3>2. CASE \E d \in Calls : Timeout(d)
        BY <3>2 DEF Timeout, Settled
      <3> QED BY <1>7, <3>1, <3>2
    <2>2. ASSUME NEW d \in Calls, NEW code \in Settled, code # "cancelled", Pending(d),
                 call' = [call EXCEPT ![d].state = code]
          PROVE  Why
      <3>1. call'[c] = call[c] \/ (c = d /\ call'[c] = [call[c] EXCEPT !.state = code])
        BY <2>2 DEF Typed, TypeOK
      <3> QED BY <1>1, <1>2, <2>2, <3>1
    <2> QED BY <1>1, <1>3, <2>1, <2>2 DEF Settled
  <1>8. ASSUME OpenPortToProvider \/ ProviderReceive \/ ProviderEnds \/ ProviderStarts
               \/ UNCHANGED vars \/ (\E d \in Calls : Finish(d))
               \/ (\E r \in Asks : Serve(r) \/ RequestSync(r))
        PROVE  Why
    BY <1>1, <1>8 DEF OpenPortToProvider, ProviderReceive, ProviderEnds, ProviderStarts,
       Finish, Serve, RequestSync, host, vars
  <1> QED BY <1>4, <1>5, <1>6, <1>7, <1>8 DEF Next

(* How a step changes what is on its way to the provider.                   *)

(* Handlers may end and controllers go, no other begins.                    *)
Calm ==
  /\ \A c \in Calls : running'[c] \in {0, running[c]}
  /\ \A a \in Accounts : aborts'[a] \in {aborts[a], NoController}

Posts(e) ==
  /\ toProvider' = Append(toProvider, e)
  /\ e.kind = "call" => \E d \in Calls : e = CallEvent(d) /\ (SendCmd(d) \/ AbortAccountSync(d))

(* How a step changes what is on its way to the provider.                   *)
LEMMA QueueStep ==
  ASSUME Typed, [Next]_vars
  PROVE  \/ ProviderReceive
         \/ toProvider' = <<>> /\ \A c \in Calls : running'[c] = 0
         \/ (toProvider' = toProvider \/ \E e \in Event : Posts(e)) /\ Calm
  <1>1. CASE ProviderEnds
    BY <1>1 DEF ProviderEnds
  <1>2. ASSUME NEW c \in Calls, Finish(c) PROVE Calm /\ toProvider' = toProvider
    BY <1>2 DEF Finish, Calm, Typed, TypeOK
  <1>3. ASSUME UNCHANGED <<running, aborts>> PROVE Calm
    BY <1>3 DEF Calm
  <1>4. ASSUME NEW c \in Calls, SendCmd(c) \/ AbortAccountSync(c)
        PROVE  (toProvider' = toProvider \/ \E e \in Event : Posts(e)) /\ Calm
    <2>1. /\ toProvider' = Posted(toProvider, port, CallEvent(c)) /\ UNCHANGED <<running, aborts>>
      BY <1>4 DEF SendCmd, AbortAccountSync, provider
    <2>2. port \in Ports => CallEvent(c) \in Event
      BY EventTypes DEF CallEvent
    <2>3. \/ toProvider' = toProvider
          \/ CallEvent(c) \in Event /\ toProvider' = Append(toProvider, CallEvent(c))
      BY <2>1, <2>2, PostedWhat
    <2> QED BY <1>3, <1>4, <2>1, <2>3 DEF Posts
  <1>5. ASSUME NEW e, port \in Ports => e \in Event, e.kind # "call",
               toProvider' = Posted(toProvider, port, e)
        PROVE  toProvider' = toProvider \/ \E f \in Event : Posts(f)
    BY <1>5, PostedWhat DEF Posts
  <1>6. CASE ClosePortToProvider \/ HostRestart
    <2>1. toProvider' = Posted(toProvider, port, Disconnect(port)) /\ UNCHANGED <<running, aborts>>
      BY <1>6 DEF ClosePortToProvider, HostRestart, provider
    <2>2. (port \in Ports => Disconnect(port) \in Event) /\ Disconnect(port).kind # "call"
      BY EventTypes DEF Disconnect
    <2> QED BY <1>3, <1>5, <2>1, <2>2
  <1>7. ASSUME NEW r \in Asks, Serve(r)
        PROVE  (toProvider' = toProvider \/ \E e \in Event : Posts(e)) /\ Calm
    <2>1. PICK answer : answer = [kind |-> "askReply", port |-> port, id |-> r]
      OBVIOUS
    <2>2. /\ UNCHANGED <<running, aborts>>
          /\ toProvider' = toProvider \/ toProvider' = Posted(toProvider, port, answer)
      BY <1>7, <2>1 DEF Serve, provider
    <2>3. (port \in Ports => answer \in Event) /\ answer.kind # "call"
      BY <2>1, EventTypes
    <2> QED BY <1>3, <1>5, <2>2, <2>3
  <1>8. CASE OpenPortToProvider
    <2>1. opened + 1 \in Ports
      BY <1>8, Ranges, ChannelAssumption DEF OpenPortToProvider, Ports
    <2>2. Connect(opened + 1) \in Event /\ Connect(opened + 1).kind # "call"
      BY <2>1, EventTypes DEF Connect
    <2> QED BY <1>3, <1>8, <2>2 DEF OpenPortToProvider, Posts, provider
  <1>9. CASE \/ HostReceive \/ ProviderStarts \/ UNCHANGED vars
             \/ (\E c \in Calls : Timeout(c)) \/ (\E r \in Asks : RequestSync(r))
    <2>1. UNCHANGED <<toProvider, running, aborts>>
      BY <1>9 DEF HostReceive, ProviderStarts, Timeout, RequestSync, provider, host, vars
    <2> QED BY <1>3, <2>1
  <1> QED BY <1>1, <1>2, <1>4, <1>6, <1>7, <1>8, <1>9 DEF Next

(* A command that has been sent is not sent again.                          *)
LEMMA PostsOther ==
  ASSUME Typed, NEW c \in Calls, call[c].state # "unsent", NEW e \in Event, Posts(e)
  PROVE  ~Brings(e, c)
  <1> SUFFICES ASSUME e.kind = "call", e.id = c PROVE FALSE
    BY DEF Brings
  <1>1. PICK d \in Calls : e = CallEvent(d) /\ (SendCmd(d) \/ AbortAccountSync(d))
    BY DEF Posts
  <1>2. d = c
    BY <1>1 DEF CallEvent
  <1> QED BY <1>1, <1>2 DEF SendCmd, AbortAccountSync, DrivenBy

LEMMA SentAccount ==
  ASSUME Typed, NEW c \in Calls, call[c].state # "unsent"
  PROVE  call[c].account \in Accounts /\ call[c].cmd \in Commands
  BY DEF Typed, TypeOK, Call

LEMMA AheadPosted ==
  ASSUME Typed, [Next]_vars, CancelAhead, NEW c \in Calls, Pending(c), call'[c].state = "pending",
         call[c].cmd = "SYNC_FOLDER", NEW a, a = call[c].account,
         toProvider' = toProvider \/ \E e \in Event : Posts(e), Calm,
         NEW i \in 1..Len(toProvider'), NEW e, e = toProvider'[i], Cancels(e, a)'
  PROVE  running'[c] = 0 /\ \A j \in 1..i : ~Brings(toProvider'[j], c)
  <1>1. ASSUME i \in 1..Len(toProvider), \A j \in 1..i : toProvider'[j] = toProvider[j]
        PROVE  running'[c] = 0 /\ \A j \in 1..i : ~Brings(toProvider'[j], c)
    <2>1. e = toProvider[i]
      BY <1>1
    <2>2. Cancels(e, a)
      BY <1>1, <2>1, CancelsSame
    <2>3. running[c] = 0 /\ \A j \in 1..i : ~Brings(toProvider[j], c)
      BY <1>1, <2>1, <2>2 DEF CancelAhead
    <2> QED BY <1>1, <2>3 DEF Calm
  <1>2. CASE toProvider' = toProvider
    BY <1>1, <1>2
  <1>3. ASSUME NEW f \in Event, Posts(f)
        PROVE  running'[c] = 0 /\ \A j \in 1..i : ~Brings(toProvider'[j], c)
    <2>1. PICK n : n = Len(toProvider)
      OBVIOUS
    <2>2. /\ n \in Nat /\ Len(toProvider') = n + 1 /\ toProvider'[n + 1] = f
          /\ \A j \in 1..n : toProvider'[j] = toProvider[j]
      BY <1>3, <2>1, Ranges, Appended DEF Posts
    <2>3. CASE i = n + 1
      <3>1. e = f /\ f.kind = "call" /\ call'[f.id].cmd = "CANCEL_SYNC" /\ call'[f.id].account = a
        BY <2>2, <2>3 DEF Cancels
      <3>2. PICK d \in Calls : f = CallEvent(d) /\ (SendCmd(d) \/ AbortAccountSync(d))
        BY <1>3, <3>1 DEF Posts
      <3>3. f.id = d
        BY <3>2 DEF CallEvent
      <3>4. CASE SendCmd(d)
        <4>1. PICK cmd \in Drives, b \in Accounts, fate \in Fates :
                call' = [call EXCEPT ![d] = Sent(cmd, b, fate)]
          BY <3>4 DEF SendCmd
        <4>2. call'[d].cmd = cmd
          BY <4>1 DEF Typed, TypeOK, Sent
        <4> QED BY <3>1, <3>3, <4>2, ChannelAssumption
      <3>5. CASE AbortAccountSync(d)
        <4>1. PICK b \in Accounts, fate \in Fates :
                call' = [Swept(b) EXCEPT ![d] = Sent("CANCEL_SYNC", b, fate)]
          BY <3>5 DEF AbortAccountSync
        <4>2. call'[d] = Sent("CANCEL_SYNC", b, fate)
          BY <4>1, SweptWhat
        <4>3. b = a
          BY <3>1, <3>3, <4>2 DEF Sent
        <4>4. c # d
          BY <3>5 DEF AbortAccountSync, Pending
        <4>5. call'[c].state = "cancelled"
          BY <4>1, <4>3, <4>4, SweptOther DEF ABORTABLE_CMDS
        <4> QED BY <4>5
      <3> QED BY <3>2, <3>4, <3>5
    <2>4. CASE i # n + 1
      <3>1. i \in 1..n /\ \A j \in 1..i : toProvider'[j] = toProvider[j]
        BY <2>2, <2>4
      <3> QED BY <1>1, <2>1, <3>1
    <2> QED BY <2>3, <2>4
  <1> QED BY <1>2, <1>3

LEMMA AheadReceived ==
  ASSUME Typed, PortsInOrder, [Next]_vars, CancelAhead, NEW c \in Calls, Pending(c),
         call[c].cmd = "SYNC_FOLDER", NEW a, a = call[c].account, ProviderReceive,
         NEW i \in 1..Len(toProvider'), NEW e, e = toProvider'[i], Cancels(e, a)'
  PROVE  running'[c] = 0 /\ \A j \in 1..i : ~Brings(toProvider'[j], c)
  <1>1. PICK h : h = Head(toProvider)
    OBVIOUS
  <1>2. /\ toProvider # <<>> /\ toProvider' = Tail(toProvider)
        /\ h.kind = "call" => DispatchHostCmd(h.id)
        /\ h.kind # "call" => UNCHANGED <<running, aborts>>
    BY <1>1, Hears
  <1>3. PICK n : n = Len(toProvider')
    OBVIOUS
  <1>4. /\ n \in Nat /\ Len(toProvider) = n + 1 /\ toProvider[1] = h
        /\ \A j \in 1..n : toProvider'[j] = toProvider[j + 1]
    BY <1>1, <1>2, <1>3, Ranges, Received
  <1>5. i + 1 \in 1..Len(toProvider) /\ e = toProvider[i + 1]
    BY <1>3, <1>4
  <1>6. Cancels(e, a)
    BY <1>5, CancelsSame
  <1>7. running[c] = 0 /\ \A j \in 1..(i + 1) : ~Brings(toProvider[j], c)
    BY <1>5, <1>6 DEF CancelAhead
  <1>8. running'[c] = 0
    <2>1. ~Brings(h, c)
      <3>1. 1 \in 1..(i + 1)
        BY <1>3, <1>4
      <3> QED BY <1>4, <1>7, <3>1
    <2>2. running' = running \/ \E d, q : d # c /\ running' = [running EXCEPT ![d] = q]
      BY <1>2, <2>1 DEF Brings, DispatchHostCmd
    <2> QED BY <1>7, <2>2 DEF Typed, TypeOK
  <1>9. ASSUME NEW j \in 1..i PROVE ~Brings(toProvider'[j], c)
    <2>1. j \in 1..n /\ j + 1 \in 1..(i + 1)
      BY <1>3, <1>4
    <2> QED BY <1>4, <1>7, <2>1
  <1> QED BY <1>8, <1>9

LEMMA AheadSent ==
  ASSUME Typed, NEW c \in Calls, SendCmd(c), call'[c].cmd = "SYNC_FOLDER", NEW a,
         toProvider' = toProvider \/ \E e \in Event : Posts(e), Calm,
         NEW i \in 1..Len(toProvider'), NEW e, e = toProvider'[i], Cancels(e, a)'
  PROVE  running'[c] = 0 /\ \A j \in 1..i : ~Brings(toProvider'[j], c)
  <1>1. call[c].state = "unsent" /\ running[c] = 0
    BY DEF SendCmd, DrivenBy, Typed, TypeOK
  <1>2. \A j \in 1..Len(toProvider) : ~Brings(toProvider[j], c)
    BY <1>1 DEF Typed, CallsSent, Brings
  <1>3. ~Brings(e, c)
    BY DEF Brings, Cancels
  <1>4. \A j \in 1..Len(toProvider') :
          (j \in 1..Len(toProvider) /\ toProvider'[j] = toProvider[j]) \/ j = Len(toProvider')
    <2>1. ASSUME NEW f \in Event, toProvider' = Append(toProvider, f),
                 NEW j \in 1..Len(toProvider')
          PROVE  (j \in 1..Len(toProvider) /\ toProvider'[j] = toProvider[j])
                 \/ j = Len(toProvider')
      <3>1. Len(toProvider') = Len(toProvider) + 1 /\ Len(toProvider) \in Nat
            /\ \A k \in 1..Len(toProvider) : toProvider'[k] = toProvider[k]
        BY <2>1, Ranges, Appended
      <3> QED BY <3>1
    <2> QED BY <2>1 DEF Posts
  <1>5. ASSUME NEW j \in 1..i PROVE ~Brings(toProvider'[j], c)
    <2>1. j \in 1..Len(toProvider')
      BY Ranges, TypedSend DEF Typed, TypeOK
    <2>2. CASE j \in 1..Len(toProvider) /\ toProvider'[j] = toProvider[j]
      BY <1>2, <2>2
    <2>3. CASE j = Len(toProvider')
      <3>1. j = i
        BY <2>3, TypedSend DEF Typed, TypeOK
      <3> QED BY <1>3, <3>1
    <2> QED BY <1>4, <2>1, <2>2, <2>3
  <1>6. running'[c] = 0
    BY <1>1 DEF Calm
  <1> QED BY <1>5, <1>6

LEMMA AheadStep ==
  ASSUME Typed, PortsInOrder, PendingOnPort, [Next]_vars, CancelAhead
  PROVE  CancelAhead'
  <1> SUFFICES ASSUME NEW c \in Calls, call'[c].state = "pending", call'[c].cmd = "SYNC_FOLDER",
                      NEW a, a = call'[c].account,
                      NEW i \in 1..Len(toProvider'), NEW e, e = toProvider'[i], Cancels(e, a)'
               PROVE  running'[c] = 0 /\ \A j \in 1..i : ~Brings(toProvider'[j], c)
    BY DEF CancelAhead, Pending, Cancels, Brings
  <1>1. CASE Pending(c)
    <2>1. call[c].cmd = "SYNC_FOLDER" /\ call[c].account = a
      BY <1>1, CallsKeep DEF Pending
    <2>2. CASE toProvider' = <<>>
      BY <2>2
    <2> QED BY <1>1, <2>1, <2>2, QueueStep, AheadPosted, AheadReceived
  <1>2. CASE SendCmd(c)
    <2>1. ~ProviderReceive
      <3>1. call' = call => FALSE
        BY <1>2 DEF SendCmd, DrivenBy
      <3> QED BY <3>1 DEF ProviderReceive, host
    <2>2. CASE toProvider' = <<>>
      BY <2>2
    <2> QED BY <1>2, <2>1, <2>2, QueueStep, AheadSent
  <1>3. CASE AbortAccountSync(c)
    <2>1. PICK b \in Accounts, fate \in Fates :
            call' = [Swept(b) EXCEPT ![c] = Sent("CANCEL_SYNC", b, fate)]
      BY <1>3 DEF AbortAccountSync
    <2>2. call'[c] = Sent("CANCEL_SYNC", b, fate)
      BY <2>1, SweptWhat
    <2> QED BY <2>2 DEF Sent
  <1> QED BY <1>1, <1>2, <1>3, PendingOrSent

LEMMA BehindStep ==
  ASSUME Typed, PortsInOrder, PendingOnPort, Routed, [Next]_vars, CancelBehind
  PROVE  CancelBehind'
  <1> SUFFICES ASSUME NEW c \in Calls, call'[c].state = "cancelled",
                      NEW a, a = call'[c].account,
                      NEW i \in 1..Len(toProvider'), Brings(toProvider'[i], c)
               PROVE  \E j \in (i + 1)..Len(toProvider') : \E e : e = toProvider'[j] /\ Cancels(e, a)'
    BY DEF CancelBehind, Brings, Cancels
  <1>1. PICK n : n = Len(toProvider)
    OBVIOUS
  <1>2. n \in Nat
    BY <1>1, Ranges
  <1>3. call[c].state # "unsent" /\ call[c].account = a
    <2>1. call[c].state # "unsent"
      BY CancelledBySweep DEF Sweeps, Pending
    <2> QED BY <2>1, CallsKeep
  <1>4. CASE toProvider' = <<>> \/ toProvider' = toProvider \/ \E e \in Event : Posts(e)
    <2>1. /\ i \in 1..n /\ toProvider'[i] = toProvider[i]
          /\ \A j \in 1..n : j \in 1..Len(toProvider') /\ toProvider'[j] = toProvider[j]
      <3>1. CASE toProvider' = toProvider
        BY <1>1, <3>1
      <3>2. ASSUME NEW e \in Event, Posts(e)
            PROVE  /\ i \in 1..n /\ toProvider'[i] = toProvider[i]
                   /\ \A j \in 1..n : j \in 1..Len(toProvider') /\ toProvider'[j] = toProvider[j]
        <4>1. /\ Len(toProvider') = n + 1 /\ toProvider'[n + 1] = e
              /\ \A j \in 1..n : toProvider'[j] = toProvider[j]
          BY <1>1, <3>2, Ranges, Appended DEF Posts
        <4>2. ~Brings(e, c)
          BY <1>3, <3>2, PostsOther
        <4>3. i # n + 1
          BY <4>1, <4>2
        <4> QED BY <1>2, <4>1, <4>3
      <3>3. toProvider' # <<>>
        OBVIOUS
      <3> QED BY <1>4, <3>1, <3>2, <3>3
    <2>2. CASE call[c].state = "cancelled"
      <3>1. PICK j \in (i + 1)..n : Cancels(toProvider[j], a)
        BY <1>1, <1>3, <2>1, <2>2 DEF CancelBehind
      <3>2. j \in 1..n
        BY <1>2, <2>1
      <3>3. PICK e : e = toProvider[j]
        OBVIOUS
      <3>4. Cancels(e, a)'
        BY <1>1, <3>1, <3>2, <3>3, CancelsSame
      <3>5. j \in (i + 1)..Len(toProvider') /\ e = toProvider'[j]
        BY <2>1, <3>2, <3>3
      <3> QED BY <3>4, <3>5
    <2>3. ASSUME NEW d \in Calls, Sweeps(d, c)
          PROVE  \E j \in (i + 1)..Len(toProvider') : \E e : e = toProvider'[j] /\ Cancels(e, a)'
      <3>1. toProvider[i] \in Event /\ toProvider[i].kind = "call" /\ toProvider[i].id = c
        BY <1>1, <2>1, Ranges DEF Brings
      <3>2. port # 0 /\ call[c].on = port
        BY <2>3 DEF Sweeps, PendingOnPort
      <3>3. toProvider[i].port = port
        BY <1>1, <2>1, <3>1, <3>2 DEF Routed, CallsOnPort
      <3>4. PICK k \in 0..(i - 1) : PortAt(incoming, toProvider, k) = port
        BY <1>1, <2>1, <3>1, <3>3 DEF Routed, Carried, CarriedBy
      <3>5. Linked(port)
        <4>1. k \in 0..Len(toProvider)
          BY <1>1, <1>2, <2>1
        <4> QED BY <3>2, <3>4, <4>1, PortAtLinked
      <3>6. toProvider' = Append(toProvider, CallEvent(d)) /\ CallEvent(d) \in Event
        <4>1. toProvider' = Posted(toProvider, port, CallEvent(d))
          BY <2>3 DEF Sweeps, AbortAccountSync
        <4>2. port \in Ports
          BY <3>5, Ranges, LinkedPort
        <4> QED BY <3>5, <4>1, <4>2, EventTypes DEF Posted, CallEvent
      <3>7. Len(toProvider') = n + 1 /\ toProvider'[n + 1] = CallEvent(d)
        BY <1>1, <3>6, Ranges, Appended
      <3>8. PICK e : e = CallEvent(d)
        OBVIOUS
      <3>9. e.kind = "call" /\ e.id = d
        BY <3>8 DEF CallEvent
      <3>10. Cancels(e, a)'
        BY <1>3, <2>3, <3>9 DEF Cancels, Sweeps
      <3>11. n + 1 \in (i + 1)..Len(toProvider')
        BY <1>2, <2>1, <3>7
      <3> QED BY <3>7, <3>8, <3>10, <3>11
    <2> QED BY <2>2, <2>3, CancelledBySweep
  <1>5. CASE ProviderReceive
    <2>1. toProvider # <<>> /\ toProvider' = Tail(toProvider) /\ call' = call
      BY <1>5 DEF ProviderReceive, host
    <2>2. /\ n = Len(toProvider') + 1 /\ Len(toProvider') \in Nat
          /\ \A j \in 1..Len(toProvider') : toProvider'[j] = toProvider[j + 1]
      BY <1>1, <2>1, Ranges, Received
    <2>3. i + 1 \in 1..n /\ Brings(toProvider[i + 1], c)
      BY <2>2
    <2>4. PICK j \in ((i + 1) + 1)..n : Cancels(toProvider[j], a)
      BY <1>1, <1>3, <2>1, <2>3 DEF CancelBehind
    <2>5. j - 1 \in (i + 1)..Len(toProvider') /\ j - 1 \in 1..Len(toProvider') /\ j \in 1..n
          /\ (j - 1) + 1 = j
      BY <2>2, <2>4
    <2>6. PICK e : e = toProvider[j]
      OBVIOUS
    <2>7. Cancels(e, a)'
      BY <1>1, <2>4, <2>5, <2>6, CancelsSame
    <2>8. e = toProvider'[j - 1]
      BY <2>2, <2>5, <2>6
    <2> QED BY <2>5, <2>7, <2>8
  <1> QED BY <1>4, <1>5, QueueStep

(* What the host is rid of by a sweep, while its handler runs, is told so.  *)
LEMMA SweepTold ==
  ASSUME Typed, PendingOnPort, Routed, NEW c \in Calls, NEW d \in Calls, Sweeps(d, c),
         running[c] # 0, NEW a, a = call[c].account
  PROVE  \E j \in 1..Len(toProvider') : \E e : e = toProvider'[j] /\ Cancels(e, a)'
  <1>1. port # 0 /\ call[c].on = port
    BY DEF Sweeps, PendingOnPort
  <1>2. incoming = port
    BY <1>1 DEF Routed, CallsOnPort
  <1>3. Linked(port) /\ port \in Ports
    BY <1>1, <1>2, Ranges DEF Linked, Ports
  <1>4. toProvider' = Append(toProvider, CallEvent(d)) /\ CallEvent(d) \in Event
    BY <1>3, EventTypes DEF Sweeps, AbortAccountSync, Posted, CallEvent
  <1>5. Len(toProvider') \in Nat /\ Len(toProvider') = Len(toProvider) + 1 /\ Len(toProvider) \in Nat
        /\ toProvider'[Len(toProvider')] = CallEvent(d)
    BY <1>4, Ranges, Appended
  <1>6. PICK e : e = CallEvent(d)
    OBVIOUS
  <1>7. Cancels(e, a)'
    BY <1>6 DEF Cancels, Sweeps, CallEvent
  <1>8. Len(toProvider') \in 1..Len(toProvider')
    BY <1>5
  <1> QED BY <1>5, <1>6, <1>7, <1>8

(* What the provider does with a controller when it hears of anything but   *)
(* the command that owns it: the owner stays, and an abort is not undone.   *)
LEMMA OwnerHeard ==
  ASSUME Typed, PortsInOrder, Routed, ProviderReceive, NEW h, h = Head(toProvider),
         NEW c \in Calls, ~Brings(h, c), NEW a \in Accounts, aborts'[a].owner = c
  PROVE  /\ running'[c] = running[c] /\ aborts[a].owner = c
         /\ aborts[a].aborted \/ Cancels(h, a) => aborts'[a].aborted
  <1>1. /\ toProvider # <<>> /\ h \in Event
        /\ h.kind = "call" => DispatchHostCmd(h.id)
        /\ h.kind # "call" => UNCHANGED <<running, aborts>>
        /\ h.kind = "connect" => incoming = 0
        /\ incoming' = IF h.kind = "connect" THEN h.port
                       ELSE IF h = Disconnect(incoming) THEN 0 ELSE incoming
        /\ incoming' \in Nat
    BY Hears
  <1>2. CASE h.kind # "call"
    BY <1>1, <1>2 DEF Cancels
  <1>3. CASE h.kind = "call"
    <2>1. h.id \in Calls /\ h.id # c
      BY <1>1, <1>3, EventKinds DEF Brings
    <2>2. incoming = h.port /\ h.port # 0
      <3>1. incoming = h.port
        BY <1>1, <1>3, Ranges, CarriedTail DEF Routed
      <3> QED BY <1>1, <3>1, EventKinds DEF Ports
    <2>3. PICK d : d = h.id
      OBVIOUS
    <2>4. /\ running' = [running EXCEPT ![d] = incoming]
          /\ aborts' = IF call[d].cmd \in SYNC_CMDS
                       THEN [aborts EXCEPT ![call[d].account] = ControllerFor(d, call[d].account)]
                       ELSE IF call[d].cmd = "CANCEL_SYNC" /\ aborts[call[d].account] # NoController
                       THEN [aborts EXCEPT ![call[d].account].aborted = TRUE]
                       ELSE aborts
      BY <1>1, <1>3, <2>2, <2>3 DEF DispatchHostCmd
    <2>5. running'[c] = running[c]
      BY <2>1, <2>3, <2>4 DEF Typed, TypeOK
    <2>6. aborts \in [Accounts -> Controller] /\ NoController.owner # c
      BY ChannelAssumption DEF Typed, TypeOK, NoController
    <2>7. CASE call[d].cmd \in SYNC_CMDS
      <3>1. ~Cancels(h, a)
        BY <2>3, <2>7 DEF Cancels, SYNC_CMDS
      <3>2. CASE aborts'[a] = aborts[a]
        BY <2>5, <3>1, <3>2
      <3>3. CASE call[d].account = a /\ aborts'[a] = ControllerFor(d, a)
        <4>1. aborts'[a] = [owner |-> d, aborted |-> FALSE] \/ aborts'[a] = aborts[a]
          BY <3>3 DEF ControllerFor
        <4>2. aborts'[a] = aborts[a]
          BY <2>1, <2>3, <4>1
        <4> QED BY <3>2, <4>2
      <3> QED BY <2>4, <2>6, <2>7, <3>2, <3>3
    <2>8. CASE call[d].cmd \notin SYNC_CMDS
      <3>1. \/ aborts'[a] = aborts[a]
            \/ aborts'[a] = [aborts[a] EXCEPT !.aborted = TRUE]
        BY <2>4, <2>6, <2>8
      <3>2. aborts[a] \in Controller
        BY <2>6
      <3>3. /\ [aborts[a] EXCEPT !.aborted = TRUE].owner = aborts[a].owner
            /\ [aborts[a] EXCEPT !.aborted = TRUE].aborted
        BY <3>2 DEF Controller
      <3>4. aborts[a].owner = c
        BY <3>1, <3>3
      <3>5. aborts[a] # NoController
        BY <2>6, <3>4
      <3>6. Cancels(h, a) => aborts'[a] = [aborts[a] EXCEPT !.aborted = TRUE]
        BY <2>3, <2>4, <2>6, <2>8, <3>5 DEF Cancels
      <3> QED BY <2>5, <3>1, <3>3, <3>4, <3>6
    <2> QED BY <2>7, <2>8
  <1> QED BY <1>2, <1>3

LEMMA DueCancelStep ==
  ASSUME Typed, PortsInOrder, PendingOnPort, Routed, ControllersOwned, [Next]_vars,
         CancelBehind, CancelDue
  PROVE  CancelDue'
  <1> SUFFICES ASSUME NEW c \in Calls, running'[c] # 0, call'[c].state = "cancelled",
                      NEW a, a = call'[c].account, aborts'[a].owner = c, ~aborts'[a].aborted
               PROVE  \E j \in 1..Len(toProvider') : \E e : e = toProvider'[j] /\ Cancels(e, a)'
    BY DEF CancelDue, Cancels
  <1>1. call[c].state # "unsent" /\ call[c].account = a /\ a \in Accounts
    <2>1. call[c].state # "unsent"
      BY CancelledBySweep DEF Sweeps, Pending
    <2> QED BY <2>1, CallsKeep, SentAccount
  <1>2. PICK n : n = Len(toProvider)
    OBVIOUS
  <1>3. n \in Nat
    BY <1>2, Ranges
  <1>4. ASSUME NEW j \in 1..n, Cancels(toProvider[j], a), NEW k \in 1..Len(toProvider'),
               toProvider'[k] = toProvider[j]
        PROVE  \E m \in 1..Len(toProvider') : \E e : e = toProvider'[m] /\ Cancels(e, a)'
    <2>1. PICK e : e = toProvider[j]
      OBVIOUS
    <2>2. Cancels(e, a)'
      BY <1>2, <1>4, <2>1, CancelsSame
    <2> QED BY <1>4, <2>1, <2>2
  <1>5. ASSUME toProvider' = toProvider \/ \E e \in Event : Posts(e), Calm
        PROVE  \E j \in 1..Len(toProvider') : \E e : e = toProvider'[j] /\ Cancels(e, a)'
    <2>1. running[c] # 0 /\ aborts[a].owner = c /\ ~aborts[a].aborted
      <3>1. NoController.owner # c
        BY ChannelAssumption DEF NoController
      <3> QED BY <1>1, <1>5, <3>1 DEF Calm
    <2>2. CASE call[c].state = "cancelled"
      <3>1. PICK j \in 1..n : Cancels(toProvider[j], a)
        BY <1>1, <1>2, <2>1, <2>2 DEF CancelDue
      <3>2. j \in 1..Len(toProvider') /\ toProvider'[j] = toProvider[j]
        <4>1. ASSUME NEW e \in Event, toProvider' = Append(toProvider, e)
              PROVE  j \in 1..Len(toProvider') /\ toProvider'[j] = toProvider[j]
          BY <1>2, <1>3, <4>1, Ranges, Appended
        <4> QED BY <1>2, <1>5, <4>1 DEF Posts
      <3> QED BY <1>4, <3>1, <3>2
    <2>3. CASE \E d \in Calls : Sweeps(d, c)
      BY <1>1, <2>1, <2>3, SweepTold
    <2> QED BY <2>2, <2>3, CancelledBySweep
  <1>6. CASE ProviderReceive
    <2>1. PICK h : h = Head(toProvider)
      OBVIOUS
    <2>2. toProvider # <<>> /\ toProvider' = Tail(toProvider) /\ call' = call
      BY <1>6 DEF ProviderReceive, host
    <2>3. /\ n = Len(toProvider') + 1 /\ Len(toProvider') \in Nat /\ toProvider[1] = h
          /\ \A j \in 1..Len(toProvider') : toProvider'[j] = toProvider[j + 1]
      BY <1>2, <2>1, <2>2, Ranges, Received
    <2>4. ASSUME NEW j \in 2..n, Cancels(toProvider[j], a)
          PROVE  \E m \in 1..Len(toProvider') : \E e : e = toProvider'[m] /\ Cancels(e, a)'
      <3>1. j - 1 \in 1..Len(toProvider') /\ (j - 1) + 1 = j /\ j \in 1..n
        BY <2>3, <2>4
      <3>2. toProvider'[j - 1] = toProvider[j]
        BY <2>3, <3>1
      <3> QED BY <1>4, <2>4, <3>1, <3>2
    <2>5. CASE Brings(h, c)
      <3>1. 1 \in 1..Len(toProvider) /\ 1 + 1 = 2
        BY <1>2, <2>3
      <3>2. PICK j \in 2..n : Cancels(toProvider[j], a)
        BY <1>1, <1>2, <2>2, <2>3, <2>5, <3>1 DEF CancelBehind
      <3> QED BY <2>4, <3>2
    <2>6. CASE ~Brings(h, c)
      <3>1. /\ running[c] # 0 /\ aborts[a].owner = c
            /\ ~aborts[a].aborted /\ ~Cancels(h, a)
        BY <1>1, <1>6, <2>1, <2>6, OwnerHeard
      <3>2. PICK j \in 1..n : Cancels(toProvider[j], a)
        BY <1>1, <1>2, <2>2, <3>1 DEF CancelDue
      <3>3. j \in 2..n
        <4>1. j # 1
          BY <2>3, <3>1, <3>2
        <4> QED BY <1>3, <4>1
      <3> QED BY <2>4, <3>2, <3>3
    <2> QED BY <2>5, <2>6
  <1> QED BY <1>5, <1>6, QueueStep

LEMMA LiveStep ==
  ASSUME Typed, PortsInOrder, PendingOnPort, [Next]_vars, CancelAhead, LiveSyncNotAborted
  PROVE  LiveSyncNotAborted'
  <1> SUFFICES ASSUME NEW c \in Calls, call'[c].state = "pending", running'[c] # 0,
                      call'[c].cmd = "SYNC_FOLDER", NEW a, a = call'[c].account
               PROVE  ~aborts'[a].aborted
    BY DEF LiveSyncNotAborted, Pending
  <1>1. CASE ~Pending(c)
    <2>1. SendCmd(c) \/ AbortAccountSync(c)
      BY <1>1, PendingOrSent
    <2>2. running'[c] = running[c] /\ call[c].state = "unsent"
      BY <2>1 DEF SendCmd, DrivenBy, AbortAccountSync, provider
    <2>3. running[c] = 0
      BY <2>2 DEF Typed, TypeOK
    <2> QED BY <2>2, <2>3
  <1>2. CASE Pending(c)
    <2>1. call[c].state # "unsent" /\ call[c].cmd = "SYNC_FOLDER" /\ call[c].account = a
          /\ a \in Accounts
      BY <1>2, CallsKeep, SentAccount DEF Pending
    <2>2. CASE Calm
      <3>1. running[c] # 0 /\ (aborts'[a] = aborts[a] \/ aborts'[a] = NoController)
        BY <2>1, <2>2 DEF Calm
      <3> QED BY <1>2, <2>1, <3>1 DEF LiveSyncNotAborted, NoController
    <2>3. CASE ProviderReceive
      <3>1. PICK h : h = Head(toProvider)
        OBVIOUS
      <3>2. /\ toProvider # <<>> /\ h \in Event
            /\ h.kind = "call" => DispatchHostCmd(h.id)
            /\ h.kind # "call" => UNCHANGED <<running, aborts>>
        BY <2>3, <3>1, Hears
      <3>3. CASE UNCHANGED <<running, aborts>>
        BY <1>2, <2>1, <3>3 DEF LiveSyncNotAborted
      <3>4. CASE h.kind = "call" /\ ~UNCHANGED <<running, aborts>>
        <4>1. PICK d : d = h.id
          OBVIOUS
        <4>2. d \in Calls
          BY <3>2, <3>4, <4>1, EventKinds
        <4>3. /\ running' = [running EXCEPT ![d] = incoming]
              /\ aborts' = IF call[d].cmd \in SYNC_CMDS
                           THEN [aborts EXCEPT ![call[d].account] = ControllerFor(d, call[d].account)]
                           ELSE IF call[d].cmd = "CANCEL_SYNC" /\ aborts[call[d].account] # NoController
                           THEN [aborts EXCEPT ![call[d].account].aborted = TRUE]
                           ELSE aborts
          BY <3>2, <3>4, <4>1 DEF DispatchHostCmd
        <4>4. aborts \in [Accounts -> Controller] /\ (d # c => running'[c] = running[c])
          BY <4>2, <4>3 DEF Typed, TypeOK
        <4>5. CASE call[d].cmd \in SYNC_CMDS /\ call[d].account = a
          <5>1. aborts'[a] = ControllerFor(d, a)
            BY <2>1, <4>3, <4>4, <4>5
          <5> QED BY <5>1 DEF ControllerFor
        <4>6. CASE call[d].cmd = "CANCEL_SYNC" /\ call[d].account = a
          <5>1. 1 \in 1..Len(toProvider) /\ toProvider[1] = h
            BY <3>1, <3>2, Ranges, Received
          <5>2. Cancels(toProvider[1], a)
            BY <3>4, <4>1, <4>6, <5>1 DEF Cancels
          <5>3. running[c] = 0
            BY <1>2, <2>1, <5>1, <5>2 DEF CancelAhead
          <5>4. d # c
            BY <2>1, <4>6
          <5> QED BY <4>4, <5>3, <5>4
        <4>7. CASE ~(call[d].cmd \in SYNC_CMDS \cup {"CANCEL_SYNC"} /\ call[d].account = a)
          <5>1. aborts'[a] = aborts[a]
            BY <2>1, <4>3, <4>4, <4>7
          <5>2. d # c
            BY <2>1, <4>7 DEF SYNC_CMDS
          <5> QED BY <1>2, <2>1, <4>4, <5>1, <5>2 DEF LiveSyncNotAborted
        <4> QED BY <4>5, <4>6, <4>7
      <3> QED BY <3>2, <3>3, <3>4
    <2> QED BY <2>2, <2>3, QueueStep
  <1> QED BY <1>1, <1>2

LEMMA CallEventIs ==
  ASSUME NEW e \in Event, e.kind = "call"
  PROVE  e.id \in Calls /\ e.port \in Ports /\ e = [kind |-> "call", port |-> e.port, id |-> e.id]
  <1>1. e \in [kind : {"call", "reply"}, port : Ports, id : Calls]
    BY DEF Event
  <1> QED BY <1>1

LEMMA DueReaches ==
  ASSUME Typed, CancelDue
  PROVE  AbortReaches
  <1> SUFFICES ASSUME NEW c \in Calls, running[c] # 0, call[c].state = "cancelled",
                      aborts[call[c].account].owner = c, ~aborts[call[c].account].aborted
               PROVE  \E d \in Calls : /\ call[d].state # "unsent" /\ call[d].cmd = "CANCEL_SYNC"
                                       /\ call[d].account = call[c].account
                                       /\ \E p \in Ports : In(toProvider, [kind |-> "call", port |-> p, id |-> d])
    BY DEF AbortReaches
  <1>1. PICK j \in 1..Len(toProvider) : Cancels(toProvider[j], call[c].account)
    BY DEF CancelDue
  <1>2. PICK e \in Event : e = toProvider[j]
    BY Ranges
  <1>3. e.kind = "call" /\ call[e.id].cmd = "CANCEL_SYNC" /\ call[e.id].account = call[c].account
    BY <1>1, <1>2 DEF Cancels
  <1>4. e.id \in Calls /\ e.port \in Ports /\ e = [kind |-> "call", port |-> e.port, id |-> e.id]
    BY <1>3, CallEventIs
  <1>5. In(toProvider, [kind |-> "call", port |-> e.port, id |-> e.id])
    BY <1>2, <1>4 DEF In
  <1>6. call[e.id].state # "unsent"
    BY <1>2, <1>3 DEF Typed, CallsSent
  <1> QED BY <1>3, <1>4, <1>5, <1>6

LEMMA CancelInit == Init => NoneForgotten /\ CancelBehind /\ CancelDue /\ CancelAhead /\ LiveSyncNotAborted
  BY DEF Init, NoneForgotten, CancelBehind, CancelDue, CancelAhead, LiveSyncNotAborted, Pending, Asking

(* Whatever dies or restarts, on either side, in whatever order: a command  *)
(* or a REQUEST_SYNC that is waited for is on its way, being worked on,     *)
(* answered, or about to be rejected with its port.                         *)
THEOREM NothingForgotten == Spec => []NoneForgotten
  <1> DEFINE Inv == Typed /\ PortsInOrder /\ PendingOnPort /\ Routed /\ NoneForgotten
  <1>1. ChannelAssumption /\ Init => Inv
    BY TypedInit, OrderInit, RoutedInit, CancelInit
  <1>2. Inv /\ [Next]_vars => Inv'
    BY TypedStep, OrderStep, PendingStep, RoutedStep, ForgottenStep
  <1> QED BY <1>1, <1>2, ChannelAssumption, PTL DEF Spec

(* A sync that the host gave up while its handler runs has been told to     *)
(* stop, or the cancel is on its way to it and will be heard: the sweep of  *)
(* the router and CANCEL_SYNC, which travels like any other command, agree. *)
THEOREM CancelReaches == Spec => []AbortReaches
  <1> DEFINE Inv == /\ Typed /\ PortsInOrder /\ PendingOnPort /\ Routed /\ ControllersOwned
                    /\ CancelBehind /\ CancelDue
  <1>1. ChannelAssumption /\ Init => Inv
    <2>1. Init => ControllersOwned
      BY DEF Init, ControllersOwned
    <2> QED BY <2>1, TypedInit, OrderInit, RoutedInit, CancelInit
  <1>2. Inv /\ [Next]_vars => Inv'
    BY TypedStep, OrderStep, PendingStep, RoutedStep, ControllersStep, BehindStep, DueCancelStep
  <1>3. Inv => AbortReaches
    BY DueReaches
  <1> QED BY <1>1, <1>2, <1>3, ChannelAssumption, PTL DEF Spec

(* A cancel never stops a sync that was sent after it: none that the host   *)
(* still waits for runs under an aborted controller.                        *)
THEOREM CancelSpares == Spec => []LiveSyncNotAborted
  <1> DEFINE Inv == Typed /\ PortsInOrder /\ PendingOnPort /\ CancelAhead /\ LiveSyncNotAborted
  <1>1. ChannelAssumption /\ Init => Inv
    BY TypedInit, OrderInit, CancelInit
  <1>2. Inv /\ [Next]_vars => Inv'
    BY TypedStep, OrderStep, PendingStep, AheadStep, LiveStep
  <1>3. Inv => LiveSyncNotAborted
    OBVIOUS
  <1> QED BY <1>1, <1>2, <1>3, ChannelAssumption, PTL DEF Spec
=============================================================================
