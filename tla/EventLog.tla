------------------------------ MODULE EventLog ------------------------------
(***************************************************************************)
(* The event log and the manager page that shows it: event-log.mjs, which  *)
(* keeps the entries in IndexedDB and announces each one to the page, the  *)
(* getState RPC of background.mjs, which reads the log and then other      *)
(* things before it answers, and handleEvent and refreshState of           *)
(* manager.mjs, which put the two together.                                *)
(*                                                                         *)
(* Announcements and answers reach the page in the order they were posted; *)
(* the getState handlers in progress answer in the order they were asked.  *)
(* External: IndexedDB, which may refuse a write, and whoever logs.  An    *)
(* entry is the log it was written to, which a clear or a new session      *)
(* begins, and its seq.  The settings are not modelled: every entry passes *)
(* the gate, and the log is trimmed.                                       *)
(***************************************************************************)
EXTENDS Integers, Sequences

CONSTANTS
  EVENT_LOG_MAX, TRIM_SLACK, EVENT_LOG_DISPLAY_MAX,
  MaxEntries,   \* bound: entries logged
  MaxLogs,      \* bound: logs begun, by a clear or a new session
  MaxRefreshes, \* bound: times the page asks for the state
  MaxFaults     \* bound: refused writes, and host pages that end

ASSUME EventLogAssumption ==
  /\ {EVENT_LOG_MAX, EVENT_LOG_DISPLAY_MAX} \subseteq Nat \ {0}
  /\ {TRIM_SLACK, MaxEntries, MaxLogs, MaxRefreshes, MaxFaults} \subseteq Nat

VARIABLES
  store,        \* the entries in the database, oldest first
  log,          \* the log they belong to
  sessionMark,  \* storage.session: SESSION_MARK
  opened,       \* dbPromise
  nextSeq, entryCount,
  writing,      \* the append between its write and its announcement
  loads,        \* getState handlers in progress
  wire,         \* what is on its way to the page
  asked,        \* getState requests on their way to the host
  eventLog, lastSeenSeq,   \* manager.mjs: state
  entries, refreshes, faults

vars == <<store, log, sessionMark, opened, nextSeq, entryCount, writing, loads, wire,
          asked, eventLog, lastSeenSeq, entries, refreshes, faults>>
dbVars == <<store, log, sessionMark, opened, nextSeq, entryCount>>
pageVars == <<eventLog, lastSeenSeq>>
boundVars == <<entries, refreshes, faults>>

Entry == [log : 0..MaxLogs, seq : 0..MaxEntries]
Nothing == <<>>
Unread == [read |-> FALSE, log |-> Nothing]

Newest(s, n) == IF Len(s) > n THEN SubSeq(s, Len(s) - n + 1, Len(s)) ELSE s

Init ==
  /\ store = <<>> /\ log = 0 /\ sessionMark = FALSE /\ opened = FALSE
  /\ nextSeq = 0 /\ entryCount = 0
  /\ writing = Nothing /\ loads = <<>> /\ wire = <<>> /\ asked = 0
  /\ eventLog = <<>> /\ lastSeenSeq = -1
  /\ entries = 0 /\ refreshes = 0 /\ faults = 0

-----------------------------------------------------------------------------
(* event-log.mjs                                                           *)

(* Mutant: the numbers of a log that goes on start at its last entry.      *)
LastSeq(s) == IF s = <<>> THEN 0 ELSE s[Len(s)].seq

seqAfterLast(s) == IF s = <<>> THEN 0 ELSE s[Len(s)].seq + 1

(* The log of this session is adopted, any other is wiped.                 *)
openDb ==
  /\ ~opened /\ opened' = TRUE
  /\ IF sessionMark
     THEN /\ entryCount' = Len(store) /\ nextSeq' = seqAfterLast(store)
          /\ UNCHANGED <<store, log, sessionMark>>
     ELSE /\ log < MaxLogs
          /\ store' = <<>> /\ log' = log + 1
          /\ entryCount' = 0 /\ nextSeq' = 0 /\ sessionMark' = TRUE
  /\ UNCHANGED <<writing, loads, wire, asked>> /\ UNCHANGED pageVars /\ UNCHANGED boundVars

(* The write of append: an entry that is refused has used up its number.   *)
Write ==
  /\ opened /\ writing = Nothing /\ entries < MaxEntries
  /\ entries' = entries + 1 /\ nextSeq' = nextSeq + 1
  /\ LET stamped == [log |-> log, seq |-> nextSeq]
     IN \/ /\ store' = Append(store, stamped)
           /\ entryCount' = entryCount + 1
           /\ writing' = stamped
           /\ UNCHANGED faults
        \/ /\ faults < MaxFaults /\ faults' = faults + 1
           /\ UNCHANGED <<store, entryCount, writing>>
  /\ UNCHANGED <<log, sessionMark, opened, loads, wire, asked, refreshes>>
  /\ UNCHANGED pageVars

(* trim: the oldest entries go once the log has overshot its limit.        *)
Excess == IF entryCount > EVENT_LOG_MAX + TRIM_SLACK THEN entryCount - EVENT_LOG_MAX ELSE 0

(* The rest of append.  A trim that is refused loses the announcement.     *)
Announce ==
  /\ writing # Nothing /\ writing' = Nothing
  /\ \/ /\ store' = SubSeq(store, Excess + 1, Len(store))
        /\ entryCount' = entryCount - Excess
        /\ wire' = Append(wire, [kind |-> "entry", entry |-> writing])
        /\ UNCHANGED faults
     \/ /\ Excess > 0 /\ faults < MaxFaults /\ faults' = faults + 1
        /\ UNCHANGED <<store, entryCount, wire>>
  /\ UNCHANGED <<log, sessionMark, opened, nextSeq, loads, asked, entries, refreshes>>
  /\ UNCHANGED pageVars

(* clear waits for an append in progress: both are serialized.             *)
clear ==
  /\ opened /\ writing = Nothing /\ log < MaxLogs
  /\ store' = <<>> /\ log' = log + 1 /\ entryCount' = 0 /\ nextSeq' = 0
  /\ wire' = Append(wire, [kind |-> "cleared"])
  /\ UNCHANGED <<sessionMark, opened, writing, loads, asked>>
  /\ UNCHANGED pageVars /\ UNCHANGED boundVars

-----------------------------------------------------------------------------
(* getState                                                                *)

TakeGetState ==
  /\ asked > 0 /\ asked' = asked - 1
  /\ loads' = Append(loads, Unread)
  /\ UNCHANGED <<writing, wire>> /\ UNCHANGED dbVars
  /\ UNCHANGED pageVars /\ UNCHANGED boundVars

(* list, which no writer waits for.                                        *)
List(i) ==
  /\ opened /\ i \in DOMAIN loads /\ ~loads[i].read
  /\ \A j \in 1..i - 1 : loads[j].read
  /\ loads' = [loads EXCEPT ![i] = [read |-> TRUE,
                                    log |-> Newest(store, EVENT_LOG_DISPLAY_MAX)]]
  /\ UNCHANGED <<writing, wire, asked>> /\ UNCHANGED dbVars
  /\ UNCHANGED pageVars /\ UNCHANGED boundVars

(* After the settings, which are read behind the log.                      *)
Reply ==
  /\ loads # <<>> /\ loads[1].read
  /\ loads' = Tail(loads)
  /\ wire' = Append(wire, [kind |-> "state", log |-> loads[1].log])
  /\ UNCHANGED <<writing, asked>> /\ UNCHANGED dbVars
  /\ UNCHANGED pageVars /\ UNCHANGED boundVars

-----------------------------------------------------------------------------
(* The manager page                                                        *)

(* refreshState, on one of the many events that call for it.               *)
Refresh ==
  /\ refreshes < MaxRefreshes /\ refreshes' = refreshes + 1
  /\ asked' = asked + 1
  /\ UNCHANGED <<writing, loads, wire, entries, faults>> /\ UNCHANGED dbVars
  /\ UNCHANGED pageVars

(* Mutant: any entry that is new is appended.                              *)
NeverMissed(entry) == FALSE

Missed(entry) == lastSeenSeq >= 0 /\ entry.seq > lastSeenSeq + 1

Seen(entry) == entry.seq <= lastSeenSeq

EntryArrives(entry) ==
  IF Seen(entry) THEN UNCHANGED <<eventLog, lastSeenSeq, asked>>
  ELSE IF Missed(entry) THEN asked' = asked + 1 /\ UNCHANGED pageVars
  ELSE /\ eventLog' = Newest(Append(eventLog, entry), EVENT_LOG_DISPLAY_MAX)
       /\ lastSeenSeq' = entry.seq
       /\ UNCHANGED asked

Show(shown) ==
  /\ eventLog' = shown
  /\ lastSeenSeq' = IF shown = <<>> THEN -1 ELSE shown[Len(shown)].seq

(* handleEvent, and the rest of refreshState.                              *)
Receive ==
  /\ wire # <<>> /\ wire' = Tail(wire)
  /\ LET m == Head(wire)
     IN \/ m.kind = "entry" /\ EntryArrives(m.entry)
        \/ m.kind = "cleared" /\ Show(<<>>) /\ UNCHANGED asked
        \/ m.kind = "state" /\ Show(m.log) /\ UNCHANGED asked
  /\ UNCHANGED <<writing, loads>> /\ UNCHANGED dbVars /\ UNCHANGED boundVars

(* The background page ends and starts again.  In the same session the     *)
(* manager page stays, connects again and refreshes; in a new one it is    *)
(* new as well.                                                            *)
HostEnds ==
  /\ faults < MaxFaults /\ faults' = faults + 1
  /\ opened' = FALSE /\ nextSeq' = 0 /\ entryCount' = 0
  /\ writing' = Nothing /\ loads' = <<>> /\ wire' = <<>> /\ asked' = 1
  /\ \/ UNCHANGED <<sessionMark, eventLog, lastSeenSeq>>
     \/ sessionMark' = FALSE /\ Show(<<>>)
  /\ UNCHANGED <<store, log, entries, refreshes>>

Next ==
  \/ openDb \/ Write \/ Announce \/ clear
  \/ TakeGetState \/ (\E i \in DOMAIN loads : List(i)) \/ Reply
  \/ Refresh \/ Receive \/ HostEnds

Spec == Init /\ [][Next]_vars

-----------------------------------------------------------------------------

(* The number of the next entry is new, whatever was cleared, trimmed,     *)
(* refused or taken over from a page that ended: an append that met a key  *)
(* of the store would be lost (seqAfterLast).                              *)
TypeOK ==
  /\ store \in Seq(Entry) /\ eventLog \in Seq(Entry)
  /\ \A i \in DOMAIN store : store[i].log = log /\ (opened => store[i].seq < nextSeq)
  /\ \A i \in 1..Len(store) - 1 : store[i].seq < store[i + 1].seq
  /\ opened => entryCount = Len(store)
  /\ log \in 0..MaxLogs /\ {opened, sessionMark} \subseteq BOOLEAN
  /\ nextSeq \in 0..MaxEntries /\ lastSeenSeq \in -1..MaxEntries - 1
  /\ entries \in 0..MaxEntries /\ refreshes \in 0..MaxRefreshes /\ faults \in 0..MaxFaults

(* However announcements and answers overlap, the table shows no entry     *)
(* twice or out of order, and between two entries of a log it leaves out   *)
(* none that the log holds (handleEvent: "instead of leaving a hole").     *)
ViewFaithful ==
  \A i, j \in DOMAIN eventLog :
    i < j /\ eventLog[i].log = eventLog[j].log =>
      /\ eventLog[i].seq < eventLog[j].seq
      /\ \A k \in DOMAIN store :
           /\ store[k].log = eventLog[i].log
           /\ eventLog[i].seq < store[k].seq /\ store[k].seq < eventLog[j].seq
           => \E h \in i..j : eventLog[h] = store[k]

(* "Every appender announces its entry here" (handleEvent), and a jump     *)
(* "means an announcement never arrived": with everything delivered and    *)
(* answered, the newest entry of the log is in the table.                  *)
ViewComplete ==
  (/\ wire = <<>> /\ loads = <<>> /\ asked = 0 /\ writing = Nothing
   /\ opened /\ refreshes > 0 /\ faults = 0 /\ store # <<>>)
  => \E i \in DOMAIN eventLog : eventLog[i] = store[Len(store)]
=============================================================================
