---------------------------- MODULE Popups_proofs ----------------------------
(* What Popups promises for every set of accounts, any number of calls at   *)
(* once, clicks and ends, and however hasty the user.                       *)
EXTENDS Popups, TLAPS

Kinds == AccountButtons \cup {"none", "setup", "reconnect"}

CallRecs == [kind : Kinds,
             acct : Accounts \cup {NoAccount},
             step : {"none", "reading", "waiting", "returned"},
             was : {"none", "off", "on"},
             result : {"none", "success", "failed", "cancelled"},
             mine : BOOLEAN]

HandRecs == [kind : Kinds,
             acct : Accounts \cup {NoAccount},
             step : {"none", "creating", "created", "open", "stuck", "registering",
                     "registered", "preparing", "working"},
             win : {"none", "shown", "closed"},
             editable : BOOLEAN, done : BOOLEAN]

(* What a handler of the provider knows at its step.                        *)
HandSane(h) ==
  /\ h.step \in {"none", "creating"} => h.win = "none" /\ ~h.done
  /\ h.step \in {"registered", "preparing"} => h.acct # NoAccount
  /\ h.step = "working" => h.kind # "setup"

(* The provider's side: what is tracked is what has a window it waits for.  *)
HandInv ==
  /\ hand \in [Calls -> HandRecs]
  /\ tracked \subseteq Calls
  /\ \A c \in Calls : /\ HandSane(hand[c])
                      /\ c \in tracked <=> hand[c].step \in {"open", "stuck"}

(* The host's and the page's side.                                          *)
CallInv == call \in [Calls -> CallRecs]
RowsInv == rows \in [Accounts -> {"unused", "off", "on", "removed"}]
SetsInv ==
  /\ auth \subseteq Accounts /\ busy \subseteq Accounts /\ settingUp \subseteq Accounts
  /\ port \in BOOLEAN
PageInv ==
  /\ configsOpen \subseteq Accounts /\ reauthsOpen \subseteq Accounts
  /\ setupsInFlight \in BOOLEAN
BoundInv == clicks \in 0..MaxClicks /\ ends \in 0..MaxEnds

(* A number is free for the handler of the click that is on its way.        *)
ReadInv == \A c \in Calls : call[c].step = "reading" => hand[c] = NoHand

IInv == HandInv /\ CallInv /\ ReadInv /\ RowsInv /\ SetsInv /\ PageInv /\ BoundInv

LEMMA Typed == IInv => TypeOK
PROOF
  BY DEF IInv, HandInv, CallInv, RowsInv, SetsInv, PageInv, BoundInv, TypeOK,
         HandRecs, CallRecs, Kinds

(* The step relation of CompletedRegisters.                                 *)
Registers ==
  \A c \in {d \in Calls : hand[d].kind = "setup" /\ hand[d].done
                            /\ hand[d].acct = NoAccount /\ hand'[d] = NoHand} : ~port'

LEMMA InvRaises == IInv => Raisable
PROOF
  BY DEF IInv, HandInv, Raisable, focusSetupPopup, focusAccountPopup,
         onFocusSetupPopup, onFocusAccountPopup

-----------------------------------------------------------------------------
(* Records.                                                                 *)

LEMMA NoHandFacts ==
  /\ NoHand \in HandRecs /\ HandSane(NoHand)
  /\ NoHand.step = "none" /\ NoHand.acct = NoAccount /\ NoHand.kind = "none"
PROOF
  BY DEF NoHand, HandRecs, HandSane, Kinds

LEMMA NoCallFacts ==
  /\ NoCall \in CallRecs /\ NoCall.step = "none" /\ NoCall.kind = "none"
PROOF
  BY DEF NoCall, CallRecs, Kinds

(* One handler moves, and what is tracked with it.                          *)
LEMMA OneHand ==
  ASSUME HandInv, NEW c \in Calls, NEW h \in HandRecs, HandSane(h),
         hand' = [hand EXCEPT ![c] = h],
         tracked' = IF h.step \in {"open", "stuck"} THEN tracked \cup {c} ELSE tracked \ {c}
  PROVE  HandInv'
PROOF
<1>1. hand' \in [Calls -> HandRecs] /\ tracked' \subseteq Calls
  BY DEF HandInv
<1>2. ASSUME NEW d \in Calls
      PROVE  HandSane(hand'[d]) /\ (d \in tracked' <=> hand'[d].step \in {"open", "stuck"})
  <2>1. CASE d = c
    <3>1. hand'[d] = h
      BY <2>1 DEF HandInv
    <3> QED BY <3>1, <2>1
  <2>2. CASE d # c
    <3>1. hand'[d] = hand[d] /\ (d \in tracked' <=> d \in tracked)
      BY <2>2 DEF HandInv
    <3> QED BY <3>1 DEF HandInv
  <2> QED BY <2>1, <2>2
<1>3. \A d \in Calls : HandSane(hand[d])' = HandSane(hand'[d])
  BY DEF HandSane
<1> QED BY <1>1, <1>2, <1>3 DEF HandInv

(* One call moves.                                                          *)
LEMMA OneCall ==
  ASSUME CallInv, NEW c \in Calls, NEW r \in CallRecs, call' = [call EXCEPT ![c] = r]
  PROVE  CallInv'
PROOF
  BY DEF CallInv

LEMMA SettleKeeps ==
  ASSUME CallInv, PageInv, NEW c \in Calls, Settle(c)
  PROVE  CallInv' /\ PageInv'
PROOF
<1>1. CallInv'
  BY OneCall, NoCallFacts DEF Settle
<1>2. PageInv'
  BY DEF Settle, PageInv
<1> QED BY <1>1, <1>2

(* A call hears of its command.                                             *)
LEMMA Returned ==
  ASSUME CallInv, NEW c \in Calls, NEW result \in {"success", "failed", "cancelled"},
         call' = [call EXCEPT ![c].step = "returned", ![c].result = result]
  PROVE  CallInv' /\ call'[c].step = "returned" /\ \A d \in Calls : d # c => call'[d] = call[d]
PROOF
<1> DEFINE r == [call[c] EXCEPT !.step = "returned", !.result = result]
<1>1. call[c] \in CallRecs
  BY DEF CallInv
<1>2. r \in [kind : Kinds, acct : Accounts \cup {NoAccount}, step : {"returned"},
             was : {"none", "off", "on"}, result : {result}, mine : BOOLEAN]
  BY <1>1 DEF CallRecs
<1>3. call' = [call EXCEPT ![c] = r]
  BY <1>1 DEF CallInv
<1>4. r \in CallRecs /\ r.step = "returned"
  <2> HIDE DEF r
  <2> QED BY <1>2 DEF CallRecs
<1> HIDE DEF r
<1> QED BY <1>3, <1>4 DEF CallInv

(* An answer ends its handler and may move its call.                        *)
LEMMA AnswerKeeps ==
  ASSUME HandInv, CallInv, NEW c \in Calls, tracked' = tracked \ {c},
         NEW result \in {"success", "failed", "cancelled"}, Answer(c, result)
  PROVE  HandInv' /\ CallInv' /\ hand' = [hand EXCEPT ![c] = NoHand]
PROOF
<1>1. hand' = [hand EXCEPT ![c] = NoHand]
  BY DEF Answer
<1>2. HandInv'
  BY <1>1, OneHand, NoHandFacts
<1>3. CASE call[c].step # "waiting"
  <2>1. call' = call
    BY <1>3 DEF Answer
  <2> QED BY <2>1, <1>1, <1>2 DEF CallInv
<1>4. CASE call[c].step = "waiting"
  <2>1. call' = [call EXCEPT ![c].step = "returned", ![c].result = result]
    BY <1>4 DEF Answer
  <2>2. CallInv'
    BY <2>1, Returned
  <2> QED BY <2>2, <1>1, <1>2
<1> QED BY <1>3, <1>4

(* A step that leaves the provider's side alone loses no setup.             *)
LEMMA HandsStill ==
  ASSUME HandInv, UNCHANGED <<hand, tracked>>
  PROVE  HandInv' /\ Registers
PROOF
<1>1. HandInv'
  BY DEF HandInv, HandSane
<1>2. Registers
  BY NoHandFacts DEF Registers
<1> QED BY <1>1, <1>2

(* A handler of the provider goes on.                                       *)
LEMMA HandMoves ==
  ASSUME IInv, NEW c \in Calls, NEW h \in HandRecs, HandSane(h),
         hand[c].step # "none", h.step # "none",
         hand' = [hand EXCEPT ![c] = h], call' = call,
         tracked' = IF h.step \in {"open", "stuck"} THEN tracked \cup {c} ELSE tracked \ {c}
  PROVE  HandInv' /\ CallInv' /\ ReadInv' /\ Registers
PROOF
<1>1. HandInv'
  BY OneHand DEF IInv
<1>2. hand'[c] = h /\ \A d \in Calls : d # c => hand'[d] = hand[d]
  BY DEF IInv, HandInv
<1>3. CallInv' /\ ReadInv'
  BY <1>2, NoHandFacts DEF IInv, CallInv, ReadInv
<1>4. Registers
  BY <1>2, NoHandFacts DEF Registers
<1> QED BY <1>1, <1>3, <1>4

(* A handler of the provider answers: a setup only if it is not completed,  *)
(* is registered, or has lost the port.                                     *)
LEMMA HandAnswers ==
  ASSUME IInv, NEW c \in Calls, tracked' = tracked \ {c}, hand[c].step # "none",
         NEW result \in {"success", "failed", "cancelled"}, Answer(c, result),
         \/ hand[c].kind # "setup" \/ ~hand[c].done
         \/ hand[c].acct # NoAccount \/ ~port'
  PROVE  HandInv' /\ CallInv' /\ ReadInv' /\ Registers
PROOF
<1>1. HandInv' /\ CallInv' /\ hand' = [hand EXCEPT ![c] = NoHand]
  BY AnswerKeeps DEF IInv
<1>2. hand'[c] = NoHand /\ \A d \in Calls : d # c => hand'[d] = hand[d]
  BY <1>1 DEF IInv, HandInv
<1>3. \A d \in Calls : d # c => call'[d] = call[d]
  <2>1. CASE call[c].step # "waiting"
    BY <2>1 DEF Answer
  <2>2. CASE call[c].step = "waiting"
    <3>1. call' = [call EXCEPT ![c].step = "returned", ![c].result = result]
      BY <2>2 DEF Answer
    <3> QED BY <3>1, Returned DEF IInv
  <2> QED BY <2>1, <2>2
<1>4. ReadInv'
  BY <1>2, <1>3 DEF IInv, ReadInv
<1>5. Registers
  BY <1>2, NoHandFacts DEF Registers
<1> QED BY <1>1, <1>4, <1>5

(* A command is a new handler, which is not yet tracked.                    *)
LEMMA CommandKeeps ==
  ASSUME HandInv, NEW c \in Calls, NEW kind \in Kinds, NEW a \in Accounts \cup {NoAccount},
         NEW editable \in BOOLEAN, hand[c] = NoHand, tracked' = tracked,
         Command(c, kind, a, editable)
  PROVE  HandInv' /\ Registers /\ \A d \in Calls : d # c => hand'[d] = hand[d]
PROOF
<1> DEFINE h == [NoHand EXCEPT !.kind = kind, !.acct = a, !.editable = editable,
                               !.step = IF kind \in Windowed THEN "creating" ELSE "working"]
<1>1. h \in [kind : {kind}, acct : {a}, editable : {editable}, win : {"none"},
             done : {FALSE}, step : IF kind \in Windowed THEN {"creating"} ELSE {"working"}]
  BY DEF NoHand
<1>2. hand' = [hand EXCEPT ![c] = h]
  BY DEF Command
<1> HIDE DEF h
<1>3. /\ h \in HandRecs /\ HandSane(h)
      /\ h.step \notin {"none", "open", "stuck"}
  BY <1>1 DEF HandRecs, HandSane, Windowed
<1>4. tracked' = tracked \ {c}
  BY NoHandFacts DEF HandInv
<1>5. HandInv'
  BY <1>2, <1>3, <1>4, OneHand
<1>6. hand'[c] = h /\ \A d \in Calls : d # c => hand'[d] = hand[d]
  BY <1>2 DEF HandInv
<1>7. Registers
  BY <1>3, <1>6, NoHandFacts DEF Registers
<1> QED BY <1>5, <1>6, <1>7

-----------------------------------------------------------------------------
(* The provider's steps.                                                    *)

LEMMA WindowShowsKeeps ==
  ASSUME IInv, NEW c \in Calls, WindowShows(c)
  PROVE  IInv' /\ Registers
PROOF
<1>1. hand[c].step = "creating" /\ tracked' = tracked /\ tracked = tracked \ {c} /\ ~hand[c].done
  BY DEF WindowShows, IInv, HandInv, HandSane
<1>2. CASE Answer(c, "failed")
  BY <1>1, <1>2, HandAnswers
     DEF WindowShows, pageVars, boundVars, IInv, RowsInv, SetsInv, PageInv, BoundInv
<1>3. CASE hand' = [hand EXCEPT ![c].step = "created", ![c].win = "shown"] /\ call' = call
  <2> DEFINE h == [hand[c] EXCEPT !.step = "created", !.win = "shown"]
  <2>1. hand[c] \in HandRecs /\ hand' = [hand EXCEPT ![c] = h]
    BY <1>3 DEF IInv, HandInv
  <2>2. h \in [kind : Kinds, acct : Accounts \cup {NoAccount}, step : {"created"},
               win : {"shown"}, editable : BOOLEAN, done : BOOLEAN]
    BY <2>1 DEF HandRecs
  <2> HIDE DEF h
  <2>3. h \in HandRecs /\ HandSane(h) /\ h.step = "created"
    BY <2>2 DEF HandRecs, HandSane
  <2>4. HandInv' /\ CallInv' /\ ReadInv' /\ Registers
    BY <1>1, <1>3, <2>1, <2>3, HandMoves
  <2> QED BY <2>4 DEF WindowShows, pageVars, boundVars, IInv, RowsInv, SetsInv, PageInv, BoundInv
<1> QED BY <1>2, <1>3 DEF WindowShows

LEMMA TrackKeeps ==
  ASSUME IInv, NEW c \in Calls, Track(c)
  PROVE  IInv' /\ Registers
PROOF
<1> DEFINE s == IF hand[c].win = "shown" THEN "open" ELSE "stuck"
           h == [hand[c] EXCEPT !.step = s]
<1>1. /\ hand[c].step = "created" /\ call' = call /\ tracked' = tracked \cup {c}
      /\ hand[c] \in HandRecs /\ hand' = [hand EXCEPT ![c] = h]
  BY DEF Track, IInv, HandInv
<1>2. s \in {"open", "stuck"}
  OBVIOUS
<1> HIDE DEF s
<1>3. h \in [kind : Kinds, acct : Accounts \cup {NoAccount}, step : {s},
             win : {"none", "shown", "closed"}, editable : BOOLEAN, done : BOOLEAN]
  BY <1>1 DEF HandRecs
<1> HIDE DEF h
<1>4. h \in HandRecs /\ HandSane(h) /\ h.step \in {"open", "stuck"}
  BY <1>2, <1>3 DEF HandRecs, HandSane
<1>5. HandInv' /\ CallInv' /\ ReadInv' /\ Registers
  BY <1>1, <1>4, HandMoves
<1> QED BY <1>5 DEF Track, pageVars, boundVars, IInv, RowsInv, SetsInv, PageInv, BoundInv

LEMMA UserClosesKeeps ==
  ASSUME IInv, NEW c \in Calls, UserCloses(c)
  PROVE  IInv' /\ Registers
PROOF
<1>1. PICK done \in BOOLEAN : hand' = [hand EXCEPT ![c].win = "closed", ![c].done = done]
  BY DEF UserCloses
<1> DEFINE h == [hand[c] EXCEPT !.win = "closed", !.done = done]
<1>2. /\ hand[c].win = "shown" /\ call' = call /\ tracked' = tracked
      /\ hand[c] \in HandRecs /\ HandSane(hand[c]) /\ hand' = [hand EXCEPT ![c] = h]
      /\ c \in tracked <=> hand[c].step \in {"open", "stuck"}
  BY <1>1 DEF UserCloses, IInv, HandInv
<1>3. h \in [kind : {hand[c].kind}, acct : {hand[c].acct}, step : {hand[c].step},
             win : {"closed"}, editable : BOOLEAN, done : BOOLEAN]
  BY <1>2 DEF HandRecs
<1> HIDE DEF h
<1>4. h \in HandRecs /\ h.step = hand[c].step /\ h.kind = hand[c].kind /\ h.acct = hand[c].acct
  BY <1>2, <1>3 DEF HandRecs
<1>5. HandSane(h)
  BY <1>2, <1>4 DEF HandSane
<1>6. tracked' = IF h.step \in {"open", "stuck"} THEN tracked \cup {c} ELSE tracked \ {c}
  BY <1>2, <1>4 DEF IInv, HandInv
<1>7. hand[c].step # "none"
  BY <1>2 DEF HandSane, UserCloses
<1>8. HandInv' /\ CallInv' /\ ReadInv' /\ Registers
  BY <1>2, <1>4, <1>5, <1>6, <1>7, HandMoves
<1> QED BY <1>8 DEF UserCloses, pageVars, boundVars, IInv, RowsInv, SetsInv, PageInv, BoundInv

LEMMA WindowClosedKeeps ==
  ASSUME IInv, NEW c \in Calls, WindowClosed(c)
  PROVE  IInv' /\ Registers
PROOF
<1> DEFINE result == IF hand[c].kind = "reauth" /\ ~hand[c].done THEN "cancelled" ELSE "success"
<1>1. /\ hand[c].kind # "setup" /\ hand[c].step # "none" /\ tracked' = tracked \ {c}
      /\ result \in {"success", "failed", "cancelled"} /\ Answer(c, result)
  BY DEF WindowClosed, unregisterAccountWindow
<1> HIDE DEF result
<1>2. HandInv' /\ CallInv' /\ ReadInv' /\ Registers
  BY <1>1, HandAnswers
<1> QED BY <1>2 DEF WindowClosed, pageVars, boundVars, IInv, RowsInv, SetsInv, PageInv, BoundInv

LEMMA completeSetupKeeps ==
  ASSUME IInv, NEW c \in Calls, completeSetup(c)
  PROVE  IInv' /\ Registers
PROOF
<1> DEFINE h == [hand[c] EXCEPT !.step = "registering"]
<1>1. /\ hand[c].step = "open" /\ call' = call /\ tracked' = tracked \ {c}
      /\ hand[c] \in HandRecs /\ hand' = [hand EXCEPT ![c] = h]
  BY DEF completeSetup, IInv, HandInv
<1>2. h \in [kind : Kinds, acct : Accounts \cup {NoAccount}, step : {"registering"},
             win : {"none", "shown", "closed"}, editable : BOOLEAN, done : BOOLEAN]
  BY <1>1 DEF HandRecs
<1> HIDE DEF h
<1>3. h \in HandRecs /\ HandSane(h) /\ h.step = "registering"
  BY <1>2 DEF HandRecs, HandSane
<1>4. HandInv' /\ CallInv' /\ ReadInv' /\ Registers
  BY <1>1, <1>3, HandMoves
<1> QED BY <1>4 DEF completeSetup, pageVars, boundVars, IInv, RowsInv, SetsInv, PageInv, BoundInv

LEMMA cancelSetupKeeps ==
  ASSUME IInv, NEW c \in Calls, cancelSetup(c)
  PROVE  IInv' /\ Registers
PROOF
<1>1. /\ ~hand[c].done /\ hand[c].step # "none" /\ tracked' = tracked \ {c}
      /\ Answer(c, "cancelled")
  BY DEF cancelSetup, GraceOver
<1>2. HandInv' /\ CallInv' /\ ReadInv' /\ Registers
  BY <1>1, HandAnswers
<1> QED BY <1>2 DEF cancelSetup, pageVars, boundVars, IInv, RowsInv, SetsInv, PageInv, BoundInv

LEMMA registerAccountKeeps ==
  ASSUME IInv, NEW c \in Calls, registerAccount(c)
  PROVE  IInv' /\ Registers
PROOF
<1>1. hand[c].step = "registering" /\ tracked' = tracked /\ tracked = tracked \ {c}
  BY DEF registerAccount, IInv, HandInv
<1>2. CASE port
  <2>1. PICK a \in Unused :
          /\ rows' = [rows EXCEPT ![a] = "off"] /\ call' = call
          /\ hand' = [hand EXCEPT ![c].step = "registered", ![c].acct = a]
    BY <1>2 DEF registerAccount
  <2> DEFINE h == [hand[c] EXCEPT !.step = "registered", !.acct = a]
  <2>2. hand[c] \in HandRecs /\ hand' = [hand EXCEPT ![c] = h]
    BY <2>1 DEF IInv, HandInv
  <2>3. a \in Accounts
    BY DEF Unused
  <2>4. h \in [kind : Kinds, acct : {a}, step : {"registered"},
               win : {"none", "shown", "closed"}, editable : BOOLEAN, done : BOOLEAN]
    BY <2>2 DEF HandRecs
  <2> HIDE DEF h
  <2>5. h \in HandRecs /\ HandSane(h) /\ h.step = "registered"
    BY <2>3, <2>4, PopupsAssumption DEF HandRecs, HandSane
  <2>6. HandInv' /\ CallInv' /\ ReadInv' /\ Registers
    BY <1>1, <2>1, <2>2, <2>5, HandMoves
  <2>7. RowsInv'
    BY <2>1 DEF IInv, RowsInv
  <2> QED BY <2>6, <2>7 DEF registerAccount, pageVars, boundVars, IInv, SetsInv, PageInv, BoundInv
<1>3. CASE ~port
  <2>1. Answer(c, "failed") /\ ~port'
    BY <1>3 DEF registerAccount
  <2>2. HandInv' /\ CallInv' /\ ReadInv' /\ Registers
    BY <1>1, <2>1, HandAnswers
  <2> QED BY <1>3, <2>2 DEF registerAccount, pageVars, boundVars, IInv, RowsInv, SetsInv, PageInv,
                           BoundInv
<1> QED BY <1>2, <1>3

LEMMA LockForSetupKeeps ==
  ASSUME IInv, NEW c \in Calls, LockForSetup(c)
  PROVE  IInv' /\ Registers
PROOF
<1> DEFINE h == [hand[c] EXCEPT !.step = "preparing"]
<1>1. /\ hand[c].step = "registered" /\ call' = call /\ tracked' = tracked \ {c}
      /\ hand[c] \in HandRecs /\ HandSane(hand[c]) /\ hand' = [hand EXCEPT ![c] = h]
  BY DEF LockForSetup, IInv, HandInv
<1>2. h \in [kind : Kinds, acct : {hand[c].acct}, step : {"preparing"},
             win : {"none", "shown", "closed"}, editable : BOOLEAN, done : BOOLEAN]
  BY <1>1 DEF HandRecs
<1> HIDE DEF h
<1>3. h \in HandRecs /\ HandSane(h) /\ h.step = "preparing"
  BY <1>1, <1>2 DEF HandRecs, HandSane
<1>4. HandInv' /\ CallInv' /\ ReadInv' /\ Registers
  BY <1>1, <1>3, HandMoves
<1>5. SetsInv'
  BY DEF LockForSetup, Locked, Known, IInv, SetsInv
<1> QED BY <1>4, <1>5 DEF LockForSetup, pageVars, boundVars, IInv, RowsInv, PageInv, BoundInv

LEMMA PreparedKeeps ==
  ASSUME IInv, NEW c \in Calls, Prepared(c)
  PROVE  IInv' /\ Registers
PROOF
<1>1. PICK well \in BOOLEAN :
        /\ settingUp' = IF ReleasesLock(c, well) THEN Released(hand[c].acct) ELSE settingUp
        /\ Answer(c, IF well THEN "success" ELSE "failed")
  BY DEF Prepared
<1> DEFINE result == IF well THEN "success" ELSE "failed"
<1>2. result \in {"success", "failed", "cancelled"} /\ Answer(c, result)
  BY <1>1
<1> HIDE DEF result
<1>3. /\ hand[c].step = "preparing" /\ hand[c].acct # NoAccount
      /\ tracked' = tracked \ {c}
  BY DEF Prepared, IInv, HandInv, HandSane
<1>4. HandInv' /\ CallInv' /\ ReadInv' /\ Registers
  BY <1>2, <1>3, HandAnswers
<1>5. SetsInv'
  BY <1>1 DEF Prepared, Released, IInv, SetsInv
<1> QED BY <1>4, <1>5 DEF Prepared, pageVars, boundVars, IInv, RowsInv, PageInv, BoundInv

LEMMA WorkKeeps ==
  ASSUME IInv, NEW c \in Calls, Work(c)
  PROVE  IInv' /\ Registers
PROOF
<1>1. PICK result \in {"success", "failed"} : Answer(c, result)
  BY DEF Work
<1>2. hand[c].step = "working" /\ hand[c].kind # "setup" /\ tracked' = tracked \ {c}
  BY DEF Work, IInv, HandInv, HandSane
<1>3. HandInv' /\ CallInv' /\ ReadInv' /\ Registers
  BY <1>1, <1>2, HandAnswers
<1> QED BY <1>3 DEF Work, pageVars, boundVars, IInv, RowsInv, SetsInv, PageInv, BoundInv

-----------------------------------------------------------------------------
(* The host's steps.                                                        *)

LEMMA CallFacts ==
  ASSUME IInv, NEW c \in Calls
  PROVE  call[c] \in CallRecs /\ call[c].kind \in Kinds /\ call[c].acct \in Accounts \cup {NoAccount}
PROOF
  BY DEF IInv, CallInv, CallRecs

LEMMA SettleReads ==
  ASSUME IInv, NEW c \in Calls, Settle(c), hand' = hand
  PROVE  CallInv' /\ PageInv' /\ ReadInv'
PROOF
<1>1. CallInv' /\ PageInv'
  BY SettleKeeps DEF IInv
<1>2. call' = [call EXCEPT ![c] = NoCall]
  BY DEF Settle
<1>3. ReadInv'
  BY <1>2, NoCallFacts DEF IInv, CallInv, ReadInv
<1> QED BY <1>1, <1>3

LEMMA TakeKeeps ==
  ASSUME IInv, NEW c \in Calls, Take(c)
  PROVE  IInv' /\ Registers
PROOF
<1>1. CASE Refused(c)
  <2>1. Settle(c) /\ UNCHANGED <<busy, hand, tracked>>
    BY <1>1 DEF Take
  <2>2. HandInv' /\ Registers
    BY <2>1, HandsStill DEF IInv
  <2>3. CallInv' /\ PageInv' /\ ReadInv'
    BY <2>1, SettleReads
  <2> QED BY <2>1, <2>2, <2>3 DEF Take, boundVars, IInv, RowsInv, SetsInv, BoundInv
<1>2. CASE ~Refused(c)
  <2> DEFINE k == call[c].kind
             a == call[c].acct
             posts == port \/ k \notin Teardowns
             s == IF posts THEN "waiting" ELSE "returned"
             w == IF k = "setup" THEN "none" ELSE rows[a]
             editable == k = "config" /\ rows[a] # "on"
             r == [call[c] EXCEPT !.step = s, !.was = w]
  <2>1. /\ busy' = IF k = "setup" THEN busy ELSE busy \cup {a}
        /\ call' = [call EXCEPT ![c].step = s, ![c].was = w]
        /\ IF posts THEN Command(c, k, a, editable) ELSE hand' = hand
        /\ tracked' = tracked /\ UNCHANGED pageVars
    BY <1>2 DEF Take
  <2>2. k # "setup" => Known(a)
    BY <1>2 DEF Refused
  <2>3. w \in {"none", "off", "on"} /\ s \in {"waiting", "returned"} /\ editable \in BOOLEAN
    BY <2>2 DEF Known
  <2>4. call[c] \in CallRecs /\ k \in Kinds /\ a \in Accounts \cup {NoAccount}
    BY CallFacts
  <2>5. call' = [call EXCEPT ![c] = r]
    BY <2>1, <2>4 DEF IInv, CallInv
  <2> HIDE DEF s, w
  <2>6. r \in [kind : Kinds, acct : Accounts \cup {NoAccount}, step : {s}, was : {w},
               result : {"none", "success", "failed", "cancelled"}, mine : BOOLEAN]
    BY <2>4 DEF CallRecs
  <2> HIDE DEF r
  <2>7. r \in CallRecs /\ r.step # "reading"
    BY <2>3, <2>6 DEF CallRecs
  <2>8. CallInv' /\ call'[c].step # "reading" /\ \A d \in Calls : d # c => call'[d] = call[d]
    BY <2>5, <2>7 DEF IInv, CallInv
  <2>9. hand[c] = NoHand
    BY DEF Take, IInv, ReadInv
  <2> HIDE DEF editable, k, a, posts
  <2>10. HandInv' /\ Registers /\ \A d \in Calls : d # c => hand'[d] = hand[d]
    <3>1. CASE posts
      <4>1. Command(c, k, a, editable)
        BY <2>1, <3>1
      <4> QED BY <4>1, <2>1, <2>3, <2>4, <2>9, CommandKeeps DEF IInv
    <3>2. CASE ~posts
      BY <2>1, <3>2, HandsStill DEF IInv
    <3> QED BY <3>1, <3>2
  <2>11. ReadInv'
    BY <2>8, <2>10 DEF IInv, ReadInv
  <2>12. SetsInv'
    BY <2>1, <2>2 DEF Take, Known, IInv, SetsInv
  <2> QED BY <2>1, <2>8, <2>10, <2>11, <2>12
          DEF Take, pageVars, boundVars, IInv, RowsInv, PageInv, BoundInv
<1> QED BY <1>1, <1>2

LEMMA FinishKeeps ==
  ASSUME IInv, NEW c \in Calls, Finish(c)
  PROVE  IInv' /\ Registers
PROOF
<1>1. Settle(c) /\ UNCHANGED <<hand, tracked>> /\ rows' = Written(c)
  BY DEF Finish
<1>2. HandInv' /\ Registers
  BY <1>1, HandsStill DEF IInv
<1>3. CallInv' /\ PageInv' /\ ReadInv'
  BY <1>1, SettleReads
<1>4. RowsInv'
  <2>1. \A a, s : s \in {"on", "off", "removed"} =>
          Updated(a, s) \in [Accounts -> {"unused", "off", "on", "removed"}]
    BY DEF Updated, Known, IInv, RowsInv
  <2> QED BY <1>1, <2>1 DEF Written, IInv, RowsInv
<1>5. SetsInv'
  BY DEF Finish, IInv, SetsInv
<1> QED BY <1>2, <1>3, <1>4, <1>5 DEF Finish, boundVars, IInv, BoundInv

LEMMA HealStrandedKeeps ==
  ASSUME IInv, NEW c \in Calls, HealStranded(c)
  PROVE  IInv' /\ Registers
PROOF
<1> DEFINE a == call[c].acct
           r == [call[c] EXCEPT !.kind = "reconnect", !.step = "waiting", !.result = "none"]
<1>1. /\ hand[c] = NoHand /\ tracked' = tracked /\ auth' = auth \ {a}
      /\ call' = [call EXCEPT ![c].kind = "reconnect", ![c].step = "waiting",
                              ![c].result = "none"]
      /\ Command(c, "reconnect", a, FALSE)
  BY DEF HealStranded
<1>2. call[c] \in CallRecs /\ a \in Accounts \cup {NoAccount}
  BY CallFacts
<1>3. call' = [call EXCEPT ![c] = r]
  BY <1>1, <1>2 DEF IInv, CallInv
<1>4. r \in [kind : {"reconnect"}, acct : Accounts \cup {NoAccount}, step : {"waiting"},
             was : {"none", "off", "on"}, result : {"none"}, mine : BOOLEAN]
  BY <1>2 DEF CallRecs
<1> HIDE DEF r
<1>5. r \in CallRecs /\ r.step # "reading"
  BY <1>4 DEF CallRecs, Kinds
<1>6. CallInv' /\ call'[c].step # "reading" /\ \A d \in Calls : d # c => call'[d] = call[d]
  BY <1>3, <1>5 DEF IInv, CallInv
<1>7. "reconnect" \in Kinds /\ FALSE \in BOOLEAN
  BY DEF Kinds
<1> HIDE DEF a
<1>8. HandInv' /\ Registers /\ \A d \in Calls : d # c => hand'[d] = hand[d]
  BY <1>1, <1>2, <1>7, CommandKeeps DEF IInv
<1>9. ReadInv'
  BY <1>6, <1>8 DEF IInv, ReadInv
<1>10. SetsInv'
  BY <1>1 DEF HealStranded, IInv, SetsInv
<1> QED BY <1>6, <1>8, <1>9, <1>10
        DEF HealStranded, pageVars, boundVars, IInv, RowsInv, PageInv, BoundInv

LEMMA TimesOutKeeps ==
  ASSUME IInv, NEW c \in Calls, TimesOut(c)
  PROVE  IInv' /\ Registers
PROOF
<1>1. /\ call' = [call EXCEPT ![c].step = "returned", ![c].result = "failed"]
      /\ UNCHANGED <<hand, tracked>>
  BY DEF TimesOut
<1>2. HandInv' /\ Registers
  BY <1>1, HandsStill DEF IInv
<1>3. CallInv' /\ call'[c].step = "returned" /\ \A d \in Calls : d # c => call'[d] = call[d]
  BY <1>1, Returned DEF IInv
<1>4. ReadInv'
  BY <1>1, <1>3 DEF IInv, ReadInv
<1> QED BY <1>2, <1>3, <1>4
        DEF TimesOut, pageVars, boundVars, IInv, RowsInv, SetsInv, PageInv, BoundInv

-----------------------------------------------------------------------------
(* The page, and the ends of either side.                                   *)

LEMMA RequestKeeps ==
  ASSUME IInv, NEW kind \in Kinds, NEW a \in Accounts \cup {NoAccount},
         Request(kind, a), hand' = hand
  PROVE  CallInv' /\ ReadInv'
PROOF
<1> DEFINE r == [NoCall EXCEPT !.kind = kind, !.acct = a, !.step = "reading", !.mine = TRUE]
<1>1. PICK c \in Calls : hand[c] = NoHand /\ call' = [call EXCEPT ![c] = r]
  BY DEF Request
<1>2. r \in [kind : {kind}, acct : {a}, step : {"reading"}, was : {"none"},
             result : {"none"}, mine : {TRUE}]
  BY DEF NoCall
<1> HIDE DEF r
<1>3. r \in CallRecs
  BY <1>2 DEF CallRecs
<1>4. CallInv' /\ \A d \in Calls : d # c => call'[d] = call[d]
  BY <1>1, <1>3 DEF IInv, CallInv
<1> QED BY <1>1, <1>4 DEF IInv, ReadInv

LEMMA ClickKeeps ==
  ASSUME IInv, NEW a \in Accounts, NEW button \in AccountButtons, Click(button, a)
  PROVE  IInv' /\ Registers
PROOF
<1>1. Request(button, a) /\ UNCHANGED <<hand, tracked>> /\ button \in Kinds
  BY DEF Click, Kinds
<1>2. HandInv' /\ Registers
  BY <1>1, HandsStill DEF IInv
<1>3. CallInv' /\ ReadInv'
  BY <1>1, RequestKeeps
<1>4. PageInv' /\ SetsInv' /\ RowsInv'
  BY DEF Click, IInv, PageInv, SetsInv, RowsInv
<1>5. BoundInv'
  BY PopupsAssumption DEF Click, IInv, BoundInv
<1> QED BY <1>2, <1>3, <1>4, <1>5 DEF IInv

LEMMA launchSetupKeeps ==
  ASSUME IInv, launchSetup
  PROVE  IInv' /\ Registers
PROOF
<1>1. Request("setup", NoAccount) /\ UNCHANGED <<hand, tracked>> /\ "setup" \in Kinds
  BY DEF launchSetup, Kinds
<1>2. HandInv' /\ Registers
  BY <1>1, HandsStill DEF IInv
<1>3. CallInv' /\ ReadInv'
  BY <1>1, RequestKeeps
<1>4. PageInv' /\ SetsInv' /\ RowsInv'
  BY DEF launchSetup, IInv, PageInv, SetsInv, RowsInv
<1>5. BoundInv'
  BY PopupsAssumption DEF launchSetup, IInv, BoundInv
<1> QED BY <1>2, <1>3, <1>4, <1>5 DEF IInv

LEMMA ReloadPageKeeps ==
  ASSUME IInv, ReloadPage
  PROVE  IInv' /\ Registers
PROOF
<1>1. HandInv' /\ Registers
  BY HandsStill DEF IInv, ReloadPage
<1>2. \A c \in Calls : LET r == [call[c] EXCEPT !.mine = FALSE]
                       IN r \in CallRecs /\ r.step = call[c].step
  BY DEF IInv, CallInv, CallRecs
<1>3. CallInv' /\ \A c \in Calls : call'[c].step = call[c].step
  BY <1>2 DEF ReloadPage, CallInv
<1>4. ReadInv'
  BY <1>3 DEF ReloadPage, IInv, ReadInv
<1>5. PageInv' /\ SetsInv' /\ RowsInv'
  BY DEF ReloadPage, IInv, PageInv, SetsInv, RowsInv
<1>6. BoundInv'
  BY PopupsAssumption DEF ReloadPage, IInv, BoundInv
<1> QED BY <1>1, <1>3, <1>4, <1>5, <1>6 DEF IInv

LEMMA ProviderEndsKeeps ==
  ASSUME IInv, ProviderEnds
  PROVE  IInv' /\ Registers
PROOF
<1>1. hand' = [c \in Calls |-> NoHand] /\ tracked' = {} /\ ~port'
  BY DEF ProviderEnds
<1>2. HandInv'
  BY <1>1, NoHandFacts DEF HandInv, HandSane
<1>3. CallInv'
  <2>1. ASSUME NEW c \in Calls
        PROVE  rejectPending(call)[c] \in CallRecs
    <3> DEFINE r == [call[c] EXCEPT !.step = "returned", !.result = "failed"]
    <3>1. call[c] \in CallRecs
      BY DEF IInv, CallInv
    <3>2. r \in [kind : Kinds, acct : Accounts \cup {NoAccount}, step : {"returned"},
                 was : {"none", "off", "on"}, result : {"failed"}, mine : BOOLEAN]
      BY <3>1 DEF CallRecs
    <3>3. rejectPending(call)[c] = IF call[c].step # "waiting" THEN call[c] ELSE r
      BY DEF rejectPending
    <3> HIDE DEF r
    <3>4. r \in CallRecs
      BY <3>2 DEF CallRecs
    <3> QED BY <3>1, <3>3, <3>4
  <2>2. rejectPending(call) = [c \in Calls |-> rejectPending(call)[c]]
    BY DEF rejectPending
  <2> QED BY <2>1, <2>2 DEF ProviderEnds, CallInv
<1>4. ReadInv'
  BY <1>1 DEF ReadInv
<1>5. PageInv' /\ SetsInv' /\ RowsInv'
  BY DEF ProviderEnds, pageVars, IInv, PageInv, SetsInv, RowsInv
<1>6. BoundInv'
  BY PopupsAssumption DEF ProviderEnds, IInv, BoundInv
<1>7. Registers
  BY <1>1 DEF Registers
<1> QED BY <1>2, <1>3, <1>4, <1>5, <1>6, <1>7 DEF IInv

LEMMA HostEndsKeeps ==
  ASSUME IInv, HostEnds
  PROVE  IInv' /\ Registers
PROOF
<1>1. /\ hand' = [c \in Calls |-> IF hand[c].step = "registered" THEN NoHand ELSE hand[c]]
      /\ tracked' = tracked /\ ~port' /\ call' = [c \in Calls |-> NoCall]
  BY DEF HostEnds
<1>2. HandInv'
  <2>1. hand' \in [Calls -> HandRecs] /\ tracked' \subseteq Calls
    BY <1>1, NoHandFacts DEF IInv, HandInv
  <2>2. ASSUME NEW c \in Calls
        PROVE  HandSane(hand'[c]) /\ (c \in tracked' <=> hand'[c].step \in {"open", "stuck"})
    <3>1. CASE hand[c].step = "registered"
      <4>1. hand'[c] = NoHand
        BY <1>1, <3>1
      <4> QED BY <4>1, <3>1, <1>1, NoHandFacts DEF IInv, HandInv
    <3>2. CASE hand[c].step # "registered"
      <4>1. hand'[c] = hand[c]
        BY <1>1, <3>2
      <4> QED BY <4>1, <1>1 DEF IInv, HandInv
    <3> QED BY <3>1, <3>2
  <2>3. \A c \in Calls : HandSane(hand[c])' = HandSane(hand'[c])
    BY DEF HandSane
  <2> QED BY <2>1, <2>2, <2>3 DEF HandInv
<1>3. CallInv' /\ ReadInv'
  BY <1>1, NoCallFacts DEF CallInv, ReadInv
<1>4. PageInv' /\ SetsInv' /\ RowsInv'
  BY DEF HostEnds, IInv, PageInv, SetsInv, RowsInv
<1>5. BoundInv'
  BY PopupsAssumption DEF HostEnds, IInv, BoundInv
<1>6. Registers
  BY <1>1 DEF Registers
<1> QED BY <1>2, <1>3, <1>4, <1>5, <1>6 DEF IInv

LEMMA ReconnectKeeps ==
  ASSUME IInv, Reconnect
  PROVE  IInv' /\ Registers
PROOF
<1>1. HandInv' /\ Registers
  BY HandsStill DEF IInv, Reconnect
<1>2. CallInv' /\ ReadInv'
  BY DEF Reconnect, IInv, CallInv, ReadInv
<1> QED BY <1>1, <1>2
        DEF Reconnect, pageVars, boundVars, IInv, RowsInv, SetsInv, PageInv, BoundInv

-----------------------------------------------------------------------------

LEMMA Initially == Init => IInv
PROOF
<1> SUFFICES ASSUME Init PROVE IInv
  OBVIOUS
<1>1. HandInv
  BY NoHandFacts DEF Init, HandInv
<1>2. CallInv /\ ReadInv
  BY NoCallFacts DEF Init, CallInv, ReadInv
<1>3. RowsInv
  BY DEF Init, RowsInv
<1>4. SetsInv /\ PageInv
  BY DEF Init, SetsInv, PageInv
<1>5. BoundInv
  BY PopupsAssumption DEF Init, BoundInv
<1> QED BY <1>1, <1>2, <1>3, <1>4, <1>5 DEF IInv

LEMMA Stepwise == IInv /\ [Next]_vars => IInv' /\ (Registers \/ UNCHANGED vars)
PROOF
<1> SUFFICES ASSUME IInv, [Next]_vars PROVE IInv' /\ (Registers \/ UNCHANGED vars)
  OBVIOUS
<1>1. CASE \E a \in Accounts, button \in AccountButtons : Click(button, a)
  BY <1>1, ClickKeeps
<1>2. CASE launchSetup
  BY <1>2, launchSetupKeeps
<1>3. CASE ReloadPage
  BY <1>3, ReloadPageKeeps
<1>4. ASSUME NEW c \in Calls, HostStep(c) \/ ProviderStep(c) \/ TimesOut(c) \/ UserCloses(c)
      PROVE  IInv' /\ Registers
  BY <1>4, TakeKeeps, FinishKeeps, HealStrandedKeeps, WindowShowsKeeps, TrackKeeps,
     WindowClosedKeeps, completeSetupKeeps, cancelSetupKeeps, registerAccountKeeps,
     LockForSetupKeeps, PreparedKeeps, WorkKeeps, TimesOutKeeps, UserClosesKeeps
     DEF HostStep, ProviderStep
<1>5. CASE ProviderEnds
  BY <1>5, ProviderEndsKeeps
<1>6. CASE HostEnds
  BY <1>6, HostEndsKeeps
<1>7. CASE Reconnect
  BY <1>7, ReconnectKeeps
<1>8. CASE UNCHANGED vars
  <2>1. HandInv'
    BY <1>8, HandsStill DEF vars, IInv
  <2> QED BY <1>8, <2>1 DEF vars, IInv, CallInv, ReadInv, RowsInv, SetsInv, PageInv, BoundInv
<1> QED BY <1>1, <1>2, <1>3, <1>4, <1>5, <1>6, <1>7, <1>8 DEF Next

THEOREM Invariant == Spec => []IInv
PROOF
  BY Initially, Stepwise, PTL DEF Spec

(* Every record of a call and of a handler is of its type, and a window is  *)
(* tracked only by a handler that waits for it.                             *)
THEOREM PopupsTyped == Spec => []TypeOK
PROOF
  BY Invariant, Typed, PTL

(* Whatever the windows, the order they close in, and the ends of either    *)
(* side: a click on its button finds every window on the screen.            *)
THEOREM WindowsRaisable == Spec => []Raisable
PROOF
  BY Invariant, InvRaises, PTL

(* A completed setup ends without its account only when the port is lost.   *)
THEOREM SetupsRegister == Spec => CompletedRegisters
PROOF
<1>1. IInv /\ [Next]_vars => [Registers]_vars
  BY Stepwise
<1>2. Spec => [][Registers]_vars
  BY Invariant, <1>1, PTL DEF Spec
<1> QED BY <1>2, PTL DEF CompletedRegisters, Registers
==============================================================================
