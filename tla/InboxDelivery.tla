--------------------------- MODULE InboxDelivery ---------------------------
(***************************************************************************)
(* How the messages of one org's inbox reach delivery: the SDK bridge      *)
(* (src/dist/index.mjs: deduper, inbox ledger, sync engine, message        *)
(* handler, startOrgWs, stop) with the adapter's session cursor            *)
(* (src/src/config.js) and first-sync mode (src/src/first-sync.js).        *)
(*                                                                         *)
(* The server numbers the events of an inbox.  A message is recognised by  *)
(* that number here; the bridge recognises it by its id (deduper) and by   *)
(* its number (ledger), and knows the number of a live message only if it  *)
(* could fetch its detail.  JavaScript runs one handler at a time: an      *)
(* action is the code between two awaits.                                  *)
(***************************************************************************)
EXTENDS Integers, Sequences, FiniteSets

CONSTANTS
  MaxSeq,       \* bound: how many events the inbox ever gets
  History,      \* bound: how many it may hold before the process first starts
  NonMessage,   \* the events that are not deliverable messages
  PageSize,     \* pageSize of a /sync request, 100 in the code
  MaxEvents,    \* maxEvents of a sweep, 2000 in the code
  DedupeCap,    \* the deduper's maxEntries, 5000 in the code
  ReceivedCap,  \* the ledger's receivedCap, 5000 in the code
  MaxStarts,    \* bound: how often the process starts
  DetailFails   \* may the detail of a live message be unavailable?

ASSUME ConstAssumption ==
  /\ {MaxSeq, PageSize, MaxEvents, DedupeCap, MaxStarts} \subseteq Nat \ {0}
  /\ History \in 0 .. MaxSeq
  /\ ReceivedCap \in Nat /\ DetailFails \in BOOLEAN
  /\ NonMessage \subseteq 1 .. MaxSeq

EventSeq == 1 .. MaxSeq
Message == EventSeq \ NonMessage

\* A falsy cursor (nothing persisted) as opposed to inboxStartCursor(), a boxed
\* zero, which is truthy: the SDK seeks to the end on the first and sweeps from
\* the start on the second.
NoCursor == -1
Cursor == NoCursor .. MaxSeq
Num(c) == IF c = NoCursor THEN 0 ELSE c

VARIABLES
  inbox,        \* server: the number of events so far
  frames,       \* live messages on the open WebSocket
  status,       \* the process: "down", "up", or "stopping" after bridge.stop()
  starts,       \* how often it started
  conn,         \* is the WebSocket open?
  firstSync,    \* does the onboarding's marker apply to this org?
  catchUp,      \* did this process start from inboxStartCursor()?
  cursor,       \* sessionRef.sync_seq
  ledger,       \* ackedSeq and received of the inbox ledger
  lastAcked,    \* its lastAckedSeq
  gapOpen,      \* is its oldestGapTs set?
  seen,         \* the deduper's committed messages, oldest first
  handler,      \* where the handler of a message is; a busy one is reserved
  sweep,        \* syncMissedEvents
  seek,         \* initSyncSeq: the end of the inbox when it started, or NoCursor
  session,      \* disk: sessions/<org>.json
  saving,       \* saveSession calls whose write has not landed
  ledgerFile,   \* disk: inbox-<org>.json
  consumed,     \* messages ever delivered ok or dropped by the access policy
  fresh,        \* those this process consumed knowing their number
  soughtPast,   \* messages skipped by seeking to the end of the inbox
  passedBusy    \* messages a sweep passed over while their handler was busy

vars == <<inbox, frames, status, starts, conn, firstSync, catchUp, cursor, ledger,
          lastAcked, gapOpen, seen, handler, sweep, seek, session, saving,
          ledgerFile, consumed, fresh, soughtPast, passedBusy>>

server == <<inbox, frames, conn>>
life == <<status, starts, firstSync, catchUp>>
disk == <<session, saving, ledgerFile>>
marks == <<cursor, ledger, lastAcked, gapOpen>>
ghosts == <<consumed, fresh, soughtPast, passedBusy>>

LedgerState == [acked : 0 .. MaxSeq, received : SUBSET EventSeq]

\* A handler awaits the detail of a live or a swept message, or the result of
\* deliver() for a message whose number it knows ("deliver") or does not know.
HandlerStates == {"none", "live", "swept", "deliver", "deliverBlind"}

NoSweep == [at |-> "idle", from |-> 0, since |-> 0, total |-> 0, page |-> <<>>,
            more |-> FALSE]

TypeOK ==
  /\ inbox \in 0 .. MaxSeq /\ frames \subseteq Message
  /\ status \in {"down", "up", "stopping"} /\ starts \in 0 .. MaxStarts
  /\ conn \in BOOLEAN /\ firstSync \in BOOLEAN /\ catchUp \in BOOLEAN
  /\ cursor \in Cursor /\ session \in Cursor /\ saving \subseteq EventSeq
  /\ ledger \in LedgerState /\ ledgerFile \in LedgerState
  /\ lastAcked \in 0 .. MaxSeq /\ gapOpen \in BOOLEAN
  /\ seen \in Seq(Message) /\ Len(seen) <= DedupeCap
  /\ handler \in [EventSeq -> HandlerStates]
  /\ sweep.at \in {"idle", "request", "page", "await"}
  /\ sweep.from \in 0 .. MaxSeq /\ sweep.since \in 0 .. MaxSeq
  /\ sweep.total \in Nat /\ sweep.page \in Seq(EventSeq) /\ sweep.more \in BOOLEAN
  /\ seek \in Cursor
  /\ consumed \subseteq Message /\ fresh \subseteq consumed
  /\ soughtPast \subseteq Message /\ passedBusy \subseteq Message

Init ==
  /\ inbox \in 0 .. History /\ frames = {} /\ conn = FALSE
  /\ status = "down" /\ starts = 0
  /\ firstSync \in BOOLEAN /\ catchUp = FALSE
  /\ cursor = NoCursor /\ session = NoCursor /\ saving = {}
  /\ ledger = [acked |-> 0, received |-> {}]
  /\ ledgerFile = [acked |-> 0, received |-> {}]
  /\ lastAcked = 0 /\ gapOpen = FALSE
  /\ seen = <<>> /\ handler = [s \in EventSeq |-> "none"]
  /\ sweep = NoSweep /\ seek = NoCursor
  /\ consumed = {} /\ fresh = {} /\ soughtPast = {} /\ passedBusy = {}

Up == status = "up"
Alive == status # "down"
Larger(a, b) == IF a >= b THEN a ELSE b
Smaller(a, b) == IF a <= b THEN a ELSE b

---------------------------------------------------------------------------
(* createInboxLedger.                                                      *)

\* advanceWatermark: swallow the contiguous run above the watermark.
Advance(acked, received) ==
  LET a == CHOOSE n \in acked .. MaxSeq :
             /\ acked + 1 .. n \subseteq received
             /\ n + 1 \notin received \/ n = MaxSeq
  IN  [acked |-> a, received |-> {s \in received : s > a}]

\* Mutant: the watermark itself does not count as recorded.
LedgerHas_BelowWatermark(s) == s < ledger.acked \/ s \in ledger.received

LedgerHas(s) == s <= ledger.acked \/ s \in ledger.received

\* record, of several numbers at a time.
Recorded(seqs) == Advance(ledger.acked, ledger.received \cup {s \in seqs : s > ledger.acked})

LedgerRecord(seqs) ==
  /\ ledger' = Recorded(seqs)
  /\ gapOpen' = (gapOpen /\ Recorded(seqs).acked = ledger.acked)

\* setAckedSeq, of a ledger l.
AckedAtLeast(l, seq) ==
  IF seq > l.acked
  THEN [acked |-> seq, received |-> {s \in l.received : s > seq}] ELSE l

\* The debounced persist, and its write.
PersistLedger ==
  /\ Alive /\ ledgerFile # ledger
  /\ ledgerFile' = ledger
  /\ UNCHANGED <<server, life, marks, seen, handler, sweep, seek, session, saving, ghosts>>

---------------------------------------------------------------------------
(* createDeduper: reserved messages are those with a busy handler.         *)

Seen == {seen[i] : i \in DOMAIN seen}
Reservable(s) == s \notin Seen /\ handler[s] = "none"

\* Mutant: nothing is ever evicted.
Commit_NoEviction(s) == seen' = Append(seen, s)

\* commit: the oldest entry goes when there are too many.
Commit(s) ==
  seen' = IF Len(seen) < DedupeCap THEN Append(seen, s) ELSE Append(Tail(seen), s)

---------------------------------------------------------------------------
(* saveSession awaits a read of the session file and then rewrites it, and *)
(* its callers do not wait for it.  Any order of the writes is allowed     *)
(* here; a storage provider may be slower than the file one.               *)

SaveSession(seqs) == saving' = saving \cup {s \in seqs : s > 0}

SessionSaved ==
  /\ Alive
  /\ \E s \in saving : session' = s /\ saving' = saving \ {s}
  /\ UNCHANGED <<server, life, marks, seen, handler, sweep, seek, ledgerFile, ghosts>>

---------------------------------------------------------------------------
(* The server.                                                             *)

Arrive ==
  /\ inbox < MaxSeq
  /\ inbox' = inbox + 1
  /\ frames' = IF conn THEN frames \cup ({inbox + 1} \cap Message) ELSE frames
  /\ UNCHANGED <<conn, life, marks, seen, handler, sweep, seek, disk, ghosts>>

Disconnect ==
  /\ conn
  /\ conn' = FALSE /\ frames' = {}
  /\ UNCHANGED <<inbox, life, marks, seen, handler, sweep, seek, disk, ghosts>>

---------------------------------------------------------------------------
(* SyncEngine.                                                             *)

\* Mutant: the sweep's floor is ignored, it starts from the cursor.
StartOfSweep_Cursor(c, floor) == c

StartOfSweep(c, floor) == Smaller(c, floor)

\* syncMissedEvents, up to its first request.
SyncMissedEvents(c, floor) ==
  sweep' = IF c = NoCursor \/ sweep.at # "idle" THEN sweep
           ELSE [NoSweep EXCEPT !.at = "request", !.from = c,
                                !.since = StartOfSweep(c, floor)]

\* wrapHttp: in catch-up the ledger learns of the events the sweep will skip.
RecordSkipped(seqs) ==
  IF catchUp THEN LedgerRecord(seqs) ELSE UNCHANGED <<ledger, gapOpen>>

\* One page, as the server has it when it answers.
SweepRequest ==
  /\ Alive /\ sweep.at = "request"
  /\ LET last == Smaller(sweep.since + PageSize, inbox)
         page == [i \in 1 .. last - sweep.since |-> sweep.since + i]
     IN  /\ sweep' = [sweep EXCEPT !.at = "page", !.page = page,
                        !.more = last < inbox, !.total = @ + Len(page)]
         /\ RecordSkipped({page[i] : i \in DOMAIN page} \cap NonMessage)
  /\ UNCHANGED <<server, life, cursor, lastAcked, seen, handler, seek, disk, ghosts>>

\* The sweep goes past the event it looked at.
SweptPast(s) == [sweep EXCEPT !.at = "page", !.page = Tail(@), !.since = Larger(@, s)]

\* The next event of the page: not a message, a duplicate, or handled.
SweepEvent ==
  /\ Alive /\ sweep.at = "page" /\ sweep.page # <<>>
  /\ LET s == Head(sweep.page)
     IN  IF s \in NonMessage
         THEN /\ sweep' = [sweep EXCEPT !.page = Tail(@)]
              /\ UNCHANGED <<handler, passedBusy>>
         ELSE IF Reservable(s)
         THEN /\ sweep' = [sweep EXCEPT !.at = "await"]
              /\ handler' = [handler EXCEPT ![s] = "swept"]
              /\ UNCHANGED passedBusy
         ELSE /\ sweep' = SweptPast(s)
              /\ passedBusy' = passedBusy \cup (IF handler[s] # "none" THEN {s} ELSE {})
              /\ UNCHANGED handler
  /\ UNCHANGED <<server, life, marks, seen, seek, disk, consumed, fresh, soughtPast>>

\* At the end of a page: the next one, or the cursor is moved and saved (and
\* the server told, which nothing here depends on).
SweepPageDone ==
  /\ Alive /\ sweep.at = "page" /\ sweep.page = <<>>
  /\ IF sweep.more /\ sweep.total < MaxEvents
     THEN sweep' = [sweep EXCEPT !.at = "request"] /\ UNCHANGED <<cursor, saving>>
     ELSE /\ sweep' = NoSweep
          /\ IF sweep.since > sweep.from
             THEN cursor' = sweep.since /\ SaveSession({sweep.since})
             ELSE UNCHANGED <<cursor, saving>>
  /\ UNCHANGED <<server, life, ledger, lastAcked, gapOpen, seen, handler, seek,
                 session, ledgerFile, ghosts>>

\* A request that fails ends the sweep; nothing is saved.
SweepFails ==
  /\ Alive /\ sweep.at = "request"
  /\ sweep' = NoSweep
  /\ UNCHANGED <<server, life, marks, seen, handler, seek, disk, ghosts>>

\* initSyncSeq has found the end of the inbox, or failed.
SeekDone ==
  /\ Alive /\ seek # NoCursor
  /\ seek' = NoCursor
  /\ \E end \in (seek .. inbox) \cup {0} :
       IF end = 0 THEN UNCHANGED <<marks, saving, soughtPast>>
       ELSE /\ cursor' = end
            /\ SaveSession({end})
            /\ ledger' = AckedAtLeast(ledger, end)
            /\ lastAcked' = IF end > ledger.acked THEN end ELSE lastAcked
            /\ soughtPast' = soughtPast \cup
                 {s \in Message : ledger.acked < s /\ s <= end /\ s \notin consumed}
            /\ UNCHANGED gapOpen
  /\ UNCHANGED <<server, life, seen, handler, sweep, session, ledgerFile, consumed,
                 fresh, passedBusy>>

---------------------------------------------------------------------------
(* The message handler: reserve, detail, ledger check, deliver, settle.    *)

\* A live frame; a duplicate is ignored.
ReceiveFrame(s) ==
  /\ Up /\ s \in frames
  /\ frames' = frames \ {s}
  /\ handler' = IF Reservable(s) THEN [handler EXCEPT ![s] = "live"] ELSE handler
  /\ UNCHANGED <<inbox, conn, life, marks, seen, sweep, seek, disk, ghosts>>

\* Is s the message the sweep waits for?
Awaited(s) == sweep.at = "await" /\ Head(sweep.page) = s

\* Mutant: a failed delivery does not stop the sweep that waits for it.
HandlerReturns_Swallow(s, ok) == sweep' = IF Awaited(s) THEN SweptPast(s) ELSE sweep

\* The handler returns: a sweep goes on, a live frame's caller takes no notice.
\* It throws: the sweep ends and saves nothing.
HandlerReturns(s, ok) ==
  sweep' = IF ~Awaited(s) THEN sweep ELSE IF ok THEN SweptPast(s) ELSE NoSweep

\* The detail has come or failed to.  A message the ledger has is only committed
\* to the deduper.
Detail(s) ==
  /\ Alive /\ handler[s] \in {"live", "swept"}
  /\ \/ /\ handler[s] = "live" /\ DetailFails
        /\ handler' = [handler EXCEPT ![s] = "deliverBlind"]
        /\ UNCHANGED <<seen, sweep>>
     \/ /\ ~LedgerHas(s)
        /\ handler' = [handler EXCEPT ![s] = "deliver"]
        /\ UNCHANGED <<seen, sweep>>
     \/ /\ LedgerHas(s)
        /\ handler' = [handler EXCEPT ![s] = "none"]
        /\ Commit(s)
        /\ HandlerReturns(s, TRUE)
  /\ UNCHANGED <<server, life, marks, seek, disk, ghosts>>

\* Delivered ok, or dropped by decideInbound: commitConsumed.
Consume(s) ==
  /\ Alive /\ handler[s] \in {"deliver", "deliverBlind"}
  /\ Commit(s)
  /\ IF handler[s] = "deliver"
     THEN LedgerRecord({s}) /\ fresh' = fresh \cup {s}
     ELSE UNCHANGED <<ledger, gapOpen, fresh>>
  /\ handler' = [handler EXCEPT ![s] = "none"]
  /\ HandlerReturns(s, TRUE)
  /\ consumed' = consumed \cup {s}
  /\ UNCHANGED <<server, life, cursor, lastAcked, seek, disk, soughtPast, passedBusy>>

\* deliver() failed: the reservation is released and the handler throws.
DeliveryFails(s) ==
  /\ Alive /\ handler[s] \in {"deliver", "deliverBlind"}
  /\ handler' = [handler EXCEPT ![s] = "none"]
  /\ HandlerReturns(s, FALSE)
  /\ UNCHANGED <<server, life, marks, seen, seek, disk, ghosts>>

---------------------------------------------------------------------------
(* The ledger's interval: acknowledge an advance, and sweep when a gap     *)
(* under the received numbers lasts, or there are too many of them.        *)

Tick ==
  /\ Up
  /\ LET advanced == ledger.acked > lastAcked
         now == IF advanced THEN ledger.acked ELSE cursor
         overflow == Cardinality(ledger.received) > ReceivedCap
     IN  /\ lastAcked' = ledger.acked
         /\ cursor' = now
         /\ SaveSession(IF advanced THEN {ledger.acked} ELSE {})
         /\ \/ /\ ledger.received = {}
               /\ gapOpen' = FALSE
               /\ UNCHANGED <<ledger, sweep>>
            \/ /\ overflow
               /\ ledger' = [ledger EXCEPT !.received = {}]
               /\ gapOpen' = FALSE
               /\ SyncMissedEvents(now, ledger.acked)
            \/ /\ ledger.received # {} /\ ~overflow
               /\ gapOpen' = TRUE
               /\ IF gapOpen THEN SyncMissedEvents(now, ledger.acked) ELSE UNCHANGED sweep
               /\ UNCHANGED ledger
  /\ UNCHANGED <<server, life, seen, handler, seek, session, ledgerFile, ghosts>>

---------------------------------------------------------------------------
(* startOrgWs, the WebSocket's onOpen, stop.                               *)

\* loadSession: an org without a session starts from inboxStartCursor() in
\* first-sync mode.
LoadedCursor == IF session = NoCursor /\ firstSync THEN 0 ELSE session

\* The session is loaded, then the ledger; each lifts the other.
Start ==
  /\ status = "down" /\ starts < MaxStarts
  /\ status' = "up" /\ starts' = starts + 1
  /\ catchUp' = (session = NoCursor /\ firstSync)
  /\ LET l == AckedAtLeast(ledgerFile, Num(LoadedCursor))
     IN  /\ ledger' = l
         /\ lastAcked' = l.acked
         /\ cursor' = IF l.acked > Num(LoadedCursor) THEN l.acked ELSE LoadedCursor
  /\ UNCHANGED <<server, firstSync, gapOpen, seen, handler, sweep, seek, disk, ghosts>>

\* A new connection catches up by a sweep, or seeks to the end of the inbox.
\* (Bound: one seek at a time.)
Open ==
  /\ Up /\ ~conn /\ seek = NoCursor
  /\ conn' = TRUE
  /\ SyncMissedEvents(cursor, cursor)
  /\ seek' = IF cursor = NoCursor THEN inbox ELSE NoCursor
  /\ UNCHANGED <<inbox, frames, life, marks, seen, handler, disk, ghosts>>

\* bridge.stop(): handlers and sweeps that run go on until the process exits.
Stop ==
  /\ Up
  /\ status' = "stopping"
  /\ conn' = FALSE /\ frames' = {}
  /\ SaveSession({Larger(Num(cursor), ledger.acked)})
  /\ ledgerFile' = ledger
  /\ UNCHANGED <<inbox, starts, firstSync, catchUp, marks, seen, handler, sweep, seek,
                 session, ghosts>>

\* The process exits, crashes or is killed: the files stay.
Exit ==
  /\ Alive
  /\ status' = "down"
  /\ conn' = FALSE /\ frames' = {}
  /\ catchUp' = FALSE /\ cursor' = NoCursor /\ lastAcked' = 0 /\ gapOpen' = FALSE
  /\ ledger' = [acked |-> 0, received |-> {}]
  /\ seen' = <<>> /\ handler' = [s \in EventSeq |-> "none"]
  /\ sweep' = NoSweep /\ seek' = NoCursor
  /\ saving' = {} /\ fresh' = {}
  /\ UNCHANGED <<inbox, starts, firstSync, session, ledgerFile, consumed, soughtPast,
                 passedBusy>>

---------------------------------------------------------------------------
HandlerStep(s) == ReceiveFrame(s) \/ Detail(s) \/ Consume(s) \/ DeliveryFails(s)
SweepStep == SweepRequest \/ SweepEvent \/ SweepPageDone \/ SweepFails

Next ==
  \/ \E s \in Message : HandlerStep(s)
  \/ SweepStep \/ SeekDone \/ Tick \/ PersistLedger \/ SessionSaved
  \/ Arrive \/ Open \/ Disconnect \/ Start \/ Stop \/ Exit

Spec == Init /\ [][Next]_vars

\* Awaits end, timers fire, a request or a delivery that is tried again and again
\* succeeds in the end, and the WebSocket is not reopened for ever.  The process
\* need not start, stop or connect.
Fairness ==
  /\ WF_vars(Tick) /\ WF_vars(SweepEvent) /\ WF_vars(SweepPageDone)
  /\ \A n \in 0 .. MaxSeq : SF_vars(SweepRequest /\ sweep.since = n)
  /\ <>[][~Open]_vars
  /\ \A s \in Message : WF_vars(Detail(s)) /\ SF_vars(Consume(s))

FairSpec == Spec /\ Fairness

---------------------------------------------------------------------------
\* "The SDK then holds the dedupe/ledger/sync markers and redelivers on the next
\* /sync sweep" (inbound-delivery.js, header comment): once the process has had
\* a cursor, a message it has not consumed stays above the watermark, below
\* which nothing is ever delivered again.
Missed(s) == Alive /\ s \in Message \ (consumed \cup soughtPast) /\ s <= ledger.acked
MarkersAreHeld == \A s \in Message : ~Missed(s)

\* The one way to lose a message: a sweep passed over it while a delivery of it
\* was under way (and then failed).  No crash, restart, failed request, cap,
\* stale or reordered write does.
LossHasOneCause == \A s \in Message : Missed(s) => s \in passedBusy

\* What module AtLeastOnce sees of the state.
Stage == [s \in Message |-> CASE handler[s] = "none" -> "free"
                              [] handler[s] \in {"live", "swept"} -> "reserved"
                              [] handler[s] = "deliver" -> "delivering"
                              [] handler[s] = "deliverBlind" -> "blind"]

Promise == INSTANCE AtLeastOnce WITH
  sent <- Message \cap 1 .. inbox, stage <- Stage, done <- consumed,
  skipped <- soughtPast, passed <- passedBusy,
  settled <- IF Alive THEN {s \in Message : s <= ledger.acked} ELSE {}

\* The inbox keeps the promise of module AtLeastOnce, through crashes, restarts,
\* failing requests, evictions and reordered writes: every step is one of its
\* steps or leaves its variables alone.
KeepsPromise == Promise!Spec

\* A message in the session's context is not delivered again by that process,
\* even when the deduper has forgotten it: the ledger still knows it.  (But for
\* a delivery that does not know the message's number, before or after.)
NoSecondDelivery == \A s \in Message : handler[s] = "deliver" => s \notin fresh

\* An open gap: a failed or lost message with a later one recorded.
GapAt(s) == /\ Up /\ s \in Message \ consumed /\ s > ledger.acked
            /\ \E t \in ledger.received : t > s

\* Where a sweep starts that is under way or yet to come: it goes on at since and may
\* leave the cursor there, below the watermark.
LowestStart ==
  LET c == Smaller(Num(cursor), ledger.acked)
  IN  IF sweep.at = "idle" THEN c ELSE Smaller(c, sweep.since)

\* A sweep is stuck in front of a page of events that are not messages, which it
\* requests until maxEvents; and of the events up to s it may fetch each that it skips
\* twice, once as the last of a page.
InSweepReach(s) ==
  LET skipped == NonMessage \cap LowestStart + 1 .. s
  IN  /\ \A n \in LowestStart .. s - 1 : ~(n + 1 .. n + PageSize \subseteq skipped)
      /\ s - LowestStart - 1 + Cardinality(skipped) < MaxEvents

\* "A hole BELOW the persisted cursor is re-pulled" (SyncEngine.syncMissedEvents), as
\* far as sweeps get: with a cursor, the gap timer has a gap delivered while the process
\* runs, however the sweeps, live frames and failures interleave, if a sweep reaches it.
GapsAreFilled ==
  \A s \in Message : GapAt(s) /\ cursor # NoCursor /\ InSweepReach(s) ~> ~GapAt(s)
============================================================================
