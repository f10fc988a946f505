------------------------ MODULE InboxDeliveryProofs ------------------------
(***************************************************************************)
(* Proofs about InboxDelivery: its types, that a message falls under the   *)
(* watermark for one of three reasons only, that a delivery which knows    *)
(* its number never repeats one, and that every step of the inbox is a     *)
(* step of AtLeastOnce.                                                    *)
(***************************************************************************)
EXTENDS InboxDelivery, SequenceTheorems, FiniteSetTheorems, WellFoundedInduction, TLAPS

\* The messages that nothing need deliver any more, and the numbers up to which
\* every message is one of them.
Accounted == consumed \cup soughtPast \cup passedBusy
CoveredUpTo(n) == \A s \in Message : s <= n => s \in Accounted

\* A number the server has given out, everything up to which is accounted for:
\* what may become a cursor or a watermark.
SafeMark(n) == n <= inbox /\ CoveredUpTo(n)
SafeLedger(l) == /\ SafeMark(l.acked)
                 /\ \A s \in l.received : s <= inbox /\ (s \in Message => s \in Accounted)

\* Every number the process or its disk holds is safe, in whatever order the
\* writes land and whichever of them a restart finds.
MarksAreSafe ==
  /\ SafeMark(cursor) /\ SafeMark(session) /\ \A n \in saving : SafeMark(n)
  /\ SafeLedger(ledger) /\ SafeLedger(ledgerFile)
  /\ seek <= inbox

\* A page is a run of numbers: what lies before it is accounted for.
PageIsARun ==
  /\ SafeMark(sweep.since)
  /\ \A i \in DOMAIN sweep.page : /\ sweep.page[i] = sweep.page[1] + (i - 1)
                                  /\ sweep.page[i] <= inbox
  /\ sweep.page # <<>> => CoveredUpTo(sweep.page[1] - 1)

\* A handler is busy with a message the server has sent; the deduper knows only
\* messages that are accounted for.
HandlersAndDeduper ==
  /\ frames \subseteq 1 .. inbox
  /\ \A s \in Message : handler[s] # "none" => s <= inbox
  /\ Seen \subseteq Accounted

SweepState == [at : {"idle", "request", "page", "await"}, from : 0 .. MaxSeq,
               since : 0 .. MaxSeq, total : Nat, page : Seq(EventSeq), more : BOOLEAN]
SweepTyped == sweep \in SweepState /\ (sweep.at = "await" => sweep.page # <<>>)

IInv == TypeOK /\ SweepTyped /\ MarksAreSafe /\ PageIsARun /\ HandlersAndDeduper

---------------------------------------------------------------------------
(* The operators of the ledger, the deduper and the sweep.                 *)

\* A set of natural numbers that is not empty has a least element.
LEMMA LeastNatural ==
  ASSUME NEW T \in SUBSET Nat, T # {}
  PROVE  \E n \in T : \A m \in T : n <= m
<1> DEFINE R == {p \in Nat \X Nat : p[1] < p[2]}
<1>1. R = OpToRel(<, Nat)
  BY DEF OpToRel
<1>2. IsWellFoundedOn(R, Nat)
  BY <1>1, NatLessThanWellFounded
<1>3. \E x \in T : \A y \in T : ~ (<<y, x>> \in R)
  <2> HIDE DEF R
  <2> QED BY <1>2, WFMin
<1>4. PICK x \in T : \A y \in T : ~ (<<y, x>> \in R)
  BY <1>3
<1>5. ASSUME NEW m \in T PROVE x <= m
  <2>1. ~ (<<m, x>> \in R)
    BY <1>4
  <2>2. m \in Nat /\ x \in Nat
    BY <1>4
  <2>3. <<m, x>> \in Nat \X Nat /\ <<m, x>>[1] = m /\ <<m, x>>[2] = x
    BY <2>2
  <2> QED BY <2>1, <2>2, <2>3
<1> QED BY <1>5

\* The watermark swallows a run of received numbers and nothing else, and keeps
\* the numbers above it.
LEMMA AdvanceProperties ==
  ASSUME NEW acked \in 0 .. MaxSeq, NEW received \in SUBSET EventSeq
  PROVE  /\ Advance(acked, received) \in LedgerState
         /\ acked <= Advance(acked, received).acked
         /\ acked + 1 .. Advance(acked, received).acked \subseteq received
         /\ Advance(acked, received).received
              = {s \in received : s > Advance(acked, received).acked}
<1> USE ConstAssumption
<1> DEFINE P(n) == acked + 1 .. n \subseteq received /\ (n + 1 \notin received \/ n = MaxSeq)
           T == {n \in acked .. MaxSeq : n + 1 \notin received \/ n = MaxSeq}
<1>1. \E n \in acked .. MaxSeq : P(n)
  <2>1. T \in SUBSET Nat /\ MaxSeq \in T
    OBVIOUS
  <2>2. PICK n \in T : \A m \in T : n <= m
    BY <2>1, LeastNatural
  <2>3. ASSUME NEW k \in acked + 1 .. n PROVE k \in received
    <3>1. k - 1 \notin T
      BY <2>2, <2>1
    <3>2. k - 1 \in acked .. MaxSeq
      BY <2>2, <2>1
    <3> QED BY <3>1, <3>2
  <2> QED BY <2>2, <2>3
<1>2. DEFINE a == CHOOSE n \in acked .. MaxSeq : P(n)
<1>3. a \in acked .. MaxSeq /\ P(a)
  BY <1>1
<1>4. Advance(acked, received) = [acked |-> a, received |-> {s \in received : s > a}]
  BY DEF Advance
<1> HIDE DEF a
<1>5. a \in 0 .. MaxSeq /\ acked <= a /\ acked + 1 .. a \subseteq received
  BY <1>3
<1>6. [acked |-> a, received |-> {s \in received : s > a}] \in LedgerState
  BY <1>5 DEF LedgerState
<1> QED BY <1>4, <1>5, <1>6

\* setAckedSeq lifts the watermark to the number it is given, or leaves the
\* ledger alone; no number that was recorded is lost by it.
LEMMA AckedAtLeastProperties ==
  ASSUME NEW l \in LedgerState, NEW seq \in 0 .. MaxSeq
  PROVE  /\ AckedAtLeast(l, seq) \in LedgerState
         /\ AckedAtLeast(l, seq).acked = Larger(l.acked, seq)
         /\ AckedAtLeast(l, seq).received = {s \in l.received : s > Larger(l.acked, seq)}
            \/ AckedAtLeast(l, seq) = l
         /\ seq <= l.acked => AckedAtLeast(l, seq) = l
BY ConstAssumption DEF AckedAtLeast, LedgerState, Larger, EventSeq

\* commit: the deduper stays within its cap and learns of one message only.
LEMMA CommitProperties ==
  ASSUME TypeOK, NEW s \in Message, Commit(s)
  PROVE  /\ seen' \in Seq(Message) /\ Len(seen') <= DedupeCap
         /\ Seen' \subseteq Seen \cup {s}
<1>0. /\ seen \in Seq(Message) /\ Len(seen) \in Nat
      /\ DOMAIN seen = 1 .. Len(seen) /\ Len(seen) <= DedupeCap
      /\ DedupeCap \in Nat \ {0}
  BY ConstAssumption, LenProperties DEF TypeOK
<1>s. \A j \in 1 .. Len(seen) : seen[j] \in Seen
  BY <1>0 DEF Seen
<1>1. CASE Len(seen) < DedupeCap
  <2>1. seen' = Append(seen, s)
    BY <1>1 DEF Commit
  <2>2. /\ seen' \in Seq(Message) /\ Len(seen') = Len(seen) + 1 /\ DOMAIN seen' = 1 .. Len(seen) + 1
        /\ \A i \in 1 .. Len(seen) : seen'[i] = seen[i]
        /\ seen'[Len(seen) + 1] = s
    BY <1>0, <2>1, AppendProperties, LenProperties
  <2>3. ASSUME NEW i \in 1 .. Len(seen) + 1 PROVE seen'[i] \in Seen \cup {s}
    <3>1. CASE i = Len(seen) + 1
      BY <3>1, <2>2
    <3>2. CASE i \in 1 .. Len(seen)
      BY <3>2, <2>2, <1>s
    <3> QED BY <1>0, <3>1, <3>2
  <2>4. Len(seen') <= DedupeCap
    BY <1>0, <1>1, <2>2
  <2> QED BY <2>2, <2>3, <2>4 DEF Seen
<1>2. CASE ~(Len(seen) < DedupeCap)
  <2>1. seen' = Append(Tail(seen), s)
    BY <1>2 DEF Commit
  <2>2. seen # <<>>
    BY <1>2, <1>0
  <2>3. /\ Tail(seen) \in Seq(Message) /\ Len(Tail(seen)) = Len(seen) - 1
        /\ \A i \in 1 .. Len(Tail(seen)) : Tail(seen)[i] = seen[i + 1]
    BY <1>0, <2>2, HeadTailProperties
  <2> DEFINE t == Tail(seen)
  <2> HIDE DEF t
  <2>4. /\ seen' \in Seq(Message) /\ Len(seen') = Len(seen) /\ DOMAIN seen' = 1 .. Len(seen)
        /\ \A i \in 1 .. Len(seen) - 1 : seen'[i] = seen[i + 1]
        /\ seen'[Len(seen)] = s
    <3>1. /\ t \in Seq(Message) /\ Len(t) = Len(seen) - 1 /\ seen' = Append(t, s)
          /\ \A i \in 1 .. Len(t) : t[i] = seen[i + 1]
      BY <2>1, <2>3 DEF t
    <3>2. /\ seen' \in Seq(Message) /\ Len(seen') = Len(t) + 1
          /\ \A i \in 1 .. Len(t) : seen'[i] = t[i]
          /\ seen'[Len(t) + 1] = s
      BY <3>1, AppendProperties
    <3> QED BY <3>1, <3>2, <1>0, LenProperties
  <2>5. ASSUME NEW i \in 1 .. Len(seen) PROVE seen'[i] \in Seen \cup {s}
    <3>1. CASE i = Len(seen)
      BY <3>1, <2>4
    <3>2. CASE i \in 1 .. Len(seen) - 1
      <4>1. seen'[i] = seen[i + 1] /\ i + 1 \in 1 .. Len(seen)
        BY <1>0, <3>2, <2>4
      <4> QED BY <4>1, <1>s
    <3>3. \A n \in Nat : \A j \in 1 .. n : j = n \/ j \in 1 .. n - 1
      OBVIOUS
    <3> QED BY <1>0, <3>1, <3>2, <3>3
  <2>6. Len(seen') <= DedupeCap
    BY <1>0, <2>4
  <2> QED BY <2>4, <2>5, <2>6 DEF Seen
<1> QED BY <1>1, <1>2

\* Several numbers are recorded at once: the watermark moves over recorded numbers
\* only, and every number the ledger had or was told of is in it afterwards.
LEMMA RecordedProperties ==
  ASSUME ledger \in LedgerState, NEW seqs \in SUBSET EventSeq
  PROVE  /\ Recorded(seqs) \in LedgerState
         /\ ledger.acked <= Recorded(seqs).acked
         /\ \A n \in ledger.acked + 1 .. Recorded(seqs).acked : n \in ledger.received \cup seqs
         /\ Recorded(seqs).received \subseteq ledger.received \cup seqs
         /\ \A n \in ledger.received \cup seqs :
              n <= Recorded(seqs).acked \/ n \in Recorded(seqs).received
<1> DEFINE r == ledger.received \cup {s \in seqs : s > ledger.acked}
<1>1. ledger.acked \in 0 .. MaxSeq /\ ledger.received \in SUBSET EventSeq
  BY DEF LedgerState
<1>2. r \in SUBSET EventSeq /\ r \subseteq ledger.received \cup seqs
  BY <1>1
<1>3. Recorded(seqs) = Advance(ledger.acked, r)
  BY DEF Recorded
<1> DEFINE a == Advance(ledger.acked, r)
<1>4. /\ a \in LedgerState /\ ledger.acked <= a.acked
      /\ ledger.acked + 1 .. a.acked \subseteq r
      /\ a.received = {s \in r : s > a.acked}
  <2> HIDE DEF r
  <2> QED BY <1>1, <1>2, AdvanceProperties
<1>5. ASSUME NEW n \in ledger.received \cup seqs PROVE n <= a.acked \/ n \in a.received
  <2>1. a.acked \in 0 .. MaxSeq /\ n \in 1 .. MaxSeq
    BY <1>1, <1>4 DEF LedgerState, EventSeq
  <2>2. CASE n \in r
    <3> HIDE DEF a, r
    <3> QED BY ConstAssumption, <1>4, <2>1, <2>2
  <2>3. CASE n \notin r
    <3>1. n <= ledger.acked
      BY ConstAssumption, <1>1, <2>1, <2>3
    <3> HIDE DEF a, r
    <3> QED BY ConstAssumption, <1>1, <1>4, <2>1, <3>1
  <2> QED BY <2>2, <2>3
<1> HIDE DEF a, r
<1> QED BY <1>2, <1>3, <1>4, <1>5 DEF a

LEMMA CursorTyped ==
  /\ NoCursor \in Cursor /\ 0 .. MaxSeq \subseteq Cursor
  /\ \A c \in Cursor : Num(c) \in 0 .. MaxSeq /\ (c # NoCursor => c \in 0 .. MaxSeq)
BY ConstAssumption DEF Cursor, NoCursor, Num

LEMMA SaveSessionTyped ==
  ASSUME NEW seqs, saving \subseteq EventSeq, seqs \subseteq 0 .. MaxSeq, SaveSession(seqs)
  PROVE  saving' \subseteq EventSeq
<1>1. ASSUME NEW s \in saving' PROVE s \in EventSeq
  BY <1>1, ConstAssumption DEF SaveSession, EventSeq
<1> QED BY <1>1
---------------------------------------------------------------------------
(* How the sweep may move.                                                 *)

LEMMA NoSweepTyped == NoSweep \in SweepState
<1>1. <<>> \in Seq(EventSeq)
  BY EmptySeq
<1> QED BY <1>1, ConstAssumption DEF NoSweep, SweepState

\* A sweep starts at the smaller of its cursor and its floor, or does not start.
LEMMA SyncMissedEventsMoves ==
  ASSUME NEW c, NEW floor, SyncMissedEvents(c, floor)
  PROVE  \/ sweep' = sweep
         \/ c # NoCursor /\ sweep' = [at |-> "request", from |-> c,
              since |-> Smaller(c, floor), total |-> 0, page |-> <<>>, more |-> FALSE]
BY DEF SyncMissedEvents, NoSweep, StartOfSweep

LEMMA SyncMissedEventsTyped ==
  ASSUME SweepTyped, NEW c \in Cursor, NEW floor \in Cursor, SyncMissedEvents(c, floor),
         c # NoCursor => floor # NoCursor
  PROVE  SweepTyped'
<1>1. CASE sweep' = sweep
  BY <1>1 DEF SweepTyped
<1>2. CASE c # NoCursor /\ sweep' = [at |-> "request", from |-> c,
              since |-> Smaller(c, floor), total |-> 0, page |-> <<>>, more |-> FALSE]
  <2>1. <<>> \in Seq(EventSeq)
    BY EmptySeq
  <2>2. c \in 0 .. MaxSeq /\ Smaller(c, floor) \in 0 .. MaxSeq
    BY <1>2, ConstAssumption DEF Cursor, NoCursor, Smaller
  <2> QED BY <1>2, <2>1, <2>2, ConstAssumption DEF SweepTyped, SweepState
<1> QED BY <1>1, <1>2, SyncMissedEventsMoves

\* What the sweep does when it goes past the message at the head of its page.
LEMMA SweptPastTyped ==
  ASSUME SweepTyped, sweep.page # <<>>, NEW s \in EventSeq
  PROVE  /\ SweptPast(s) \in SweepState
         /\ SweptPast(s).at = "page" /\ SweptPast(s).page = Tail(sweep.page)
         /\ SweptPast(s).since = Larger(sweep.since, s)
         /\ [sweep EXCEPT !.page = Tail(@)] \in SweepState
<1>1. Tail(sweep.page) \in Seq(EventSeq)
  BY HeadTailProperties DEF SweepTyped, SweepState
<1>2. Larger(sweep.since, s) \in 0 .. MaxSeq
  BY ConstAssumption DEF SweepTyped, SweepState, Larger, EventSeq
<1> QED BY <1>1, <1>2 DEF SweepTyped, SweepState, SweptPast

LEMMA HandlerReturnsTyped ==
  ASSUME SweepTyped, NEW s \in EventSeq, NEW ok, HandlerReturns(s, ok)
  PROVE  SweepTyped'
<1>1. CASE ~Awaited(s)
  BY <1>1 DEF HandlerReturns, SweepTyped
<1>2. CASE Awaited(s) /\ ok
  BY <1>2, SweptPastTyped DEF HandlerReturns, SweepTyped, Awaited
<1>3. CASE Awaited(s) /\ ~ok
  BY <1>3, NoSweepTyped DEF HandlerReturns, SweepTyped, NoSweep
<1> QED BY <1>1, <1>2, <1>3

\* The page the server answers with, as far as its bounds go.
LEMMA PageTyped ==
  ASSUME NEW since \in 0 .. MaxSeq, NEW last \in 0 .. MaxSeq, since <= last
  PROVE  LET page == [i \in 1 .. last - since |-> since + i]
         IN  page \in Seq(EventSeq) /\ Len(page) = last - since
<1> DEFINE page == [i \in 1 .. last - since |-> since + i]
<1>1. last - since \in Nat /\ page \in [1 .. last - since -> EventSeq]
  BY ConstAssumption DEF EventSeq
<1>2. page \in Seq(EventSeq)
  BY <1>1, SeqDef
<1>3. Len(page) \in Nat /\ DOMAIN page = 1 .. Len(page)
  BY <1>2, LenProperties
<1> QED BY <1>1, <1>2, <1>3

---------------------------------------------------------------------------
(* Types.                                                                  *)

LEMMA NextTypeOK == IInv /\ [Next]_vars => TypeOK' /\ SweepTyped'
<1> SUFFICES ASSUME IInv, [Next]_vars PROVE TypeOK' /\ SweepTyped'
  OBVIOUS
<1> USE ConstAssumption
<1> TypeOK /\ SweepTyped
  BY DEF IInv
<1> Message \subseteq EventSeq
  BY DEF Message
<1>1. CASE Arrive
  BY <1>1 DEF TypeOK, SweepTyped, Arrive, life, marks, disk, ghosts
<1>2. CASE Disconnect
  BY <1>2 DEF TypeOK, SweepTyped, Disconnect, life, marks, disk, ghosts
<1>3. CASE PersistLedger
  BY <1>3 DEF TypeOK, SweepTyped, PersistLedger, server, life, marks, ghosts
<1>4. CASE SessionSaved
  <2>1. session' \in EventSeq /\ saving' \subseteq EventSeq
    BY <1>4 DEF TypeOK, SessionSaved
  <2>2. session' \in Cursor
    BY <2>1, CursorTyped DEF EventSeq
  <2> QED BY <1>4, <2>1, <2>2 DEF TypeOK, SweepTyped, SessionSaved, server, life, marks, ghosts
<1>5. CASE SweepRequest
  <2> DEFINE last == Smaller(sweep.since + PageSize, inbox)
             page == [i \in 1 .. last - sweep.since |-> sweep.since + i]
  <2>1. last \in 0 .. MaxSeq /\ sweep.since \in 0 .. MaxSeq /\ sweep.since <= last
    <3>1. inbox \in 0 .. MaxSeq /\ sweep.since \in 0 .. MaxSeq
      BY DEF TypeOK
    <3>2. sweep.since <= inbox
      BY DEF IInv, PageIsARun, SafeMark
    <3> QED BY <3>1, <3>2, ConstAssumption DEF Smaller
  <2>2. page \in Seq(EventSeq) /\ Len(page) \in Nat
    <3> HIDE DEF last
    <3>1. Len(page) = last - sweep.since /\ last - sweep.since \in Nat
      BY <2>1, PageTyped
    <3> QED BY <2>1, <3>1, PageTyped
  <2>3. /\ sweep' = [sweep EXCEPT !.at = "page", !.page = page, !.more = last < inbox,
                                  !.total = @ + Len(page)]
        /\ RecordSkipped({page[i] : i \in DOMAIN page} \cap NonMessage)
    BY <1>5 DEF SweepRequest
  <2>4. SweepTyped'
    <3> HIDE DEF page, last
    <3>1. sweep.total + Len(page) \in Nat /\ (last < inbox) \in BOOLEAN
      BY <2>2 DEF SweepTyped, SweepState
    <3>2. sweep' \in SweepState /\ sweep'.at = "page"
      BY <2>2, <2>3, <3>1 DEF SweepTyped, SweepState
    <3> QED BY <3>2 DEF SweepTyped
  <2>5. ledger' \in LedgerState /\ gapOpen' \in BOOLEAN
    <3>1. ledger \in LedgerState
      BY DEF TypeOK
    <3>2. {page[i] : i \in DOMAIN page} \cap NonMessage \subseteq EventSeq
      BY DEF EventSeq
    <3> HIDE DEF page
    <3> QED BY <2>3, <3>1, <3>2, RecordedProperties DEF RecordSkipped, LedgerRecord, TypeOK
  <2> HIDE DEF page, last
  <2> QED BY <1>5, <2>4, <2>5 DEF SweepRequest, TypeOK, SweepTyped, SweepState, server, life, disk, ghosts
<1>6. CASE SweepEvent
  <2>1. Head(sweep.page) \in EventSeq
    BY <1>6, HeadTailProperties DEF SweepEvent, SweepTyped, SweepState
  <2>2. SweepTyped'
    <3>1. sweep \in SweepState /\ sweep.page # <<>>
      BY <1>6 DEF SweepEvent, SweepTyped
    <3>2. CASE sweep' = [sweep EXCEPT !.page = Tail(@)]
      <4>1. Tail(sweep.page) \in Seq(EventSeq)
        BY <3>1, HeadTailProperties DEF SweepState
      <4> QED BY <1>6, <3>1, <3>2, <4>1 DEF SweepEvent, SweepTyped, SweepState
    <3>3. CASE sweep' = [sweep EXCEPT !.at = "await"]
      BY <3>1, <3>3 DEF SweepTyped, SweepState
    <3>4. CASE sweep' = SweptPast(Head(sweep.page))
      BY <2>1, <3>1, <3>4, SweptPastTyped DEF SweepTyped
    <3> QED BY <1>6, <3>2, <3>3, <3>4 DEF SweepEvent
  <2>3. handler' \in [EventSeq -> HandlerStates] /\ passedBusy' \subseteq Message
    BY <1>6, <2>1 DEF SweepEvent, TypeOK, HandlerStates, Message, EventSeq
  <2> QED BY <1>6, <2>2, <2>3 DEF SweepEvent, TypeOK, SweepTyped, SweepState, server, life, marks, disk
<1>7. CASE SweepPageDone
  <2>1. SweepTyped'
    BY <1>7, NoSweepTyped DEF SweepPageDone, SweepTyped, SweepState, NoSweep
  <2>2. cursor' \in Cursor /\ saving' \subseteq EventSeq
    <3>1. CASE UNCHANGED <<cursor, saving>>
      BY <3>1 DEF TypeOK
    <3>2. CASE cursor' = sweep.since /\ SaveSession({sweep.since})
      <4>1. saving \subseteq EventSeq /\ sweep.since \in 0 .. MaxSeq
        BY DEF TypeOK
      <4>2. saving' \subseteq EventSeq
        BY <3>2, <4>1, SaveSessionTyped
      <4> QED BY <3>2, <4>1, <4>2, CursorTyped
    <3> QED BY <1>7, <3>1, <3>2 DEF SweepPageDone
  <2> QED BY <1>7, <2>1, <2>2 DEF SweepPageDone, TypeOK, SweepTyped, SweepState, server, life, ghosts
<1>8. CASE SweepFails
  <2>1. SweepTyped'
    BY <1>8, NoSweepTyped DEF SweepFails, SweepTyped, NoSweep
  <2> QED BY <1>8, <2>1 DEF SweepFails, TypeOK, SweepTyped, SweepState, server, life, marks, disk, ghosts
<1>9. CASE SeekDone
  <2>1. PICK end \in (seek .. inbox) \cup {0} :
          IF end = 0 THEN UNCHANGED <<marks, saving, soughtPast>>
          ELSE /\ cursor' = end
               /\ SaveSession({end})
               /\ ledger' = AckedAtLeast(ledger, end)
               /\ lastAcked' = IF end > ledger.acked THEN end ELSE lastAcked
               /\ soughtPast' = soughtPast \cup
                    {s \in Message : ledger.acked < s /\ s <= end /\ s \notin consumed}
               /\ UNCHANGED gapOpen
    BY <1>9 DEF SeekDone
  <2>2. end \in 0 .. MaxSeq
    BY <1>9, <2>1 DEF SeekDone, TypeOK, Cursor, NoCursor
  <2>3. cursor' \in Cursor /\ saving' \subseteq EventSeq /\ soughtPast' \subseteq Message
    <3>1. CASE end = 0
      BY <2>1, <3>1 DEF TypeOK, marks
    <3>2. CASE end # 0
      <4>1. {end} \subseteq 0 .. MaxSeq /\ saving \subseteq EventSeq
        BY <2>2 DEF TypeOK
      <4>2. saving' \subseteq EventSeq
        BY <2>1, <3>2, <4>1, SaveSessionTyped
      <4> QED BY <2>1, <2>2, <3>2, <4>2, CursorTyped DEF TypeOK
    <3> QED BY <3>1, <3>2
  <2>4. ledger' \in LedgerState /\ lastAcked' \in 0 .. MaxSeq /\ gapOpen' \in BOOLEAN
    <3>1. ledger \in LedgerState /\ lastAcked \in 0 .. MaxSeq
      BY DEF TypeOK
    <3>2. CASE end = 0
      BY <2>1, <3>2 DEF marks, TypeOK
    <3>3. CASE end # 0
      <4>1. ledger' \in LedgerState
        BY <2>1, <2>2, <3>1, <3>3, AckedAtLeastProperties
      <4> QED BY <2>1, <2>2, <3>1, <3>3, <4>1 DEF TypeOK, LedgerState
    <3> QED BY <3>2, <3>3
  <2>5. seek' \in Cursor
    BY <1>9, CursorTyped DEF SeekDone
  <2>6. fresh' = fresh /\ consumed' = consumed /\ passedBusy' = passedBusy /\ sweep' = sweep
    BY <1>9 DEF SeekDone
  <2> QED BY <1>9, <2>3, <2>4, <2>5, <2>6 DEF SeekDone, TypeOK, SweepTyped, server, life
<1>10. ASSUME NEW s \in Message, ReceiveFrame(s) PROVE TypeOK' /\ SweepTyped'
  BY <1>10 DEF ReceiveFrame, TypeOK, SweepTyped, HandlerStates, life, marks, disk, ghosts
<1>11. ASSUME NEW s \in Message, Detail(s) PROVE TypeOK' /\ SweepTyped'
  <2>1. SweepTyped'
    BY <1>11, HandlerReturnsTyped DEF Detail, SweepTyped
  <2>2. seen' \in Seq(Message) /\ Len(seen') <= DedupeCap
    BY <1>11, CommitProperties DEF Detail, TypeOK
  <2>3. handler' \in [EventSeq -> HandlerStates]
    BY <1>11 DEF Detail, TypeOK, HandlerStates
  <2> QED BY <1>11, <2>1, <2>2, <2>3 DEF Detail, TypeOK, SweepTyped, SweepState, server, life, marks, disk, ghosts
<1>12. ASSUME NEW s \in Message, Consume(s) PROVE TypeOK' /\ SweepTyped'
  <2>1. SweepTyped'
    BY <1>12, HandlerReturnsTyped DEF Consume
  <2>2. seen' \in Seq(Message) /\ Len(seen') <= DedupeCap
    BY <1>12, CommitProperties DEF Consume
  <2>3. handler' \in [EventSeq -> HandlerStates]
    BY <1>12 DEF Consume, TypeOK, HandlerStates
  <2>4. ledger' \in LedgerState /\ gapOpen' \in BOOLEAN
    <3>1. ledger \in LedgerState /\ {s} \in SUBSET EventSeq
      BY DEF TypeOK
    <3> QED BY <1>12, <3>1, RecordedProperties DEF Consume, LedgerRecord, TypeOK
  <2>5. consumed' \subseteq Message /\ fresh' \subseteq consumed'
    BY <1>12 DEF Consume, TypeOK
  <2> QED BY <1>12, <2>1, <2>2, <2>3, <2>4, <2>5
          DEF Consume, TypeOK, SweepTyped, SweepState, server, life, disk
<1>13. ASSUME NEW s \in Message, DeliveryFails(s) PROVE TypeOK' /\ SweepTyped'
  <2>1. SweepTyped'
    BY <1>13, HandlerReturnsTyped DEF DeliveryFails
  <2> QED BY <1>13, <2>1 DEF DeliveryFails, TypeOK, SweepTyped, SweepState, HandlerStates, server, life, marks, disk, ghosts
<1>14. CASE Tick
  <2> DEFINE now == IF ledger.acked > lastAcked THEN ledger.acked ELSE cursor
  <2>1. ledger.acked \in 0 .. MaxSeq /\ ledger.acked \in Cursor /\ now \in Cursor
    BY DEF TypeOK, LedgerState, Cursor, NoCursor
  <2>2. SweepTyped'
    <3>1. CASE UNCHANGED sweep
      BY <3>1 DEF SweepTyped
    <3>2. CASE SyncMissedEvents(now, ledger.acked)
      <4> HIDE DEF now
      <4> QED BY <2>1, <3>2, SyncMissedEventsTyped DEF NoCursor
    <3> QED BY <1>14, <3>1, <3>2 DEF Tick
  <2>3. ledger' \in LedgerState /\ gapOpen' \in BOOLEAN
    BY <1>14 DEF Tick, TypeOK, LedgerState
  <2>4. cursor' \in Cursor /\ lastAcked' \in 0 .. MaxSeq /\ saving' \subseteq EventSeq
    BY <1>14, <2>1 DEF Tick, TypeOK, SaveSession, EventSeq
  <2> QED BY <1>14, <2>2, <2>3, <2>4 DEF Tick, TypeOK, SweepTyped, SweepState, server, life, ghosts
<1>15. CASE Open
  <2>1. SweepTyped'
    <3>1. SyncMissedEvents(cursor, cursor) /\ cursor \in Cursor
      BY <1>15 DEF Open, TypeOK
    <3> QED BY <3>1, SyncMissedEventsTyped
  <2>2. seek' \in Cursor
    BY <1>15, CursorTyped DEF Open, TypeOK
  <2> QED BY <1>15, <2>1, <2>2 DEF Open, TypeOK, SweepTyped, SweepState, life, marks, disk, ghosts
<1>16. CASE Start
  <2>1. LoadedCursor \in Cursor /\ Num(LoadedCursor) \in 0 .. MaxSeq /\ ledgerFile \in LedgerState
    BY DEF TypeOK, LoadedCursor, Cursor, NoCursor, Num
  <2>2. ledger' \in LedgerState /\ lastAcked' = ledger'.acked
        /\ cursor' = IF ledger'.acked > Num(LoadedCursor) THEN ledger'.acked ELSE LoadedCursor
    BY <1>16, <2>1, AckedAtLeastProperties DEF Start
  <2>3. cursor' \in Cursor /\ lastAcked' \in 0 .. MaxSeq
    <3>1. ledger'.acked \in 0 .. MaxSeq
      BY <2>2 DEF LedgerState
    <3> QED BY <2>1, <2>2, <3>1, CursorTyped
  <2>4. /\ UNCHANGED <<server, firstSync, gapOpen, seen, handler, sweep, seek, disk, ghosts>>
        /\ status' = "up" /\ catchUp' \in BOOLEAN
    BY <1>16 DEF Start
  <2>5. starts' \in 0 .. MaxStarts
    BY <1>16, ConstAssumption DEF Start, TypeOK
  <2>6. SweepTyped'
    BY <2>4 DEF SweepTyped
  <2> QED BY <2>2, <2>3, <2>4, <2>5, <2>6 DEF TypeOK, server, disk, ghosts
<1>17. CASE Stop
  <2>1. saving' \subseteq EventSeq
    <3>1. Larger(Num(cursor), ledger.acked) \in 0 .. MaxSeq
      BY CursorTyped DEF TypeOK, LedgerState, Larger
    <3> QED BY <1>17, <3>1, SaveSessionTyped DEF Stop, TypeOK
  <2> QED BY <1>17, <2>1 DEF Stop, TypeOK, SweepTyped, marks, ghosts
<1>18. CASE Exit
  <2>1. SweepTyped' /\ NoSweep \in SweepState
    BY <1>18, NoSweepTyped DEF Exit, SweepTyped, NoSweep
  <2>2. seen' \in Seq(Message) /\ Len(seen') <= DedupeCap
    BY <1>18, EmptySeq DEF Exit
  <2>3. ledger' \in LedgerState /\ handler' \in [EventSeq -> HandlerStates]
    BY <1>18 DEF Exit, LedgerState, HandlerStates
  <2>4. cursor' \in Cursor /\ seek' \in Cursor
    BY <1>18, CursorTyped DEF Exit
  <2>5. /\ sweep'.at \in {"idle", "request", "page", "await"}
        /\ sweep'.from \in 0 .. MaxSeq /\ sweep'.since \in 0 .. MaxSeq
        /\ sweep'.total \in Nat /\ sweep'.page \in Seq(EventSeq) /\ sweep'.more \in BOOLEAN
    BY <2>1 DEF SweepTyped, SweepState
  <2>6. /\ inbox' = inbox /\ frames' = {} /\ conn' = FALSE /\ status' = "down"
        /\ starts' = starts /\ firstSync' = firstSync /\ catchUp' = FALSE /\ lastAcked' = 0
        /\ gapOpen' = FALSE /\ saving' = {} /\ fresh' = {} /\ session' = session
        /\ ledgerFile' = ledgerFile /\ consumed' = consumed /\ soughtPast' = soughtPast
        /\ passedBusy' = passedBusy
    BY <1>18 DEF Exit
  <2>7. /\ frames' \subseteq Message /\ saving' \subseteq EventSeq /\ fresh' \subseteq consumed'
        /\ status' \in {"down", "up", "stopping"}
        /\ conn' \in BOOLEAN /\ catchUp' \in BOOLEAN /\ gapOpen' \in BOOLEAN
    BY <2>6
  <2>9. lastAcked' \in 0 .. MaxSeq
    BY <2>6
  <2>8. /\ inbox' \in 0 .. MaxSeq /\ starts' \in 0 .. MaxStarts /\ firstSync' \in BOOLEAN
        /\ session' \in Cursor /\ ledgerFile' \in LedgerState
        /\ consumed' \subseteq Message /\ soughtPast' \subseteq Message
        /\ passedBusy' \subseteq Message
    BY <2>6 DEF TypeOK
  <2> QED BY <2>1, <2>2, <2>3, <2>4, <2>5, <2>7, <2>8, <2>9 DEF TypeOK
<1>19. CASE UNCHANGED vars
  BY <1>19 DEF vars, TypeOK, SweepTyped
<1> QED BY <1>1, <1>2, <1>3, <1>4, <1>5, <1>6, <1>7, <1>8, <1>9, <1>10, <1>11, <1>12,
           <1>13, <1>14, <1>15, <1>16, <1>17, <1>18, <1>19 DEF Next, HandlerStep, SweepStep
---------------------------------------------------------------------------
(* What is accounted for stays accounted for; safe marks stay safe.        *)

SafeNext(n) == n <= inbox' /\ \A s \in Message : s <= n => s \in Accounted'
SafeLedgerNext(l) == /\ SafeNext(l.acked)
                     /\ \A s \in l.received : s <= inbox' /\ (s \in Message => s \in Accounted')

LEMMA AccountedGrows ==
  ASSUME TypeOK, [Next]_vars
  PROVE  inbox <= inbox' /\ inbox' \in Int /\ Accounted \subseteq Accounted'
<1> inbox \in Int
  BY DEF TypeOK
<1> USE DEF Accounted
<1>1. CASE Arrive \/ Disconnect \/ PersistLedger \/ SessionSaved \/ SweepStep \/ UNCHANGED vars
  BY <1>1 DEF Arrive, Disconnect, PersistLedger, SessionSaved, SweepStep, SweepRequest, SweepEvent,
     SweepPageDone, SweepFails, vars, server, ghosts
<1>2. CASE Tick \/ Open \/ Start \/ Stop \/ Exit
  BY <1>2 DEF Tick, Open, Start, Stop, Exit, server, ghosts
<1>4. CASE SeekDone
  <2>1. inbox' = inbox /\ consumed' = consumed /\ passedBusy' = passedBusy
    BY <1>4 DEF SeekDone, server
  <2>2. soughtPast \subseteq soughtPast'
    BY <1>4 DEF SeekDone, marks
  <2> QED BY <2>1, <2>2
<1>3. ASSUME NEW s \in Message, HandlerStep(s) PROVE inbox' = inbox /\ Accounted \subseteq Accounted'
  BY <1>3 DEF HandlerStep, ReceiveFrame, Detail, Consume, DeliveryFails, server, ghosts
<1> QED BY <1>1, <1>2, <1>3, <1>4 DEF Next

LEMMA SafeStaysSafe ==
  ASSUME TypeOK, [Next]_vars
  PROVE  /\ \A n \in Int : SafeMark(n) => SafeNext(n)
         /\ \A l \in LedgerState : SafeLedger(l) => SafeLedgerNext(l)
         /\ \A n \in Int, m \in Int : m <= n /\ SafeNext(n) => SafeNext(m)
<1>1. inbox \in Int /\ inbox' \in Int /\ inbox <= inbox' /\ Accounted \subseteq Accounted'
  BY AccountedGrows DEF TypeOK
<1>2. ASSUME NEW n \in Int, SafeMark(n) PROVE SafeNext(n)
  BY <1>1, <1>2 DEF SafeMark, CoveredUpTo, SafeNext
<1>3. ASSUME NEW l \in LedgerState, SafeLedger(l) PROVE SafeLedgerNext(l)
  <2>1. l.acked \in Int /\ l.received \subseteq Int
    BY ConstAssumption DEF LedgerState, EventSeq
  <2> QED BY <1>1, <1>2, <1>3, <2>1 DEF SafeLedger, SafeLedgerNext
<1>4. ASSUME NEW n \in Int, NEW m \in Int, m <= n, SafeNext(n) PROVE SafeNext(m)
  <2>1. Message \subseteq Int
    BY ConstAssumption DEF Message, EventSeq
  <2> QED BY <1>1, <1>4, <2>1 DEF SafeNext
<1> QED BY <1>2, <1>3, <1>4

\* The marks that an invariant state gives a step to start from.
LEMMA MarksBefore ==
  ASSUME IInv, [Next]_vars
  PROVE  /\ SafeNext(cursor) /\ SafeNext(session) /\ \A n \in saving : SafeNext(n)
         /\ SafeLedgerNext(ledger) /\ SafeLedgerNext(ledgerFile)
         /\ SafeNext(sweep.since) /\ SafeNext(ledger.acked) /\ SafeNext(0)
         /\ seek <= inbox'
<1>1. /\ cursor \in Int /\ session \in Int /\ saving \subseteq Int /\ seek \in Int
      /\ ledger \in LedgerState /\ ledgerFile \in LedgerState /\ sweep.since \in Int
      /\ inbox \in Int /\ inbox >= 0
  BY ConstAssumption DEF IInv, TypeOK, Cursor, NoCursor, EventSeq
<1>2. MarksAreSafe /\ PageIsARun /\ TypeOK
  BY DEF IInv
<1>3. SafeNext(0)
  <2>1. SafeMark(0)
    BY <1>1, ConstAssumption DEF SafeMark, CoveredUpTo, Message, EventSeq
  <2> QED BY <2>1, <1>2, SafeStaysSafe
<1>4. inbox <= inbox' /\ inbox' \in Int
  BY <1>2, AccountedGrows
<1>5. SafeLedgerNext(ledger)
  BY <1>1, <1>2, SafeStaysSafe DEF MarksAreSafe
<1> QED BY <1>1, <1>2, <1>3, <1>4, <1>5, SafeStaysSafe DEF MarksAreSafe, PageIsARun, SafeLedgerNext

LEMMA MarksAfter ==
  ASSUME SafeNext(cursor'), SafeNext(session'), \A n \in saving' : SafeNext(n),
         SafeLedgerNext(ledger'), SafeLedgerNext(ledgerFile'), seek' <= inbox'
  PROVE  MarksAreSafe'
BY DEF MarksAreSafe, SafeMark, SafeLedger, CoveredUpTo, SafeNext, SafeLedgerNext

\* What the ledger is told of makes it no less safe.
LEMMA RecordedSafe ==
  ASSUME ledger \in LedgerState, SafeLedgerNext(ledger), NEW seqs \in SUBSET EventSeq,
         \A s \in seqs : s <= inbox' /\ (s \in Message => s \in Accounted')
  PROVE  SafeLedgerNext(Recorded(seqs))
<1> DEFINE r == Recorded(seqs)
<1>1. /\ r \in LedgerState /\ ledger.acked <= r.acked
      /\ \A n \in ledger.acked + 1 .. r.acked : n \in ledger.received \cup seqs
      /\ r.received \subseteq ledger.received \cup seqs
  BY RecordedProperties
<1>2. \A s \in ledger.received \cup seqs : s <= inbox' /\ (s \in Message => s \in Accounted')
  BY DEF SafeLedgerNext
<1>3. r.acked \in 0 .. MaxSeq /\ ledger.acked \in 0 .. MaxSeq
  BY <1>1 DEF LedgerState
<1> HIDE DEF r
<1>4. r.acked <= inbox'
  <2>1. CASE r.acked = ledger.acked
    BY <2>1 DEF SafeLedgerNext, SafeNext
  <2>2. CASE r.acked # ledger.acked
    <3>1. r.acked \in ledger.acked + 1 .. r.acked
      BY <1>1, <1>3, <2>2, ConstAssumption
    <3> QED BY <1>1, <1>2, <3>1
  <2> QED BY <2>1, <2>2
<1>5. ASSUME NEW s \in Message, s <= r.acked PROVE s \in Accounted'
  <2>1. s \in Int
    BY ConstAssumption DEF Message, EventSeq
  <2>2. CASE s <= ledger.acked
    BY <2>2 DEF SafeLedgerNext, SafeNext
  <2>3. CASE ~(s <= ledger.acked)
    <3>1. s \in ledger.acked + 1 .. r.acked
      BY <1>3, <1>5, <2>1, <2>3, ConstAssumption
    <3> QED BY <1>1, <1>2, <3>1
  <2> QED BY <2>2, <2>3
<1> QED BY <1>1, <1>2, <1>4, <1>5 DEF SafeLedgerNext, SafeNext, r

LEMMA AckedAtLeastSafe ==
  ASSUME NEW l \in LedgerState, SafeLedgerNext(l), NEW seq \in 0 .. MaxSeq, SafeNext(seq)
  PROVE  SafeLedgerNext(AckedAtLeast(l, seq))
BY DEF SafeLedgerNext, AckedAtLeast

---------------------------------------------------------------------------
(* The page.                                                               *)

RunOf(page) == \A i \in DOMAIN page : page[i] = page[1] + (i - 1) /\ page[i] <= inbox

\* The rest of a run is the run that starts one later.
LEMMA TailIsARun ==
  ASSUME NEW page \in Seq(EventSeq), page # <<>>, RunOf(page)
  PROVE  /\ RunOf(Tail(page)) /\ Tail(page) \in Seq(EventSeq)
         /\ Head(page) = page[1] /\ page[1] \in EventSeq
         /\ Tail(page) # <<>> => Tail(page)[1] - 1 = page[1]
<1>1. /\ Tail(page) \in Seq(EventSeq) /\ Len(Tail(page)) = Len(page) - 1
      /\ \A i \in 1 .. Len(Tail(page)) : Tail(page)[i] = page[i + 1]
      /\ Head(page) = page[1] /\ Head(page) \in EventSeq
      /\ Len(page) \in Nat \ {0} /\ DOMAIN page = 1 .. Len(page)
      /\ DOMAIN Tail(page) = 1 .. Len(Tail(page))
      /\ Tail(page) # <<>> => Len(Tail(page)) \in Nat \ {0}
  <2>1. /\ Tail(page) \in Seq(EventSeq) /\ Len(Tail(page)) = Len(page) - 1
        /\ \A i \in 1 .. Len(Tail(page)) : Tail(page)[i] = page[i + 1]
        /\ Head(page) \in EventSeq
    BY HeadTailProperties
  <2>2. Len(page) \in Nat \ {0} /\ DOMAIN page = 1 .. Len(page)
    BY LenProperties, EmptySeq
  <2>3. /\ DOMAIN Tail(page) = 1 .. Len(Tail(page))
        /\ Tail(page) # <<>> => Len(Tail(page)) \in Nat \ {0}
    BY <2>1, LenProperties, EmptySeq
  <2>4. Head(page) = page[1]
    OBVIOUS
  <2> QED BY <2>1, <2>2, <2>3, <2>4
<1>2. page[1] \in Int
  BY <1>1, ConstAssumption DEF EventSeq
<1> DEFINE t == Tail(page)
           k == Len(page)
<1>3. \A i \in 1 .. k - 1 : t[i] = page[1] + i /\ t[i] <= inbox
  <2>1. \A i \in 1 .. k - 1 : i + 1 \in 1 .. k
    <3> HIDE DEF k
    <3>1. k \in Nat
      BY <1>1 DEF k
    <3> QED BY <3>1
  <2>2. ASSUME NEW i \in 1 .. k - 1 PROVE t[i] = page[1] + i /\ t[i] <= inbox
    <3>1. t[i] = page[i + 1] /\ i + 1 \in DOMAIN page
      BY <1>1, <2>1
    <3>2. page[i + 1] = page[1] + ((i + 1) - 1) /\ page[i + 1] <= inbox
      BY <3>1 DEF RunOf
    <3> HIDE DEF t, k
    <3> QED BY <3>1, <3>2, <1>2
  <2> QED BY <2>2
<1>4. t # <<>> => t[1] = page[1] + 1 /\ 1 \in 1 .. k - 1
  <2>1. t # <<>> => 1 \in 1 .. k - 1
    <3> SUFFICES ASSUME t # <<>> PROVE 1 \in 1 .. k - 1
      OBVIOUS
    <3>1. k \in Nat /\ k - 1 \in Nat \ {0}
      BY <1>1
    <3> HIDE DEF t, k
    <3> QED BY <3>1
  <2> QED BY <2>1, <1>3
<1>5. DOMAIN t = 1 .. k - 1 /\ k \in Nat
  BY <1>1
<1>6. \A i \in 1 .. k - 1 : t[i] = t[1] + (i - 1)
  <2> HIDE DEF t, k
  <2> SUFFICES ASSUME NEW i \in 1 .. k - 1 PROVE t[i] = t[1] + (i - 1)
    OBVIOUS
  <2>1. 1 \in 1 .. k - 1
    BY <1>5
  <2> QED BY <1>2, <1>3, <2>1
<1>7. RunOf(t)
  BY <1>3, <1>5, <1>6 DEF RunOf
<1>8. t # <<>> => t[1] - 1 = page[1]
  <2> HIDE DEF t
  <2> QED BY <1>2, <1>4
<1> QED BY <1>1, <1>7, <1>8

LEMMA SameRun ==
  ASSUME IInv, [Next]_vars, sweep'.page = sweep.page, sweep'.since = sweep.since
  PROVE  PageIsARun'
<1>1. TypeOK /\ PageIsARun /\ sweep.page \in Seq(EventSeq) /\ inbox \in Int
  BY DEF IInv, TypeOK
<1>2. inbox <= inbox' /\ inbox' \in Int /\ Accounted \subseteq Accounted'
  BY <1>1, AccountedGrows
<1>3. SafeNext(sweep'.since)
  BY MarksBefore
<1>4. \A i \in DOMAIN sweep.page : sweep.page[i] <= inbox'
  <2> SUFFICES ASSUME NEW i \in DOMAIN sweep.page PROVE sweep.page[i] <= inbox'
    OBVIOUS
  <2>1. sweep.page[i] \in Int /\ sweep.page[i] <= inbox
    BY <1>1, LenProperties, ElementOfSeq, ConstAssumption DEF PageIsARun, EventSeq
  <2> QED BY <2>1, <1>1, <1>2
<1> QED BY <1>1, <1>2, <1>3, <1>4 DEF PageIsARun, SafeNext, SafeMark, CoveredUpTo

LEMMA NoRun ==
  ASSUME sweep'.page = <<>>, SafeNext(sweep'.since)
  PROVE  PageIsARun'
<1>1. DOMAIN sweep'.page = {}
  OBVIOUS
<1> QED BY <1>1 DEF PageIsARun, SafeNext, SafeMark, CoveredUpTo

\* The sweep has looked at the event at the head of its page, and leaves it behind.
LEMMA ShorterRun ==
  ASSUME IInv, [Next]_vars, sweep.page # <<>>, sweep'.page = Tail(sweep.page),
         inbox' = inbox,
         Head(sweep.page) \in Message => Head(sweep.page) \in Accounted',
         sweep'.since \in {sweep.since, Larger(sweep.since, Head(sweep.page))}
  PROVE  PageIsARun'
<1>1. /\ TypeOK /\ PageIsARun /\ sweep.page \in Seq(EventSeq) /\ inbox \in Int
      /\ sweep.since \in Int
  <2>1. TypeOK /\ PageIsARun
    BY DEF IInv
  <2>2. /\ sweep.page \in Seq(EventSeq)
        /\ inbox \in 0 .. MaxSeq /\ sweep.since \in 0 .. MaxSeq
    BY <2>1 DEF TypeOK
  <2> QED BY <2>1, <2>2, ConstAssumption
<1>2. Accounted \subseteq Accounted'
  BY <1>1, AccountedGrows
<1>3. RunOf(sweep.page)
  BY <1>1 DEF PageIsARun, RunOf
<1> DEFINE h == Head(sweep.page)
<1>4. /\ RunOf(Tail(sweep.page)) /\ h = sweep.page[1] /\ h \in Int /\ h <= inbox
      /\ Tail(sweep.page) # <<>> => Tail(sweep.page)[1] - 1 = h
  <2>1. 1 \in DOMAIN sweep.page
    BY <1>1, EmptySeq, LenProperties
  <2>2. sweep.page[1] <= inbox
    BY <1>3, <2>1 DEF RunOf
  <2>3. /\ RunOf(Tail(sweep.page)) /\ Head(sweep.page) = sweep.page[1]
        /\ sweep.page[1] \in EventSeq
        /\ Tail(sweep.page) # <<>> => Tail(sweep.page)[1] - 1 = sweep.page[1]
    BY <1>1, <1>3, TailIsARun
  <2>4. sweep.page[1] \in Int
    BY <2>3, ConstAssumption DEF EventSeq
  <2> QED BY <2>2, <2>3, <2>4
<1>5. \A s \in Message : s <= h - 1 => s \in Accounted
  BY <1>1, <1>4 DEF PageIsARun, CoveredUpTo
<1>6. SafeNext(h)
  <2>1. ASSUME NEW s \in Message, s <= h PROVE s \in Accounted'
    <3>1. s \in Int
      BY ConstAssumption DEF Message, EventSeq
    <3>2. CASE s = h
      BY <3>2
    <3>3. CASE s <= h - 1
      BY <3>3, <1>2, <1>5
    <3> HIDE DEF h
    <3> QED BY <1>4, <2>1, <3>1, <3>2, <3>3
  <2> QED BY <1>4, <2>1 DEF SafeNext
<1>7. SafeNext(sweep'.since)
  BY <1>6, MarksBefore DEF Larger
<1>8. \A s \in Message : s <= h => s \in Accounted'
  BY <1>6 DEF SafeNext
<1> HIDE DEF h
<1> QED BY <1>4, <1>7, <1>8 DEF PageIsARun, SafeNext, SafeMark, CoveredUpTo, RunOf

\* A sweep that starts, starts at a safe mark.
LEMMA SweepStartsSafely ==
  ASSUME IInv, [Next]_vars, NEW c, NEW floor, SyncMissedEvents(c, floor),
         SafeNext(c), SafeNext(floor)
  PROVE  PageIsARun'
<1>1. CASE sweep' = sweep
  BY <1>1, SameRun
<1>2. CASE c # NoCursor /\ sweep' = [at |-> "request", from |-> c,
              since |-> Smaller(c, floor), total |-> 0, page |-> <<>>, more |-> FALSE]
  BY <1>2, NoRun DEF Smaller
<1> QED BY <1>1, <1>2, SyncMissedEventsMoves

\* A handler that returns leaves the message behind it accounted for; one that
\* throws ends the sweep that waits for it.
LEMMA HandlerLeavesARun ==
  ASSUME IInv, [Next]_vars, inbox' = inbox, NEW s \in Message, NEW ok,
         HandlerReturns(s, ok), ok => s \in Accounted'
  PROVE  PageIsARun'
<1>1. CASE ~Awaited(s)
  BY <1>1, SameRun DEF HandlerReturns
<1>2. CASE Awaited(s) /\ ok
  <2>1. sweep.page # <<>> /\ SweepTyped /\ s \in EventSeq
    BY <1>2 DEF IInv, SweepTyped, Awaited, Message
  <2>2. sweep'.page = Tail(sweep.page) /\ sweep'.since = Larger(sweep.since, Head(sweep.page))
    BY <1>2, <2>1, SweptPastTyped DEF HandlerReturns, Awaited
  <2> QED BY <1>2, <2>1, <2>2, ShorterRun DEF Awaited
<1>3. CASE Awaited(s) /\ ~ok
  BY <1>3, NoRun, MarksBefore DEF HandlerReturns, NoSweep
<1> QED BY <1>1, <1>2, <1>3

LEMMA HandlersKept ==
  ASSUME IInv, [Next]_vars, frames' \subseteq frames, seen' = seen,
         \A s \in Message : handler'[s] = handler[s] \/ handler'[s] = "none"
  PROVE  HandlersAndDeduper'
<1>1. inbox \in Int /\ inbox' \in Int /\ inbox <= inbox' /\ Accounted \subseteq Accounted'
  BY AccountedGrows DEF IInv, TypeOK
<1>2. Message \subseteq Int
  BY ConstAssumption DEF Message, EventSeq
<1>3. frames' \subseteq 1 .. inbox'
  BY <1>1 DEF IInv, HandlersAndDeduper
<1>4. Seen' = Seen
  BY DEF Seen
<1> QED BY <1>1, <1>2, <1>3, <1>4 DEF IInv, HandlersAndDeduper

---------------------------------------------------------------------------
(* Every step keeps the marks safe, the page a run and the handlers and    *)
(* the deduper in step with the inbox.                                     *)

Safe == MarksAreSafe /\ PageIsARun /\ HandlersAndDeduper

\* Steps that leave the marks and the disk alone.
LEMMA MarksKept ==
  ASSUME IInv, [Next]_vars, cursor' = cursor, ledger' = ledger, session' = session,
         saving' = saving, ledgerFile' = ledgerFile, seek' = seek
  PROVE  MarksAreSafe'
BY MarksBefore, MarksAfter

LEMMA ServerSafe == IInv /\ (Arrive \/ Disconnect \/ UNCHANGED vars) => Safe'
<1> SUFFICES ASSUME IInv, Arrive \/ Disconnect \/ UNCHANGED vars PROVE Safe'
  OBVIOUS
<1>1. [Next]_vars
  BY DEF Next
<1>2. MarksAreSafe'
  BY <1>1, MarksKept DEF Arrive, Disconnect, vars, marks, disk
<1>3. PageIsARun'
  BY <1>1, SameRun DEF Arrive, Disconnect, vars
<1>4. CASE Arrive
  <2>1. /\ inbox \in Int /\ inbox' = inbox + 1 /\ handler' = handler /\ Accounted' = Accounted
        /\ Seen' = Seen /\ frames' \subseteq frames \cup {inbox + 1} /\ inbox + 1 >= 1
    BY <1>4 DEF Arrive, IInv, TypeOK, ghosts, Accounted, Seen
  <2>2. Message \subseteq Int
    BY ConstAssumption DEF Message, EventSeq
  <2>3. frames' \subseteq 1 .. inbox'
    BY <2>1 DEF IInv, HandlersAndDeduper
  <2> QED BY <1>2, <1>3, <2>1, <2>2, <2>3 DEF Safe, IInv, HandlersAndDeduper
<1>5. CASE Disconnect \/ UNCHANGED vars
  <2>1. HandlersAndDeduper'
    BY <1>1, <1>5, HandlersKept DEF Disconnect, vars
  <2> QED BY <1>2, <1>3, <2>1 DEF Safe
<1> QED BY <1>4, <1>5

LEMMA DiskSafe == IInv /\ (PersistLedger \/ SessionSaved) => Safe'
<1> SUFFICES ASSUME IInv, PersistLedger \/ SessionSaved PROVE Safe'
  OBVIOUS
<1>1. [Next]_vars
  BY DEF Next
<1>2. MarksAreSafe'
  BY <1>1, MarksBefore, MarksAfter DEF PersistLedger, SessionSaved, marks, server
<1>3. PageIsARun'
  BY <1>1, SameRun DEF PersistLedger, SessionSaved
<1>4. HandlersAndDeduper'
  BY <1>1, HandlersKept DEF PersistLedger, SessionSaved, server
<1> QED BY <1>2, <1>3, <1>4 DEF Safe

LEMMA SweepSafe == IInv /\ SweepStep => Safe'
<1> SUFFICES ASSUME IInv, SweepStep PROVE Safe'
  OBVIOUS
<1>1. [Next]_vars
  BY DEF Next
<1>2. TypeOK /\ SweepTyped /\ inbox' = inbox /\ seek' = seek /\ session' = session /\ ledgerFile' = ledgerFile
  BY DEF IInv, SweepStep, SweepRequest, SweepEvent, SweepPageDone, SweepFails, server, disk
<1>3. CASE SweepRequest
  <2> DEFINE last == Smaller(sweep.since + PageSize, inbox)
             page == [i \in 1 .. last - sweep.since |-> sweep.since + i]
             seqs == {page[i] : i \in DOMAIN page} \cap NonMessage
  <2>1. last \in 0 .. MaxSeq /\ sweep.since \in 0 .. MaxSeq /\ sweep.since <= last /\ last <= inbox
    <3>1. inbox \in 0 .. MaxSeq /\ sweep.since \in 0 .. MaxSeq
      BY <1>2 DEF TypeOK
    <3>2. sweep.since <= inbox
      BY DEF IInv, PageIsARun, SafeMark
    <3> QED BY <3>1, <3>2, ConstAssumption DEF Smaller
  <2>2. sweep'.page = page /\ sweep'.since = sweep.since /\ RecordSkipped(seqs)
    BY <1>2, <1>3 DEF SweepRequest, SweepTyped, SweepState
  <2>3. \A i \in DOMAIN page : page[i] = sweep.since + i /\ i >= 1 /\ page[i] <= inbox
    <3> SUFFICES ASSUME NEW i \in 1 .. last - sweep.since
                 PROVE  page[i] = sweep.since + i /\ i >= 1 /\ page[i] <= inbox
      OBVIOUS
    <3>1. page[i] = sweep.since + i
      OBVIOUS
    <3>2. inbox \in Int /\ last \in Int /\ sweep.since \in Int
      BY <1>2, <2>1 DEF TypeOK
    <3> HIDE DEF page, last
    <3> QED BY <2>1, <3>1, <3>2
  <2>4. SafeLedgerNext(ledger')
    <3>1. ledger \in LedgerState /\ seqs \in SUBSET EventSeq
      BY <1>2, ConstAssumption DEF TypeOK, EventSeq
    <3>2. \A s \in seqs : s <= inbox' /\ (s \in Message => s \in Accounted')
      <4> HIDE DEF page
      <4> QED BY <1>2, <2>3 DEF Message
    <3> HIDE DEF seqs
    <3>3. SafeLedgerNext(Recorded(seqs))
      BY <1>1, <3>1, <3>2, MarksBefore, RecordedSafe
    <3> QED BY <1>1, <2>2, <3>3, MarksBefore DEF RecordSkipped, LedgerRecord
  <2>5. MarksAreSafe'
    BY <1>1, <1>2, <1>3, <2>4, MarksBefore, MarksAfter DEF SweepRequest, disk
  <2>6. SafeNext(sweep.since) /\ sweep.since \in Int
    BY <1>1, <2>1, MarksBefore
  <2>7. page # <<>> => page[1] = sweep.since + 1
    <3> SUFFICES ASSUME page # <<>> PROVE 1 \in DOMAIN page
      BY <2>3
    <3> HIDE DEF last
    <3>1. page \in Seq(EventSeq) /\ Len(page) = last - sweep.since
      BY <2>1, PageTyped
    <3> HIDE DEF page
    <3> QED BY <3>1, EmptySeq, LenProperties
  <2>8. PageIsARun'
    <3>1. \A i \in DOMAIN page : page # <<>> /\ i \in Int
      OBVIOUS
    <3> HIDE DEF page
    <3>2. \A i \in DOMAIN page : page[i] = page[1] + (i - 1) /\ page[i] <= inbox'
      BY <1>2, <2>3, <2>6, <2>7, <3>1
    <3>3. page # <<>> => page[1] - 1 = sweep.since
      BY <2>6, <2>7
    <3> QED BY <2>2, <2>6, <3>2, <3>3 DEF PageIsARun, SafeNext, SafeMark, CoveredUpTo
  <2>9. HandlersAndDeduper'
    BY <1>1, <1>3, HandlersKept DEF SweepRequest, server
  <2> QED BY <2>5, <2>8, <2>9 DEF Safe
<1>4. CASE SweepEvent
  <2> DEFINE h == Head(sweep.page)
  <2>1. sweep.page # <<>> /\ h \in EventSeq
    BY <1>2, <1>4, HeadTailProperties DEF SweepEvent, SweepTyped, SweepState
  <2>2. MarksAreSafe'
    BY <1>1, <1>4, MarksKept DEF SweepEvent, marks, disk
  <2>3. CASE h \in NonMessage
    <3>1. sweep'.page = Tail(sweep.page) /\ sweep'.since = sweep.since /\ handler' = handler
      BY <1>2, <1>4, <2>3 DEF SweepEvent, SweepTyped, SweepState
    <3>2. PageIsARun'
      BY <1>1, <1>2, <2>1, <2>3, <3>1, ShorterRun DEF Message
    <3>3. HandlersAndDeduper'
      BY <1>1, <1>4, <3>1, HandlersKept DEF SweepEvent, server
    <3> QED BY <2>2, <3>2, <3>3 DEF Safe
  <2>4. CASE h \notin NonMessage /\ Reservable(h)
    <3>1. sweep'.page = sweep.page /\ sweep'.since = sweep.since /\ handler' = [handler EXCEPT ![h] = "swept"]
      BY <1>2, <1>4, <2>4 DEF SweepEvent, SweepTyped, SweepState
    <3>2. PageIsARun'
      BY <1>1, <3>1, SameRun
    <3>3. h <= inbox'
      <4>1. 1 \in DOMAIN sweep.page /\ h = sweep.page[1]
        BY <1>2, <2>1, EmptySeq, LenProperties DEF SweepTyped, SweepState
      <4> QED BY <1>2, <4>1 DEF IInv, PageIsARun
    <3>4. HandlersAndDeduper'
      <4>1. frames' = frames /\ Seen' = Seen
        BY <1>4 DEF SweepEvent, server, Seen
      <4>2. Accounted \subseteq Accounted'
        BY <1>1, <1>2, AccountedGrows
      <4>3. \A s \in Message : handler'[s] = handler[s] \/ s = h
        BY <1>2, <3>1 DEF TypeOK, Message
      <4> HIDE DEF h
      <4> QED BY <1>2, <3>3, <4>1, <4>2, <4>3 DEF IInv, HandlersAndDeduper
    <3> QED BY <2>2, <3>2, <3>4 DEF Safe
  <2>5. CASE h \notin NonMessage /\ ~Reservable(h)
    <3>1. sweep' = SweptPast(h) /\ handler' = handler
          /\ passedBusy' = passedBusy \cup (IF handler[h] # "none" THEN {h} ELSE {})
      BY <1>4, <2>5 DEF SweepEvent
    <3>2. sweep'.page = Tail(sweep.page) /\ sweep'.since = Larger(sweep.since, h)
      BY <1>2, <2>1, <3>1, SweptPastTyped
    <3>3. h \in Accounted'
      <4>1. CASE h \in Seen
        BY <1>1, <1>2, <4>1, AccountedGrows DEF IInv, HandlersAndDeduper
      <4>2. CASE handler[h] # "none"
        BY <3>1, <4>2 DEF Accounted
      <4> QED BY <2>5, <4>1, <4>2 DEF Reservable
    <3>4. PageIsARun'
      BY <1>1, <1>2, <2>1, <3>2, <3>3, ShorterRun
    <3>5. HandlersAndDeduper'
      BY <1>1, <1>4, <3>1, HandlersKept DEF SweepEvent, server
    <3> QED BY <2>2, <3>4, <3>5 DEF Safe
  <2> QED BY <2>3, <2>4, <2>5
<1>5. CASE SweepPageDone
  <2>1. SafeNext(cursor') /\ \A n \in saving' : SafeNext(n)
    BY <1>1, <1>5, MarksBefore DEF SweepPageDone, SaveSession
  <2>2. MarksAreSafe'
    BY <1>1, <1>2, <1>5, <2>1, MarksBefore, MarksAfter DEF SweepPageDone
  <2>3. PageIsARun'
    <3>1. CASE sweep' = NoSweep
      BY <1>1, <3>1, NoRun, MarksBefore DEF NoSweep
    <3>2. CASE sweep' = [sweep EXCEPT !.at = "request"]
      BY <1>1, <1>2, <3>2, SameRun DEF SweepTyped, SweepState
    <3> QED BY <1>5, <3>1, <3>2 DEF SweepPageDone
  <2>4. HandlersAndDeduper'
    BY <1>1, <1>5, HandlersKept DEF SweepPageDone, server
  <2> QED BY <2>2, <2>3, <2>4 DEF Safe
<1>6. CASE SweepFails
  <2>1. MarksAreSafe'
    BY <1>1, <1>6, MarksKept DEF SweepFails, marks, disk
  <2>2. PageIsARun'
    BY <1>1, <1>6, NoRun, MarksBefore DEF SweepFails, NoSweep
  <2>3. HandlersAndDeduper'
    BY <1>1, <1>6, HandlersKept DEF SweepFails, server
  <2> QED BY <2>1, <2>2, <2>3 DEF Safe
<1> QED BY <1>3, <1>4, <1>5, <1>6 DEF SweepStep

LEMMA SeekSafe == IInv /\ SeekDone => Safe'
<1> SUFFICES ASSUME IInv, SeekDone PROVE Safe'
  OBVIOUS
<1>1. [Next]_vars
  BY DEF Next
<1>2. /\ TypeOK /\ seek' = NoCursor /\ inbox' = inbox /\ session' = session
      /\ ledgerFile' = ledgerFile
      /\ sweep' = sweep /\ handler' = handler /\ frames' = frames /\ seen' = seen
      /\ consumed' = consumed
  BY DEF IInv, SeekDone, server
<1>3. PICK end \in (seek .. inbox) \cup {0} :
        IF end = 0 THEN UNCHANGED <<marks, saving, soughtPast>>
        ELSE /\ cursor' = end
             /\ SaveSession({end})
             /\ ledger' = AckedAtLeast(ledger, end)
             /\ lastAcked' = IF end > ledger.acked THEN end ELSE lastAcked
             /\ soughtPast' = soughtPast \cup
                  {s \in Message : ledger.acked < s /\ s <= end /\ s \notin consumed}
             /\ UNCHANGED gapOpen
  BY DEF SeekDone
<1>4. PageIsARun' /\ HandlersAndDeduper'
  BY <1>1, <1>2, SameRun, HandlersKept
<1>5. seek' <= inbox'
  BY <1>2 DEF TypeOK, NoCursor
<1>6. CASE end = 0
  <2>1. cursor' = cursor /\ ledger' = ledger /\ saving' = saving
    BY <1>3, <1>6 DEF marks
  <2> QED BY <1>1, <1>2, <1>4, <1>5, <2>1, MarksBefore, MarksAfter DEF Safe
<1>7. CASE end # 0
  <2>1. end \in 0 .. MaxSeq /\ end <= inbox' /\ ledger \in LedgerState
    <3>1. seek \in 0 .. MaxSeq /\ inbox \in 0 .. MaxSeq /\ ledger \in LedgerState
      BY <1>2, CursorTyped DEF SeekDone, TypeOK
    <3>2. inbox' = inbox
      BY <1>2
    <3> QED BY <1>3, <1>7, <3>1, <3>2, ConstAssumption
  <2>2. SafeNext(end)
    <3>1. ASSUME NEW s \in Message, s <= end PROVE s \in Accounted'
      <4>1. s \in Int /\ ledger.acked \in Int
        BY <2>1, ConstAssumption DEF Message, EventSeq, LedgerState
      <4>2. CASE s <= ledger.acked
        BY <1>1, <4>2, MarksBefore DEF SafeNext
      <4>3. CASE ledger.acked < s
        <5>1. s \in consumed \/ s \in soughtPast'
          BY <1>3, <1>7, <3>1, <4>3
        <5> QED BY <1>2, <5>1 DEF Accounted
      <4> QED BY <4>1, <4>2, <4>3
    <3> QED BY <2>1, <3>1 DEF SafeNext
  <2>3. cursor' = end /\ ledger' = AckedAtLeast(ledger, end) /\ SaveSession({end})
    BY <1>3, <1>7
  <2>4. SafeLedgerNext(ledger')
    BY <1>1, <2>1, <2>2, <2>3, MarksBefore, AckedAtLeastSafe
  <2>5. \A n \in saving' : SafeNext(n)
    BY <1>1, <2>2, <2>3, MarksBefore DEF SaveSession
  <2> QED BY <1>1, <1>2, <1>4, <1>5, <2>2, <2>3, <2>4, <2>5, MarksBefore, MarksAfter DEF Safe
<1> QED BY <1>6, <1>7

LEMMA HandlerSafe == ASSUME NEW s \in Message PROVE IInv /\ HandlerStep(s) => Safe'
<1> SUFFICES ASSUME IInv, HandlerStep(s) PROVE Safe'
  OBVIOUS
<1>1. [Next]_vars
  BY DEF Next
<1>2. /\ TypeOK /\ SweepTyped /\ inbox' = inbox /\ cursor' = cursor /\ session' = session
      /\ saving' = saving /\ ledgerFile' = ledgerFile /\ seek' = seek
  BY DEF IInv, HandlerStep, ReceiveFrame, Detail, Consume, DeliveryFails, server, marks, disk
<1>3. s \in EventSeq /\ s \in Int /\ Message \subseteq EventSeq
  BY ConstAssumption DEF Message, EventSeq
<1>4. Accounted \subseteq Accounted'
  BY <1>1, <1>2, AccountedGrows
<1>5. CASE ReceiveFrame(s)
  <2>1. MarksAreSafe'
    BY <1>1, <1>2, <1>5, MarksKept DEF ReceiveFrame, marks
  <2>2. PageIsARun'
    BY <1>1, <1>5, SameRun DEF ReceiveFrame
  <2>3. HandlersAndDeduper'
    <3>1. s <= inbox /\ frames' \subseteq frames /\ Seen' = Seen
      <4>1. s \in frames /\ frames' = frames \ {s} /\ seen' = seen
        BY <1>5 DEF ReceiveFrame
      <4>2. frames \subseteq 1 .. inbox
        BY DEF IInv, HandlersAndDeduper
      <4> QED BY <1>2, <4>1, <4>2 DEF TypeOK, Seen
    <3>2. \A t \in Message : handler'[t] = handler[t] \/ t = s
      BY <1>2, <1>3, <1>5 DEF ReceiveFrame, TypeOK
    <3> QED BY <1>2, <1>4, <3>1, <3>2 DEF IInv, HandlersAndDeduper
  <2> QED BY <2>1, <2>2, <2>3 DEF Safe
<1>6. CASE Detail(s)
  <2>1. MarksAreSafe'
    BY <1>1, <1>2, <1>6, MarksKept DEF Detail, marks
  <2>2. frames' = frames /\ s <= inbox
    BY <1>6 DEF Detail, server, IInv, HandlersAndDeduper
  <2>3. \A t \in Message : handler'[t] = handler[t] \/ t = s
    BY <1>2, <1>3, <1>6 DEF Detail, TypeOK
  <2>4. CASE UNCHANGED <<seen, sweep>>
    <3>1. HandlersAndDeduper'
      BY <1>2, <1>4, <2>2, <2>3, <2>4 DEF IInv, HandlersAndDeduper, Seen
    <3> QED BY <1>1, <2>1, <2>4, <3>1, SameRun DEF Safe
  <2>5. CASE LedgerHas(s) /\ Commit(s) /\ HandlerReturns(s, TRUE)
    <3>1. s \in Accounted'
      <4>1. SafeLedgerNext(ledger)
        BY <1>1, MarksBefore
      <4> QED BY <2>5, <4>1 DEF LedgerHas, SafeLedgerNext, SafeNext
    <3>2. PageIsARun'
      BY <1>1, <1>2, <2>5, <3>1, HandlerLeavesARun
    <3>3. Seen' \subseteq Seen \cup {s}
      BY <1>2, <2>5, CommitProperties
    <3>4. HandlersAndDeduper'
      BY <1>2, <1>4, <2>2, <2>3, <3>1, <3>3 DEF IInv, HandlersAndDeduper
    <3> QED BY <2>1, <3>2, <3>4 DEF Safe
  <2> QED BY <1>6, <2>4, <2>5 DEF Detail
<1>7. CASE Consume(s)
  <2>1. /\ frames' = frames /\ s <= inbox /\ Commit(s) /\ HandlerReturns(s, TRUE)
        /\ consumed' = consumed \cup {s}
    BY <1>7 DEF Consume, server, IInv, HandlersAndDeduper
  <2>2. \A t \in Message : handler'[t] = handler[t] \/ t = s
    BY <1>2, <1>3, <1>7 DEF Consume, TypeOK
  <2>3. s \in Accounted'
    BY <2>1 DEF Accounted
  <2>4. PageIsARun'
    BY <1>1, <1>2, <2>1, <2>3, HandlerLeavesARun
  <2>5. Seen' \subseteq Seen \cup {s}
    BY <1>2, <2>1, CommitProperties
  <2>6. HandlersAndDeduper'
    BY <1>2, <1>4, <2>1, <2>2, <2>3, <2>5 DEF IInv, HandlersAndDeduper
  <2>7. SafeLedgerNext(ledger')
    <3>1. ledger \in LedgerState /\ SafeLedgerNext(ledger) /\ {s} \in SUBSET EventSeq
      BY <1>1, <1>2, <1>3, MarksBefore DEF TypeOK
    <3>2. \A t \in {s} : t <= inbox' /\ (t \in Message => t \in Accounted')
      BY <1>2, <2>1, <2>3
    <3>3. SafeLedgerNext(Recorded({s}))
      BY <3>1, <3>2, RecordedSafe
    <3> QED BY <1>7, <3>1, <3>3 DEF Consume, LedgerRecord
  <2>8. MarksAreSafe'
    BY <1>1, <1>2, <2>7, MarksBefore, MarksAfter
  <2> QED BY <2>4, <2>6, <2>8 DEF Safe
<1>8. CASE DeliveryFails(s)
  <2>1. MarksAreSafe'
    BY <1>1, <1>2, <1>8, MarksKept DEF DeliveryFails, marks
  <2>2. PageIsARun'
    BY <1>1, <1>2, <1>8, HandlerLeavesARun DEF DeliveryFails
  <2>3. \A t \in Message : handler'[t] = handler[t] \/ handler'[t] = "none"
    BY <1>2, <1>3, <1>8 DEF DeliveryFails, TypeOK
  <2>4. HandlersAndDeduper'
    BY <1>1, <1>8, <2>3, HandlersKept DEF DeliveryFails, server
  <2> QED BY <2>1, <2>2, <2>4 DEF Safe
<1> QED BY <1>5, <1>6, <1>7, <1>8 DEF HandlerStep

LEMMA TickSafe == IInv /\ Tick => Safe'
<1> SUFFICES ASSUME IInv, Tick PROVE Safe'
  OBVIOUS
<1> DEFINE now == IF ledger.acked > lastAcked THEN ledger.acked ELSE cursor
<1>1. [Next]_vars
  BY DEF Next
<1>2. /\ frames' = frames /\ inbox' = inbox /\ seen' = seen /\ handler' = handler
      /\ seek' = seek /\ session' = session /\ ledgerFile' = ledgerFile
      /\ cursor' = now
      /\ SaveSession(IF ledger.acked > lastAcked THEN {ledger.acked} ELSE {})
      /\ ledger' = ledger \/ ledger' = [ledger EXCEPT !.received = {}]
      /\ UNCHANGED sweep \/ SyncMissedEvents(now, ledger.acked)
  BY DEF Tick, server
<1>3. SafeNext(now) /\ SafeNext(ledger.acked)
  BY <1>1, MarksBefore
<1>4. PageIsARun'
  <2> HIDE DEF now
  <2> QED BY <1>1, <1>2, <1>3, SameRun, SweepStartsSafely
<1>5. SafeLedgerNext(ledger')
  <2>1. ledger \in LedgerState /\ SafeLedgerNext(ledger)
    BY <1>1, MarksBefore DEF IInv, TypeOK
  <2>2. CASE ledger' = [ledger EXCEPT !.received = {}]
    BY <1>3, <2>1, <2>2 DEF SafeLedgerNext, LedgerState
  <2> QED BY <1>2, <2>1, <2>2
<1>6. \A n \in saving' : SafeNext(n)
  BY <1>1, <1>2, <1>3, MarksBefore DEF SaveSession
<1>7. MarksAreSafe'
  BY <1>1, <1>2, <1>3, <1>5, <1>6, MarksBefore, MarksAfter
<1>8. HandlersAndDeduper'
  BY <1>1, <1>2, HandlersKept
<1> QED BY <1>4, <1>7, <1>8 DEF Safe

LEMMA LifeSafe == IInv /\ (Start \/ Open \/ Stop \/ Exit) => Safe'
<1> SUFFICES ASSUME IInv, Start \/ Open \/ Stop \/ Exit PROVE Safe'
  OBVIOUS
<1>1. [Next]_vars /\ TypeOK
  BY DEF Next, IInv
<1>2. inbox' = inbox /\ session' = session /\ inbox \in Int
  BY DEF Start, Open, Stop, Exit, disk, server, IInv, TypeOK
<1>3. CASE Start
  <2>1. /\ LoadedCursor \in Cursor /\ Num(LoadedCursor) \in 0 .. MaxSeq
        /\ ledgerFile \in LedgerState
    BY <1>1, CursorTyped DEF TypeOK, LoadedCursor, Num, NoCursor, Cursor
  <2>2. SafeNext(Num(LoadedCursor)) /\ SafeNext(LoadedCursor)
    BY <1>1, MarksBefore DEF LoadedCursor, Num
  <2>3. /\ ledger' = AckedAtLeast(ledgerFile, Num(LoadedCursor))
        /\ cursor' \in {ledger'.acked, LoadedCursor}
    BY <1>3 DEF Start
  <2>4. SafeLedgerNext(ledger')
    BY <1>1, <2>1, <2>2, <2>3, MarksBefore, AckedAtLeastSafe
  <2>5. SafeNext(cursor')
    BY <2>2, <2>3, <2>4 DEF SafeLedgerNext
  <2>6. MarksAreSafe'
    BY <1>1, <1>2, <1>3, <2>4, <2>5, MarksBefore, MarksAfter DEF Start, disk
  <2> QED BY <1>1, <1>3, <2>6, SameRun, HandlersKept DEF Safe, Start, server
<1>4. CASE Open
  <2>1. seek' <= inbox'
    BY <1>1, <1>2, <1>4 DEF Open, TypeOK, NoCursor
  <2>2. MarksAreSafe'
    BY <1>1, <1>4, <2>1, MarksBefore, MarksAfter DEF Open, marks, disk
  <2>3. SyncMissedEvents(cursor, cursor) /\ SafeNext(cursor)
    BY <1>1, <1>4, MarksBefore DEF Open
  <2>4. PageIsARun'
    BY <1>1, <2>3, SweepStartsSafely
  <2> QED BY <1>1, <1>4, <2>2, <2>4, HandlersKept DEF Safe, Open
<1>5. CASE Stop
  <2>1. SafeNext(Larger(Num(cursor), ledger.acked))
    BY <1>1, MarksBefore DEF Larger, Num
  <2>2. \A n \in saving' : SafeNext(n)
    BY <1>1, <1>5, <2>1, MarksBefore DEF Stop, SaveSession
  <2>3. MarksAreSafe'
    BY <1>1, <1>5, <2>2, MarksBefore, MarksAfter DEF Stop, marks
  <2> QED BY <1>1, <1>5, <2>3, SameRun, HandlersKept DEF Safe, Stop
<1>6. CASE Exit
  <2>1. /\ cursor' = NoCursor /\ seek' = NoCursor /\ saving' = {}
        /\ ledger' = [acked |-> 0, received |-> {}] /\ ledgerFile' = ledgerFile
        /\ frames' = {} /\ seen' = <<>> /\ handler' = [s \in EventSeq |-> "none"]
        /\ sweep' = NoSweep
    BY <1>6 DEF Exit
  <2>2. SafeNext(NoCursor) /\ NoCursor <= inbox'
    <3>1. NoCursor \in Int /\ NoCursor <= 0
      BY DEF NoCursor
    <3>2. SafeNext(0)
      BY <1>1, MarksBefore
    <3> QED BY <1>1, <1>2, <3>1, <3>2, SafeStaysSafe DEF SafeNext
  <2>3. SafeLedgerNext(ledger')
    BY <1>1, <2>1, MarksBefore DEF SafeLedgerNext
  <2>4. MarksAreSafe'
    BY <1>1, <1>2, <2>1, <2>2, <2>3, MarksBefore, MarksAfter
  <2>5. PageIsARun'
    BY <1>1, <2>1, NoRun, MarksBefore DEF NoSweep
  <2>6. HandlersAndDeduper'
    BY <2>1 DEF HandlersAndDeduper, Seen, Message
  <2> QED BY <2>4, <2>5, <2>6 DEF Safe
<1> QED BY <1>3, <1>4, <1>5, <1>6

---------------------------------------------------------------------------
LEMMA InitIInv == Init => IInv
<1> SUFFICES ASSUME Init PROVE IInv
  OBVIOUS
<1> USE ConstAssumption
<1>1. inbox \in 0 .. MaxSeq /\ inbox >= 0 /\ inbox \in Int
  BY DEF Init
<1>2. SweepTyped /\ NoSweep \in SweepState /\ sweep = NoSweep
  BY NoSweepTyped DEF Init, SweepTyped, NoSweep
<1>3. seen = <<>> /\ seen \in Seq(Message) /\ Len(seen) <= DedupeCap
  BY EmptySeq DEF Init
<1>4. TypeOK
  <2>1. /\ sweep.at \in {"idle", "request", "page", "await"}
        /\ sweep.from \in 0 .. MaxSeq /\ sweep.since \in 0 .. MaxSeq
        /\ sweep.total \in Nat /\ sweep.page \in Seq(EventSeq) /\ sweep.more \in BOOLEAN
    BY <1>2 DEF SweepState
  <2>2. cursor \in Cursor /\ session \in Cursor /\ seek \in Cursor
    BY CursorTyped DEF Init
  <2>3. ledger \in LedgerState /\ ledgerFile \in LedgerState
    BY DEF Init, LedgerState
  <2>4. handler \in [EventSeq -> HandlerStates]
    BY DEF Init, HandlerStates
  <2>5. starts \in 0 .. MaxStarts /\ lastAcked \in 0 .. MaxSeq
    BY DEF Init
  <2> QED BY <1>1, <1>3, <2>1, <2>2, <2>3, <2>4, <2>5 DEF Init, TypeOK
<1>5. MarksAreSafe /\ PageIsARun
  <2>1. SafeMark(0) /\ SafeMark(NoCursor)
    BY <1>1 DEF SafeMark, CoveredUpTo, Message, EventSeq, NoCursor
  <2>2. sweep.since = 0 /\ sweep.page = <<>>
    BY <1>2 DEF NoSweep
  <2>3. PageIsARun
    BY <2>1, <2>2 DEF PageIsARun
  <2> QED BY <1>1, <2>1, <2>3 DEF Init, MarksAreSafe, SafeLedger, NoCursor
<1>6. HandlersAndDeduper
  BY <1>3 DEF Init, HandlersAndDeduper, Seen, Message
<1> QED BY <1>2, <1>4, <1>5, <1>6 DEF IInv

LEMMA NextIInv == IInv /\ [Next]_vars => IInv'
<1>1. IInv /\ [Next]_vars => Safe'
  BY ServerSafe, DiskSafe, SweepSafe, SeekSafe, HandlerSafe, TickSafe, LifeSafe DEF Next
<1> QED BY <1>1, NextTypeOK DEF IInv, Safe

LEMMA SpecIInv == Spec => []IInv
BY InitIInv, NextIInv, PTL DEF Spec

\* The process, its files and the server keep their types: the deduper never holds
\* more than maxEntries messages, and no cursor or watermark leaves the numbers of
\* the inbox.
THEOREM InboxTypeCorrect == Spec => []TypeOK
<1>1. IInv => TypeOK
  BY DEF IInv
<1> QED BY <1>1, SpecIInv, PTL

\* Whatever the sizes of the inbox, its pages and its caches, and however often the
\* process crashes and restarts: a message that no delivery consumed falls under the
\* watermark, below which nothing is delivered again, only if the process sought past
\* it when it began or a sweep passed over it while its handler was busy.
THEOREM LossCause == Spec => []LossHasOneCause
<1>1. IInv => LossHasOneCause
  BY DEF IInv, MarksAreSafe, SafeLedger, SafeMark, CoveredUpTo, Accounted, LossHasOneCause, Missed
<1> QED BY <1>1, SpecIInv, PTL

---------------------------------------------------------------------------
(* No second delivery.                                                     *)

\* The ledger has not got more numbers above the watermark than receivedCap.
LedgerHasRoom == Cardinality(ledger.received) <= ReceivedCap

\* What this process consumed knowing its number is still in its ledger.
FreshInv ==
  /\ \A s \in fresh : LedgerHas(s)
  /\ status = "down" => fresh = {}
  /\ NoSecondDelivery

LEMMA SameLedger ==
  ASSUME FreshInv, ledger' = ledger, fresh' = fresh, status' = "down" => status = "down",
         \A s \in Message : handler'[s] = "deliver" => handler[s] = "deliver"
  PROVE  FreshInv'
BY DEF FreshInv, LedgerHas, NoSecondDelivery

\* The ledger has everything it had, and more.
LEMMA LargerLedger ==
  ASSUME FreshInv, \A s \in EventSeq : LedgerHas(s) => LedgerHas(s)', fresh \subseteq EventSeq,
         status' = "down" => status = "down", fresh' = fresh, handler' = handler
  PROVE  FreshInv'
BY DEF FreshInv, NoSecondDelivery

LEMMA RecordedKeeps ==
  ASSUME ledger \in LedgerState, NEW seqs \in SUBSET EventSeq, ledger' = Recorded(seqs)
  PROVE  /\ \A s \in EventSeq : LedgerHas(s) => LedgerHas(s)'
         /\ \A s \in seqs : LedgerHas(s)'
<1>1. /\ Recorded(seqs) \in LedgerState
      /\ ledger.acked <= Recorded(seqs).acked
      /\ \A n \in ledger.received \cup seqs :
           n <= Recorded(seqs).acked \/ n \in Recorded(seqs).received
  BY RecordedProperties
<1>2. ledger.acked \in Int /\ ledger'.acked \in Int /\ EventSeq \subseteq Int
  BY <1>1, ConstAssumption DEF LedgerState, EventSeq
<1>3. ASSUME NEW s \in EventSeq, LedgerHas(s) PROVE LedgerHas(s)'
  <2>1. CASE s <= ledger.acked
    BY <1>1, <1>2, <2>1 DEF LedgerHas
  <2>2. CASE s \in ledger.received
    BY <1>1, <2>2 DEF LedgerHas
  <2> QED BY <1>3, <2>1, <2>2 DEF LedgerHas
<1>4. ASSUME NEW s \in seqs PROVE LedgerHas(s)'
  BY <1>1 DEF LedgerHas
<1> QED BY <1>3, <1>4

LEMMA AckedAtLeastKeeps ==
  ASSUME ledger \in LedgerState, NEW seq \in 0 .. MaxSeq, ledger' = AckedAtLeast(ledger, seq)
  PROVE  \A s \in EventSeq : LedgerHas(s) => LedgerHas(s)'
<1>1. CASE ~(seq > ledger.acked)
  BY <1>1 DEF AckedAtLeast, LedgerHas
<1>2. CASE seq > ledger.acked
  <2>1. ledger'.acked = seq /\ ledger'.received = {s \in ledger.received : s > seq}
    BY <1>2 DEF AckedAtLeast
  <2>2. ledger.acked \in Int /\ seq \in Int /\ EventSeq \subseteq Int
    BY ConstAssumption DEF LedgerState, EventSeq
  <2>3. ASSUME NEW s \in EventSeq, LedgerHas(s) PROVE s <= seq \/ s \in ledger'.received
    <3>1. s \in Int
      BY <2>2
    <3>2. CASE s <= ledger.acked
      BY <1>2, <2>2, <3>1, <3>2
    <3>3. CASE s \in ledger.received
      BY <2>1, <2>2, <3>1, <3>3
    <3> QED BY <2>3, <3>2, <3>3 DEF LedgerHas
  <2> QED BY <2>1, <2>3 DEF LedgerHas
<1> QED BY <1>1, <1>2

LEMMA NextFresh == IInv /\ FreshInv /\ LedgerHasRoom /\ [Next]_vars => FreshInv'
<1> SUFFICES ASSUME IInv, FreshInv, LedgerHasRoom, [Next]_vars PROVE FreshInv'
  OBVIOUS
<1>0. /\ TypeOK /\ SweepTyped /\ ledger \in LedgerState /\ fresh \subseteq EventSeq
      /\ Message \subseteq EventSeq /\ handler \in [EventSeq -> HandlerStates]
  BY DEF IInv, TypeOK, Message
<1>1. CASE Arrive \/ Disconnect \/ PersistLedger \/ SessionSaved \/ UNCHANGED vars
  BY <1>1, SameLedger DEF Arrive, Disconnect, PersistLedger, SessionSaved, vars, life, marks, ghosts
<1>2. CASE SweepRequest
  <2> DEFINE last == Smaller(sweep.since + PageSize, inbox)
             page == [i \in 1 .. last - sweep.since |-> sweep.since + i]
             seqs == {page[i] : i \in DOMAIN page} \cap NonMessage
  <2>1. RecordSkipped(seqs) /\ fresh' = fresh /\ handler' = handler /\ status' = status
    BY <1>2 DEF SweepRequest, ghosts, life
  <2>2. seqs \in SUBSET EventSeq
    BY ConstAssumption DEF EventSeq
  <2> HIDE DEF seqs
  <2>3. CASE ledger' = ledger
    BY <2>1, <2>3, SameLedger
  <2>4. CASE ledger' = Recorded(seqs)
    BY <1>0, <2>1, <2>2, <2>4, RecordedKeeps, LargerLedger
  <2> QED BY <2>1, <2>3, <2>4 DEF RecordSkipped, LedgerRecord
<1>3. CASE SweepEvent
  BY <1>0, <1>3, SameLedger DEF SweepEvent, marks, life
<1>4. CASE SweepPageDone \/ SweepFails
  BY <1>4, SameLedger DEF SweepPageDone, SweepFails, marks, life, ghosts
<1>5. CASE SeekDone
  <2>1. PICK end \in (seek .. inbox) \cup {0} :
          IF end = 0 THEN ledger' = ledger ELSE ledger' = AckedAtLeast(ledger, end)
    BY <1>5 DEF SeekDone, marks
  <2>2. end \in 0 .. MaxSeq
    <3>1. seek \in 0 .. MaxSeq /\ inbox \in 0 .. MaxSeq
      BY <1>0, <1>5, CursorTyped DEF SeekDone, TypeOK
    <3> QED BY <2>1, <3>1, ConstAssumption
  <2>3. fresh' = fresh /\ handler' = handler /\ status' = status
    BY <1>5 DEF SeekDone, life
  <2> QED BY <1>0, <2>1, <2>2, <2>3, SameLedger, LargerLedger, AckedAtLeastKeeps
<1>6. ASSUME NEW s \in Message, HandlerStep(s) PROVE FreshInv'
  <2>1. CASE ReceiveFrame(s)
    BY <1>0, <2>1, SameLedger DEF ReceiveFrame, marks, ghosts, life
  <2>2. CASE Detail(s)
    <3>1. ledger' = ledger /\ fresh' = fresh /\ status' = status
      BY <2>2 DEF Detail, marks, ghosts, life
    <3>2. \A t \in Message : handler'[t] = "deliver" =>
            handler[t] = "deliver" \/ (t = s /\ ~LedgerHas(s))
      BY <1>0, <2>2 DEF Detail
    <3>3. NoSecondDelivery'
      BY <3>1, <3>2 DEF FreshInv, NoSecondDelivery
    <3> QED BY <3>1, <3>3 DEF FreshInv, LedgerHas
  <2>3. CASE Consume(s)
    <3>1. /\ \A t \in Message : handler'[t] = "deliver" => handler[t] = "deliver" /\ t # s
          /\ status' = status /\ status # "down"
      BY <1>0, <2>3 DEF Consume, life, Alive
    <3>2. CASE handler[s] = "deliver"
      <4>1. ledger' = Recorded({s}) /\ fresh' = fresh \cup {s}
        BY <2>3, <3>2 DEF Consume, LedgerRecord
      <4>2. {s} \in SUBSET EventSeq
        BY <1>0
      <4>3. \A t \in EventSeq : LedgerHas(t) \/ t \in {s} => LedgerHas(t)'
        BY <1>0, <4>1, <4>2, RecordedKeeps
      <4>4. \A t \in fresh' : LedgerHas(t)'
        BY <1>0, <4>1, <4>3 DEF FreshInv
      <4>5. NoSecondDelivery'
        BY <3>1, <4>1 DEF FreshInv, NoSecondDelivery
      <4> QED BY <3>1, <4>4, <4>5 DEF FreshInv
    <3>3. CASE handler[s] # "deliver"
      <4>1. ledger' = ledger /\ fresh' = fresh
        BY <2>3, <3>3 DEF Consume
      <4> QED BY <3>1, <4>1, SameLedger
    <3> QED BY <3>2, <3>3
  <2>4. CASE DeliveryFails(s)
    BY <1>0, <2>4, SameLedger DEF DeliveryFails, marks, ghosts, life
  <2> QED BY <1>6, <2>1, <2>2, <2>3, <2>4 DEF HandlerStep
<1>7. CASE Tick
  <2>1. Cardinality(ledger.received) \in Nat
    <3>1. IsFiniteSet(EventSeq) /\ ledger.received \subseteq EventSeq
      BY <1>0, ConstAssumption, FS_Interval DEF EventSeq, LedgerState
    <3> QED BY <3>1, FS_Subset, FS_CardinalityType
  <2>2. ~(Cardinality(ledger.received) > ReceivedCap)
    BY <2>1, ConstAssumption DEF LedgerHasRoom
  <2>3. ledger' = ledger
    BY <1>7, <2>2 DEF Tick
  <2>4. fresh' = fresh /\ handler' = handler /\ status' = status
    BY <1>7 DEF Tick, life, ghosts
  <2> QED BY <2>3, <2>4, SameLedger
<1>8. CASE Open \/ Stop
  BY <1>8, SameLedger DEF Open, Stop, Up, life, marks, ghosts
<1>9. CASE Start
  BY <1>9 DEF Start, FreshInv, NoSecondDelivery, ghosts
<1>10. CASE Exit
  BY <1>10 DEF Exit, FreshInv, NoSecondDelivery
<1> QED BY <1>1, <1>2, <1>3, <1>4, <1>5, <1>6, <1>7, <1>8, <1>9, <1>10 DEF Next, SweepStep

\* As long as the ledger has room for the numbers above the watermark, a process
\* never delivers again a message it consumed knowing its number, whatever the
\* deduper has forgotten.  (An overflow drops those numbers: then it may.)
THEOREM DeliveredOnce == Spec /\ []LedgerHasRoom => []NoSecondDelivery
<1>1. Init => FreshInv
  BY DEF Init, FreshInv, NoSecondDelivery
<1>2. FreshInv => NoSecondDelivery
  BY DEF FreshInv
<1> QED BY <1>1, <1>2, NextFresh, SpecIInv, PTL DEF Spec

\* In particular in an inbox whose numbers all fit into the ledger at once, as
\* they do in the run that checks the property.
THEOREM DeliveredOnceInSmallInbox ==
  ASSUME MaxSeq <= ReceivedCap
  PROVE  Spec => []NoSecondDelivery
<1>1. IInv => LedgerHasRoom
  <2> SUFFICES ASSUME IInv PROVE LedgerHasRoom
    OBVIOUS
  <2>1. ledger.received \subseteq 1 .. MaxSeq
    BY DEF IInv, TypeOK, LedgerState, EventSeq
  <2>2. MaxSeq \in Nat /\ ReceivedCap \in Nat
    BY ConstAssumption
  <2>3. IsFiniteSet(1 .. MaxSeq) /\ Cardinality(1 .. MaxSeq) = MaxSeq
    BY <2>2, FS_Interval
  <2>4. IsFiniteSet(ledger.received) /\ Cardinality(ledger.received) <= MaxSeq
    BY <2>1, <2>3, FS_Subset
  <2>5. Cardinality(ledger.received) \in Nat
    BY <2>4, FS_CardinalityType
  <2> QED BY <2>2, <2>4, <2>5 DEF LedgerHasRoom
<1> QED BY <1>1, SpecIInv, DeliveredOnce, PTL

---------------------------------------------------------------------------
(* The refinement of AtLeastOnce.                                          *)

Sent == Message \cap 1 .. inbox
Settled == IF Alive THEN {s \in Message : s <= ledger.acked} ELSE {}

StageOf(h) == CASE h = "none" -> "free"
                [] h \in {"live", "swept"} -> "reserved"
                [] h = "deliver" -> "delivering"
                [] h = "deliverBlind" -> "blind"

LEMMA StageIs == Stage = [s \in Message |-> StageOf(handler[s])]
BY DEF Stage, StageOf

LEMMA StageMoves ==
  ASSUME handler \in [EventSeq -> HandlerStates], NEW s \in Message, NEW h,
         handler' = [handler EXCEPT ![s] = h]
  PROVE  Stage' = [Stage EXCEPT ![s] = StageOf(h)]
<1>1. Message \subseteq EventSeq
  BY DEF Message
<1>2. Stage' = [t \in Message |-> StageOf(handler'[t])]
  BY DEF Stage, StageOf
<1>3. \A t \in Message : handler'[t] = IF t = s THEN h ELSE handler[t]
  BY <1>1
<1> QED BY <1>2, <1>3, StageIs

\* The watermark of a running process does not go back, and what it passes over is
\* accounted for.
LEMMA SettleStep ==
  ASSUME IInv, IInv', Alive, Alive', ledger.acked <= ledger'.acked
  PROVE  Settled \subseteq Settled' /\ Settled' \subseteq consumed' \cup soughtPast' \cup passedBusy'
<1>1. ledger.acked \in Int /\ ledger'.acked \in Int /\ Message \subseteq Int
  BY ConstAssumption DEF IInv, TypeOK, LedgerState, Message, EventSeq
<1>2. \A s \in Message : s <= ledger'.acked => s \in Accounted'
  BY DEF IInv, MarksAreSafe, SafeLedger, SafeMark, CoveredUpTo
<1>3. /\ Settled = {s \in Message : s <= ledger.acked}
      /\ Settled' = {s \in Message : s <= ledger'.acked}
  BY DEF Settled
<1>4. ASSUME NEW s \in Settled PROVE s \in Settled'
  <2>1. s \in Message /\ s <= ledger.acked /\ s \in Int
    BY <1>1, <1>3
  <2>2. s <= ledger'.acked
    BY <1>1, <2>1
  <2> QED BY <1>3, <2>1, <2>2
<1> QED BY <1>2, <1>3, <1>4 DEF Accounted

PromiseVars == <<Sent, Stage, consumed, soughtPast, passedBusy, Settled>>

\* What each operation of the inbox does to what AtLeastOnce sees.
LEMMA SeenUnchanged ==
  ASSUME inbox' = inbox, handler' = handler, consumed' = consumed,
         soughtPast' = soughtPast, passedBusy' = passedBusy,
         Alive' <=> Alive, Alive => ledger'.acked = ledger.acked
  PROVE  PromiseVars' = PromiseVars
<1>1. Sent' = Sent /\ Stage' = Stage
  BY DEF Sent, Stage
<1>2. Settled' = Settled
  BY DEF Settled
<1> QED BY <1>1, <1>2 DEF PromiseVars

LEMMA PromiseVarsAre ==
  PromiseVars' = PromiseVars => [Promise!Next]_(Promise!vars)
BY DEF PromiseVars, Promise!vars, Sent, Settled

LEMMA InitPromise == Init => Promise!Init
<1> SUFFICES ASSUME Init PROVE Promise!Init
  OBVIOUS
<1>1. Message \cap 1 .. inbox \subseteq Message
  OBVIOUS
<1>2. Stage = [s \in Message |-> "free"]
  BY DEF Init, Stage, Message
<1>3. ~Alive
  BY DEF Init, Alive
<1> QED BY <1>1, <1>2, <1>3 DEF Init, Promise!Init

LEMMA ServerPromise ==
  ASSUME IInv, Arrive \/ Disconnect \/ PersistLedger \/ SessionSaved \/ UNCHANGED vars
  PROVE  [Promise!Next]_(Promise!vars)
<1>1. CASE Arrive
  <2>1. /\ inbox \in Nat /\ inbox' = inbox + 1 /\ handler' = handler /\ consumed' = consumed
        /\ soughtPast' = soughtPast /\ passedBusy' = passedBusy /\ ledger' = ledger
        /\ status' = status
    BY <1>1 DEF Arrive, IInv, TypeOK, ghosts, marks, life
  <2>2. Stage' = Stage /\ Settled' = Settled
    BY <2>1 DEF Stage, Settled, Alive
  <2>3. CASE inbox + 1 \in Message
    <3>1. Sent' = Sent \cup {inbox + 1} /\ inbox + 1 \notin Sent
      BY <2>1, <2>3 DEF Sent
    <3>2. Promise!Arrive(inbox + 1)
      BY <2>1, <2>2, <2>3, <3>1 DEF Promise!Arrive, Sent, Settled
    <3> QED BY <2>3, <3>2 DEF Promise!Next
  <2>4. CASE inbox + 1 \notin Message
    <3>1. Sent' = Sent
      BY <2>1, <2>4 DEF Sent
    <3> QED BY <2>1, <2>2, <3>1, PromiseVarsAre DEF PromiseVars
  <2> QED BY <2>3, <2>4
<1>2. CASE Disconnect
  BY <1>2, SeenUnchanged, PromiseVarsAre DEF Disconnect, life, marks, ghosts, Alive
<1>3. CASE PersistLedger \/ SessionSaved
  BY <1>3, SeenUnchanged, PromiseVarsAre DEF PersistLedger, SessionSaved, server, life, marks, ghosts, Alive
<1>4. CASE UNCHANGED vars
  BY <1>4, SeenUnchanged, PromiseVarsAre DEF vars, Alive
<1> QED BY <1>1, <1>2, <1>3, <1>4

LEMMA FindPromise ==
  ASSUME IInv, IInv', Alive', Alive => ledger.acked <= ledger'.acked,
         inbox' = inbox, handler' = handler, consumed' = consumed,
         soughtPast' = soughtPast, passedBusy' = passedBusy
  PROVE  [Promise!Next]_(Promise!vars)
<1>1. Sent' = Sent /\ Stage' = Stage
  BY DEF Sent, Stage
<1>2. Settled \subseteq Settled' /\ Settled' \subseteq consumed' \cup soughtPast' \cup passedBusy'
  <2>1. CASE Alive
    BY <2>1, SettleStep
  <2>2. CASE ~Alive
    <3>1. Settled = {}
      BY <2>2 DEF Settled
    <3>2. Settled' = {s \in Message : s <= ledger'.acked}
      BY DEF Settled
    <3>3. \A s \in Message : s <= ledger'.acked => s \in Accounted'
      BY DEF IInv, MarksAreSafe, SafeLedger, SafeMark, CoveredUpTo
    <3> QED BY <3>1, <3>2, <3>3 DEF Accounted
  <2> QED BY <2>1, <2>2
<1>3. Promise!Find
  BY <1>1, <1>2 DEF Promise!Find, Promise!Settle, Sent, Settled
<1> QED BY <1>3 DEF Promise!Next

LEMMA SweepPromise ==
  ASSUME IInv, IInv', SweepStep
  PROVE  [Promise!Next]_(Promise!vars)
<1>0. /\ TypeOK /\ SweepTyped /\ inbox' = inbox /\ status' = status /\ Alive /\ Alive'
      /\ consumed' = consumed /\ soughtPast' = soughtPast
      /\ handler \in [EventSeq -> HandlerStates]
  BY DEF IInv, TypeOK, SweepStep, SweepRequest, SweepEvent, SweepPageDone, SweepFails, server, life,
         ghosts, Alive
<1>1. CASE SweepRequest
  <2> DEFINE last == Smaller(sweep.since + PageSize, inbox)
             page == [i \in 1 .. last - sweep.since |-> sweep.since + i]
             seqs == {page[i] : i \in DOMAIN page} \cap NonMessage
  <2>1. RecordSkipped(seqs) /\ handler' = handler /\ passedBusy' = passedBusy
    BY <1>1 DEF SweepRequest, ghosts
  <2>2. seqs \in SUBSET EventSeq /\ ledger \in LedgerState
    BY <1>0, ConstAssumption DEF EventSeq, TypeOK
  <2> HIDE DEF seqs
  <2>3. ledger.acked <= ledger'.acked
    <3>1. ledger.acked <= Recorded(seqs).acked /\ ledger.acked <= ledger.acked
      BY <2>2, RecordedProperties, ConstAssumption DEF LedgerState
    <3> QED BY <2>1, <3>1 DEF RecordSkipped, LedgerRecord
  <2> QED BY <1>0, <2>1, <2>3, FindPromise
<1>2. CASE SweepEvent
  <2> DEFINE h == Head(sweep.page)
  <2>1. sweep.page # <<>> /\ h \in EventSeq /\ ledger' = ledger
    BY <1>0, <1>2, HeadTailProperties DEF SweepEvent, SweepTyped, SweepState, marks
  <2>2. Sent' = Sent /\ Settled' = Settled
    BY <1>0, <2>1 DEF Sent, Settled
  <2>3. CASE h \in NonMessage
    BY <1>0, <1>2, <2>1, <2>3, SeenUnchanged, PromiseVarsAre DEF SweepEvent
  <2>4. CASE h \notin NonMessage /\ Reservable(h)
    <3>1. handler' = [handler EXCEPT ![h] = "swept"] /\ passedBusy' = passedBusy /\ handler[h] = "none"
      BY <1>2, <2>4 DEF SweepEvent, Reservable
    <3>2. h \in Message /\ h <= inbox
      <4>1. 1 \in DOMAIN sweep.page /\ h = sweep.page[1]
        BY <1>0, <2>1, EmptySeq, LenProperties DEF SweepTyped, SweepState
      <4> QED BY <2>1, <2>4, <4>1 DEF IInv, PageIsARun, Message
    <3>3. h \in Sent
      BY <1>0, <3>2, ConstAssumption DEF Sent, TypeOK, Message, EventSeq
    <3> HIDE DEF h
    <3>4. Stage' = [Stage EXCEPT ![h] = "reserved"]
      <4>1. StageOf("swept") = "reserved"
        BY DEF StageOf
      <4> QED BY <1>0, <3>1, <3>2, <4>1, StageMoves
    <3>5. Stage[h] = "free"
      BY <3>1, <3>2 DEF Stage
    <3>6. Promise!Reserve(h)
      BY <1>0, <2>2, <3>1, <3>3, <3>4, <3>5 DEF Promise!Reserve, Sent, Settled
    <3> QED BY <3>2, <3>6 DEF Promise!Next
  <2>5. CASE h \notin NonMessage /\ ~Reservable(h)
    <3>1. handler' = handler /\ passedBusy' = passedBusy \cup (IF handler[h] # "none" THEN {h} ELSE {})
      BY <1>2, <2>5 DEF SweepEvent
    <3>2. h \in Message
      BY <2>1, <2>5 DEF Message
    <3> HIDE DEF h
    <3>3. CASE handler[h] = "none"
      BY <1>0, <2>1, <3>1, <3>3, SeenUnchanged, PromiseVarsAre
    <3>4. CASE handler[h] # "none"
      <4>1. Stage[h] # "free" /\ Stage' = Stage
        BY <1>0, <2>1, <3>1, <3>2, <3>4 DEF Stage, HandlerStates
      <4>2. Promise!PassOver(h)
        BY <1>0, <2>2, <3>1, <3>4, <4>1 DEF Promise!PassOver, Sent, Settled
      <4> QED BY <3>2, <4>2 DEF Promise!Next
    <3> QED BY <3>3, <3>4
  <2> QED BY <2>3, <2>4, <2>5
<1>3. CASE SweepPageDone \/ SweepFails
  BY <1>0, <1>3, SeenUnchanged, PromiseVarsAre DEF SweepPageDone, SweepFails, marks, ghosts
<1> QED BY <1>1, <1>2, <1>3 DEF SweepStep

LEMMA SeekPromise ==
  ASSUME IInv, IInv', SeekDone
  PROVE  [Promise!Next]_(Promise!vars)
<1>0. /\ TypeOK /\ inbox' = inbox /\ status' = status /\ Alive /\ Alive' /\ handler' = handler
      /\ consumed' = consumed /\ passedBusy' = passedBusy
  BY DEF IInv, SeekDone, server, life, Alive
<1>1. PICK end \in (seek .. inbox) \cup {0} :
        IF end = 0 THEN UNCHANGED <<marks, saving, soughtPast>>
        ELSE /\ ledger' = AckedAtLeast(ledger, end)
             /\ soughtPast' = soughtPast \cup
                  {s \in Message : ledger.acked < s /\ s <= end /\ s \notin consumed}
  BY DEF SeekDone
<1>2. CASE end = 0
  BY <1>0, <1>1, <1>2, SeenUnchanged, PromiseVarsAre DEF marks
<1>3. CASE end # 0
  <2> DEFINE S == {s \in Message : ledger.acked < s /\ s <= end /\ s \notin consumed}
  <2>1. soughtPast' = soughtPast \cup S
    BY <1>1, <1>3
  <2>2. /\ end \in 0 .. MaxSeq /\ end <= inbox /\ inbox \in Int /\ ledger \in LedgerState
        /\ Message \subseteq 1 .. MaxSeq
    <3>1. seek \in 0 .. MaxSeq /\ inbox \in 0 .. MaxSeq /\ ledger \in LedgerState
      BY <1>0, CursorTyped DEF SeekDone, TypeOK
    <3> QED BY <1>1, <1>3, <3>1, ConstAssumption DEF Message, EventSeq
  <2>3. S \subseteq Sent
    <3> SUFFICES ASSUME NEW s \in S PROVE s \in 1 .. inbox
      BY DEF Sent
    <3>1. s \in 1 .. MaxSeq /\ s <= end
      BY <2>2
    <3> QED BY <2>2, <3>1, ConstAssumption
  <2>4. ledger.acked <= ledger'.acked
    BY <1>1, <1>3, <2>2, ConstAssumption DEF AckedAtLeast, LedgerState
  <2>5. Settled \subseteq Settled' /\ Settled' \subseteq consumed' \cup soughtPast' \cup passedBusy'
    BY <1>0, <2>4, SettleStep
  <2>6. Sent' = Sent /\ Stage' = Stage
    BY <1>0 DEF Sent, Stage
  <2>7. S \in SUBSET Message
    OBVIOUS
  <2> HIDE DEF S
  <2>8. Promise!Seek(S)
    BY <1>0, <2>1, <2>3, <2>5, <2>6 DEF Promise!Seek, Promise!Settle, Sent, Settled
  <2> QED BY <2>7, <2>8 DEF Promise!Next
<1> QED BY <1>2, <1>3

LEMMA HandlerPromise ==
  ASSUME IInv, IInv', NEW s \in Message, HandlerStep(s)
  PROVE  [Promise!Next]_(Promise!vars)
<1>0. /\ TypeOK /\ inbox' = inbox /\ status' = status /\ Alive /\ Alive'
      /\ soughtPast' = soughtPast /\ passedBusy' = passedBusy /\ ledger \in LedgerState
      /\ handler \in [EventSeq -> HandlerStates] /\ s \in EventSeq
  BY DEF IInv, TypeOK, HandlerStep, ReceiveFrame, Detail, Consume, DeliveryFails, server, life,
         ghosts, Alive, Up, Message
<1>s. Sent' = Sent
  BY <1>0 DEF Sent
<1>k. ledger' = ledger => Settled' = Settled
  BY <1>0 DEF Settled
<1>1. CASE ReceiveFrame(s)
  <2>1. ledger' = ledger /\ consumed' = consumed /\ s \in frames
    BY <1>1 DEF ReceiveFrame, marks, ghosts
  <2>2. CASE handler' = handler
    BY <1>0, <2>1, <2>2, SeenUnchanged, PromiseVarsAre
  <2>3. CASE Reservable(s) /\ handler' = [handler EXCEPT ![s] = "live"]
    <3>1. s \in Sent /\ Stage[s] = "free"
      BY <2>1, <2>3 DEF IInv, HandlersAndDeduper, Sent, Stage, Reservable
    <3>2. Stage' = [Stage EXCEPT ![s] = "reserved"]
      <4>1. StageOf("live") = "reserved"
        BY DEF StageOf
      <4> QED BY <1>0, <2>3, <4>1, StageMoves
    <3>3. Promise!Reserve(s)
      BY <1>0, <1>s, <1>k, <2>1, <3>1, <3>2 DEF Promise!Reserve, Sent, Settled
    <3> QED BY <3>3 DEF Promise!Next
  <2> QED BY <1>1, <2>2, <2>3 DEF ReceiveFrame
<1>2. CASE Detail(s)
  <2>1. ledger' = ledger /\ consumed' = consumed /\ Stage[s] = "reserved"
    BY <1>2 DEF Detail, marks, ghosts, Stage
  <2>2. CASE handler' = [handler EXCEPT ![s] = "deliverBlind"]
    <3>1. Stage' = [Stage EXCEPT ![s] = "blind"]
      <4>1. StageOf("deliverBlind") = "blind"
        BY DEF StageOf
      <4> QED BY <1>0, <2>2, <4>1, StageMoves
    <3>2. Promise!Deliver(s)
      BY <1>0, <1>s, <1>k, <2>1, <3>1 DEF Promise!Deliver, Sent, Settled
    <3> QED BY <3>2 DEF Promise!Next
  <2>3. CASE ~LedgerHas(s) /\ handler' = [handler EXCEPT ![s] = "deliver"]
    <3>1. Stage' = [Stage EXCEPT ![s] = "delivering"]
      <4>1. StageOf("deliver") = "delivering"
        BY DEF StageOf
      <4> QED BY <1>0, <2>3, <4>1, StageMoves
    <3>2. s \notin Settled
      BY <2>3 DEF Settled, LedgerHas
    <3>3. Promise!Deliver(s)
      BY <1>0, <1>s, <1>k, <2>1, <3>1, <3>2 DEF Promise!Deliver, Sent, Settled
    <3> QED BY <3>3 DEF Promise!Next
  <2>4. CASE handler' = [handler EXCEPT ![s] = "none"]
    <3>1. Stage' = [Stage EXCEPT ![s] = "free"]
      <4>1. StageOf("none") = "free"
        BY DEF StageOf
      <4> QED BY <1>0, <2>4, <4>1, StageMoves
    <3>2. Promise!Release(s)
      BY <1>0, <1>s, <1>k, <2>1, <3>1 DEF Promise!Release, Sent, Settled
    <3> QED BY <3>2 DEF Promise!Next
  <2> QED BY <1>2, <2>2, <2>3, <2>4 DEF Detail
<1>3. CASE Consume(s) \/ DeliveryFails(s)
  <2>1. Stage[s] \in {"delivering", "blind"} /\ handler' = [handler EXCEPT ![s] = "none"]
    BY <1>3 DEF Consume, DeliveryFails, Stage
  <2>2. Stage' = [Stage EXCEPT ![s] = "free"]
    <3>1. StageOf("none") = "free"
      BY DEF StageOf
    <3> QED BY <1>0, <2>1, <3>1, StageMoves
  <2>3. CASE Consume(s)
    <3>1. consumed' = consumed \cup {s}
      BY <2>3 DEF Consume
    <3>2. ledger.acked <= ledger'.acked
      <4>1. {s} \in SUBSET EventSeq
        BY <1>0
      <4>2. ledger.acked <= Recorded({s}).acked /\ ledger.acked <= ledger.acked
        BY <1>0, <4>1, RecordedProperties, ConstAssumption DEF LedgerState
      <4> QED BY <2>3, <4>2 DEF Consume, LedgerRecord
    <3>3. Settled \subseteq Settled' /\ Settled' \subseteq consumed' \cup soughtPast' \cup passedBusy'
      BY <1>0, <3>2, SettleStep
    <3>4. Promise!Succeed(s)
      BY <1>0, <1>s, <2>1, <2>2, <3>1, <3>3 DEF Promise!Succeed, Promise!Settle, Sent, Settled
    <3> QED BY <3>4 DEF Promise!Next
  <2>4. CASE DeliveryFails(s)
    <3>1. ledger' = ledger /\ consumed' = consumed
      BY <2>4 DEF DeliveryFails, marks, ghosts
    <3>2. Promise!Release(s)
      BY <1>0, <1>s, <1>k, <2>1, <2>2, <3>1 DEF Promise!Release, Sent, Settled
    <3> QED BY <3>2 DEF Promise!Next
  <2> QED BY <1>3, <2>3, <2>4
<1> QED BY <1>1, <1>2, <1>3 DEF HandlerStep

LEMMA LifePromise ==
  ASSUME IInv, IInv', Tick \/ Open \/ Stop \/ Start \/ Exit
  PROVE  [Promise!Next]_(Promise!vars)
<1>1. CASE Tick
  <2>1. ledger'.acked = ledger.acked
    BY <1>1 DEF Tick, IInv, TypeOK, LedgerState
  <2> QED BY <1>1, <2>1, SeenUnchanged, PromiseVarsAre DEF Tick, server, life, ghosts, Alive
<1>2. CASE Open \/ Stop
  BY <1>2, SeenUnchanged, PromiseVarsAre DEF Open, Stop, Up, Alive, life, marks, ghosts
<1>3. CASE Start
  BY <1>3, FindPromise DEF Start, Alive, server, ghosts
<1>4. CASE Exit
  <2>1. /\ Stage' = [s \in Message |-> "free"] /\ Settled' = {} /\ Sent' = Sent
        /\ consumed' = consumed /\ soughtPast' = soughtPast /\ passedBusy' = passedBusy
    BY <1>4 DEF Exit, Stage, Settled, Sent, Alive, Message
  <2>2. Promise!Exit
    BY <2>1 DEF Promise!Exit, Sent, Settled
  <2> QED BY <2>2 DEF Promise!Next
<1> QED BY <1>1, <1>2, <1>3, <1>4

LEMMA StepPromise == IInv /\ IInv' /\ [Next]_vars => [Promise!Next]_(Promise!vars)
BY ServerPromise, SweepPromise, SeekPromise, HandlerPromise, LifePromise DEF Next

\* The inbox, with its pages, files, caches, crashes and reordered writes, implements
\* the promise of AtLeastOnce: every step is one of its steps or leaves what it sees
\* alone.
THEOREM InboxKeepsPromise == Spec => KeepsPromise
<1>1. Spec => Promise!Spec
  BY InitPromise, StepPromise, SpecIInv, PTL DEF Spec, Promise!Spec
<1> QED BY <1>1 DEF KeepsPromise
====
