-------------------------- MODULE PolicySyncProofs --------------------------
(***************************************************************************)
(* Proofs about PolicySync: its types, with a free stamp always at hand,   *)
(* and that an edit of the settings page is erased unread only if it was   *)
(* made while a pass was between its reads.                                *)
(***************************************************************************)
EXTENDS PolicySync, FiniteSetTheorems, TLAPS

PassRec == [pc : {"idle", "fetch", "decide", "report", "retry", "confirm", "mark"},
            local : Policy, snapshot : Copy, mark : Marker, drop : SUBSET Group]

\* A pass that will write a marker has captured a policy for it.
HasPolicy(r) == pass[r].pc \in {"report", "retry", "confirm", "mark"} => pass[r].mark.fp \in Policy

Typed == TypeOK /\ \A r \in Pass : HasPolicy(r)

\* Nobody who could write over an edit has not seen it: a pass that has read the
\* server has read the edit, and no marker, written or about to be, has its time.
Unseen ==
  copy = "fresh" =>
    /\ late = NoPolicy /\ server.at # 0 /\ marker.at # server.at
    /\ \A r \in Pass :
         /\ pass[r].pc \notin {"report", "retry", "confirm"}
         /\ pass[r].pc = "decide" => pass[r].snapshot = server
         /\ pass[r].pc = "mark" => pass[r].mark.at # server.at

IInv == Typed /\ Unseen

---------------------------------------------------------------------------
(* Stamps.                                                                 *)

\* A function of the passes has no more values than there are passes.
LEMMA FewValues ==
  ASSUME NEW f, f = [r \in Pass |-> f[r]]
  PROVE  LET V == {f[r] : r \in Pass}
         IN  IsFiniteSet(V) /\ Cardinality(V) \in Nat /\ Cardinality(V) <= Cardinality(Pass)
<1> DEFINE V == {f[r] : r \in Pass}
<1>1. f \in [Pass -> V]
  OBVIOUS
<1>2. f \in Surjection(Pass, V)
  BY <1>1 DEF Surjection
<1> QED BY <1>2, ConstAssumption, FS_Surjection, FS_CardinalityType

LEMMA StampFacts ==
  /\ Cardinality(Pass) \in Nat
  /\ Stamp \in SUBSET Nat /\ 0 \in Stamp /\ 1 \in Stamp
  /\ IsFiniteSet(Stamp \ {0}) /\ Cardinality(Stamp \ {0}) = 2 * Cardinality(Pass) + 3
<1>1. Cardinality(Pass) \in Nat
  BY ConstAssumption, FS_CardinalityType
<1> DEFINE n == 2 * Cardinality(Pass) + 3
<1>2. n \in Nat /\ n >= 3
  BY <1>1
<1> HIDE DEF n
<1>3. Stamp = 0 .. n
  BY DEF Stamp, n
<1>4. Stamp \ {0} = 1 .. n
  BY <1>2, <1>3
<1>5. IsFiniteSet(1 .. n) /\ Cardinality(1 .. n) = n
  BY <1>2, FS_Interval
<1>6. Stamp \in SUBSET Nat /\ 0 \in Stamp /\ 1 \in Stamp
  BY <1>2, <1>3
<1>7. IsFiniteSet(Stamp \ {0}) /\ Cardinality(Stamp \ {0}) = n
  BY <1>4, <1>5
<1> QED BY <1>1, <1>6, <1>7 DEF n

LEMMA UnionSize ==
  ASSUME NEW A, NEW B, IsFiniteSet(A), IsFiniteSet(B)
  PROVE  /\ IsFiniteSet(A \cup B) /\ Cardinality(A \cup B) \in Nat
         /\ Cardinality(A \cup B) <= Cardinality(A) + Cardinality(B)
<1>1. Cardinality(A) \in Nat /\ Cardinality(B) \in Nat
  BY FS_CardinalityType
<1>2. IsFiniteSet(A \cap B)
  BY FS_Subset
<1>3. Cardinality(A \cap B) \in Nat
  BY <1>2, FS_CardinalityType
<1>4. /\ IsFiniteSet(A \cup B)
      /\ Cardinality(A \cup B) = Cardinality(A) + Cardinality(B) - Cardinality(A \cap B)
  BY FS_Union
<1>5. Cardinality(A \cup B) \in Nat
  BY <1>4, FS_CardinalityType
<1> QED BY <1>1, <1>3, <1>4, <1>5

LEMMA ConstantsTyped ==
  /\ Default \in Policy /\ NoPolicy \notin Policy /\ NoMarker \in Marker
  /\ [at |-> 0, pol |-> Default] \in Copy /\ Idle \in PassRec
<1>1. Default \in Policy
  BY DEF Default, Policy
<1>2. NoPolicy \notin Policy
  BY ConstAssumption DEF NoPolicy, Policy
<1>3. NoMarker \in Marker /\ [at |-> 0, pol |-> Default] \in Copy
  BY <1>1, StampFacts DEF NoMarker, Marker, Copy
<1> QED BY <1>1, <1>2, <1>3 DEF Idle, PassRec

LEMMA PassFacts ==
  ASSUME TypeOK, NEW r \in Pass
  PROVE  /\ pass \in [Pass -> PassRec] /\ pass[r] \in PassRec
         /\ pass[r].local \in Policy /\ pass[r].mark \in Marker /\ pass[r].mark.at \in Stamp
         /\ pass[r].drop \in SUBSET Group
         /\ pass[r].snapshot \in Copy /\ pass[r].snapshot.at \in Stamp
         /\ pass[r].snapshot.pol \in Policy
BY DEF TypeOK, PassRec, Marker, Copy

\* The server's clock: a stamp that neither the server, the marker nor a pass knows.
LEMMA NewStampIsNew ==
  ASSUME TypeOK
  PROVE  /\ NewStamp \in Stamp /\ NewStamp # 0
         /\ NewStamp # server.at /\ NewStamp # marker.at
         /\ \A r \in Pass : NewStamp # pass[r].snapshot.at /\ NewStamp # pass[r].mark.at
<1> DEFINE A == {server.at, marker.at}
           B == {pass[r].snapshot.at : r \in Pass}
           C == {pass[r].mark.at : r \in Pass}
           N == Cardinality(Pass)
<1>1. IsFiniteSet(A) /\ Cardinality(A) \in Nat /\ Cardinality(A) <= 2
  <2>1. IsFiniteSet({server.at}) /\ Cardinality({server.at}) = 1
    BY FS_Singleton
  <2>2. A = {server.at} \cup {marker.at}
    OBVIOUS
  <2>3. IsFiniteSet(A) /\ (Cardinality(A) = 1 \/ Cardinality(A) = 2)
    BY <2>1, <2>2, FS_AddElement
  <2> QED BY <2>3
<1>2. IsFiniteSet(B) /\ Cardinality(B) \in Nat /\ Cardinality(B) <= N
  <2> DEFINE f == [r \in Pass |-> pass[r].snapshot.at]
  <2>1. B = {f[r] : r \in Pass} /\ f = [r \in Pass |-> f[r]]
    OBVIOUS
  <2> HIDE DEF f, B
  <2> QED BY <2>1, FewValues
<1>3. IsFiniteSet(C) /\ Cardinality(C) \in Nat /\ Cardinality(C) <= N
  <2> DEFINE f == [r \in Pass |-> pass[r].mark.at]
  <2>1. C = {f[r] : r \in Pass} /\ f = [r \in Pass |-> f[r]]
    OBVIOUS
  <2> HIDE DEF f, C
  <2> QED BY <2>1, FewValues
<1> HIDE DEF A, B, C
<1>4. /\ IsFiniteSet(A \cup B) /\ Cardinality(A \cup B) \in Nat
      /\ Cardinality(A \cup B) <= Cardinality(A) + Cardinality(B)
  BY <1>1, <1>2, UnionSize
<1>5. /\ IsFiniteSet(A \cup B \cup C) /\ Cardinality(A \cup B \cup C) \in Nat
      /\ Cardinality(A \cup B \cup C) <= Cardinality(A \cup B) + Cardinality(C)
  BY <1>3, <1>4, UnionSize
<1>6. N \in Nat /\ Cardinality(A \cup B \cup C) <= 2 * N + 2
  BY <1>1, <1>2, <1>3, <1>4, <1>5, StampFacts
<1>7. ~(Stamp \ {0} \subseteq A \cup B \cup C)
  <2>1. ASSUME Stamp \ {0} \subseteq A \cup B \cup C
        PROVE  Cardinality(Stamp \ {0}) <= Cardinality(A \cup B \cup C)
    BY <1>5, <2>1, FS_Subset
  <2> QED BY <1>5, <1>6, <2>1, StampFacts
<1>8. \E t \in Stamp \ {0} : t \notin A \cup B \cup C
  BY <1>7
<1>9. NewStamp = CHOOSE t \in Stamp \ {0} : t \notin A \cup B \cup C
  BY DEF NewStamp, A, B, C
<1>10. NewStamp \in Stamp \ {0} /\ NewStamp \notin A \cup B \cup C
  BY <1>8, <1>9
<1> QED BY <1>10 DEF A, B, C

---------------------------------------------------------------------------
(* Steps of a pass.                                                        *)

LEMMA GotoPass ==
  ASSUME TypeOK, NEW r \in Pass,
         NEW pc \in {"idle", "fetch", "decide", "report", "retry", "confirm", "mark"},
         NEW m \in Marker, Goto(r, pc, m)
  PROVE  /\ pass' \in [Pass -> PassRec]
         /\ pass'[r].pc = pc /\ pass'[r].mark = m
         /\ \A q \in Pass \ {r} : pass'[q] = pass[q]
<1> DEFINE x == [Idle EXCEPT !.pc = pc, !.mark = m]
<1>1. x \in PassRec /\ x.pc = pc /\ x.mark = m
  BY ConstantsTyped DEF PassRec
<1>2. pass \in [Pass -> PassRec] /\ pass' = [pass EXCEPT ![r] = x]
  BY PassFacts DEF Goto
<1> HIDE DEF x
<1> QED BY <1>1, <1>2

LEMMA FinishPass ==
  ASSUME TypeOK, NEW r \in Pass, Finish(r)
  PROVE  /\ pass' \in [Pass -> PassRec]
         /\ pass'[r].pc = "idle"
         /\ \A q \in Pass \ {r} : pass'[q] = pass[q]
<1>1. Idle \in PassRec /\ Idle.pc = "idle"
  BY ConstantsTyped DEF Idle
<1>2. pass \in [Pass -> PassRec] /\ pass' = [pass EXCEPT ![r] = Idle]
  BY PassFacts DEF Finish
<1> QED BY <1>1, <1>2

LEMMA BeginPass ==
  ASSUME TypeOK, NEW r \in Pass, Begin(r)
  PROVE  /\ pass' \in [Pass -> PassRec]
         /\ pass'[r].pc = "fetch"
         /\ \A q \in Pass \ {r} : pass'[q] = pass[q]
BY PassFacts DEF Begin, TypeOK, PassRec

LEMMA FetchPass ==
  ASSUME TypeOK, NEW r \in Pass, Fetch(r)
  PROVE  /\ pass' \in [Pass -> PassRec]
         /\ pass'[r].pc = "decide" /\ pass'[r].snapshot = server
         /\ \A q \in Pass \ {r} : pass'[q] = pass[q]
BY PassFacts DEF Fetch, TypeOK, PassRec

LEMMA WriteServer ==
  ASSUME TypeOK, NEW pol \in Policy, Write(pol)
  PROVE  server' \in Copy /\ copy' = "ours"
BY NewStampIsNew DEF Write, Copy

LEMMA WithoutGroupsTyped ==
  ASSUME NEW pol \in Policy, NEW groups PROVE WithoutGroups(pol, groups) \in Policy
BY DEF WithoutGroups, Policy

LEMMA RefusedPass ==
  ASSUME TypeOK, NEW r \in Pass, ReportRefused(r)
  PROVE  /\ pass' \in [Pass -> PassRec]
         /\ pass'[r].pc = "retry" /\ pass'[r].mark = pass[r].mark
         /\ \A q \in Pass \ {r} : pass'[q] = pass[q]
<1>1. PICK named \in SUBSET RefusedGroups(Payload(r)) \ {{}} :
        pass' = [pass EXCEPT ![r].pc = "retry", ![r].drop = named]
  BY DEF ReportRefused
<1>2. named \in SUBSET Group
  BY DEF RefusedGroups
<1> QED BY <1>1, <1>2, PassFacts DEF PassRec

---------------------------------------------------------------------------
(* Types.                                                                  *)

\* Only the pass of this step has moved.
OnePassMoved(r) ==
  /\ pass' \in [Pass -> PassRec]
  /\ \A q \in Pass \ {r} : pass'[q] = pass[q]

LEMMA HasPolicyKept ==
  ASSUME Typed, NEW r \in Pass, OnePassMoved(r), HasPolicy(r)'
  PROVE  \A q \in Pass : HasPolicy(q)'
BY DEF Typed, OnePassMoved, HasPolicy

LEMMA InitTyped == Init => Typed
<1> SUFFICES ASSUME Init PROVE Typed
  OBVIOUS
<1> PICK pol \in Policy, at \in {0, 1} : server = [at |-> at, pol |-> pol]
  BY DEF Init
<1>1. server \in Copy
  BY StampFacts DEF Copy
<1>2. pass \in [Pass -> PassRec] /\ \A r \in Pass : pass[r].pc = "idle"
  BY ConstantsTyped DEF Init, Idle
<1>3. /\ up \in BOOLEAN /\ copy \in {"ours", "fresh", "raced"} /\ member \subseteq Group
      /\ access \in Policy /\ marker \in Marker /\ timer \in BOOLEAN
      /\ late \in Policy \cup {NoPolicy}
  BY ConstantsTyped DEF Init
<1>4. events \in Seq(Field \X {0, 1})
  BY DEF Init
<1>5. uiEdits \in 0 .. MaxUI /\ localEdits \in 0 .. MaxLocal
  BY ConstAssumption DEF Init
<1> QED BY <1>1, <1>2, <1>3, <1>4, <1>5 DEF Typed, TypeOK, HasPolicy, PassRec

LEMMA UIEditTyped ==
  ASSUME Typed, NEW f \in Field, UIEdit(f)
  PROVE  Typed'
<1> DEFINE v == 1 - server.pol[f]
           pol == [server.pol EXCEPT ![f] = v]
<1>0. TypeOK /\ server.pol \in Policy
  BY DEF Typed, TypeOK, Copy
<1>1. v \in {0, 1} /\ pol \in Policy
  BY <1>0 DEF Policy
<1>2. /\ server' = [at |-> NewStamp, pol |-> pol]
      /\ events' = IF up THEN Append(events, <<f, v>>) ELSE events
  BY DEF UIEdit
<1> HIDE DEF v, pol
<1>3. server' \in Copy
  BY <1>0, <1>1, <1>2, NewStampIsNew DEF Copy
<1>4. events' \in Seq(Field \X {0, 1})
  BY <1>0, <1>1, <1>2 DEF TypeOK
<1>5. uiEdits' \in 0 .. MaxUI /\ copy' \in {"ours", "fresh", "raced"}
  BY <1>0, ConstAssumption DEF UIEdit, TypeOK
<1> QED BY <1>0, <1>3, <1>4, <1>5 DEF UIEdit, Typed, TypeOK, HasPolicy

LEMMA ConfigEventTyped ==
  ASSUME Typed, ConfigEvent
  PROVE  Typed'
<1>1. events \in Seq(Field \X {0, 1}) /\ events # <<>>
  BY DEF Typed, TypeOK, ConfigEvent
<1>2. Head(events) \in Field \X {0, 1} /\ Tail(events) \in Seq(Field \X {0, 1})
  BY <1>1
<1>3. Head(events)[1] \in Field /\ Head(events)[2] \in {0, 1}
  BY <1>2
<1>4. access' \in Policy
  BY <1>3 DEF ConfigEvent, Typed, TypeOK, Policy
<1> QED BY <1>2, <1>4 DEF ConfigEvent, Typed, TypeOK, HasPolicy

\* Steps that leave the passes alone.
LEMMA OtherTyped ==
  ASSUME Typed,
         \/ \E f \in Field : LocalEdit(f)
         \/ \E g \in Group : LeaveGroup(g) \/ JoinGroup(g)
         \/ LateReport \/ Disconnect \/ Crash \/ Restart \/ UNCHANGED vars
  PROVE  Typed'
<1>1. ASSUME NEW f \in Field, LocalEdit(f) PROVE Typed'
  <2>1. access' \in Policy
    BY <1>1 DEF LocalEdit, Typed, TypeOK, Policy
  <2>2. localEdits' \in 0 .. MaxLocal
    BY <1>1, ConstAssumption DEF LocalEdit, Typed, TypeOK
  <2> QED BY <1>1, <2>1, <2>2 DEF LocalEdit, Typed, TypeOK, HasPolicy
<1>2. CASE LateReport
  <2>1. late \in Policy
    BY <1>2 DEF LateReport, Typed, TypeOK
  <2>2. server' \in Copy /\ copy' \in {"ours", "fresh", "raced"}
    BY <1>2, <2>1, WriteServer DEF LateReport, Typed, TypeOK
  <2> QED BY <1>2, <2>2 DEF LateReport, Typed, TypeOK, HasPolicy
<1>3. CASE Crash
  <2>1. pass' \in [Pass -> PassRec] /\ \A r \in Pass : pass'[r].pc = "idle"
    BY <1>3, ConstantsTyped DEF Crash, Idle
  <2>2. events' \in Seq(Field \X {0, 1})
    BY <1>3 DEF Crash
  <2> QED BY <1>3, <2>1, <2>2 DEF Crash, Typed, TypeOK, HasPolicy, PassRec
<1>4. CASE Disconnect
  <2>1. events' \in Seq(Field \X {0, 1})
    BY <1>4 DEF Disconnect
  <2> QED BY <1>4, <2>1 DEF Disconnect, Typed, TypeOK, HasPolicy
<1>5. ASSUME NEW g \in Group, LeaveGroup(g) \/ JoinGroup(g) PROVE Typed'
  <2>1. member' \subseteq Group
    BY <1>5 DEF LeaveGroup, JoinGroup, Typed, TypeOK
  <2> QED BY <1>5, <2>1 DEF LeaveGroup, JoinGroup, Typed, TypeOK, HasPolicy
<1>6. CASE Restart
  BY <1>6 DEF Restart, Typed, TypeOK, HasPolicy
<1>7. CASE UNCHANGED vars
  BY <1>7 DEF vars, Typed, TypeOK, HasPolicy
<1> QED BY <1>1, <1>2, <1>3, <1>4, <1>5, <1>6, <1>7

\* What remains to be shown of a step of a pass.
LEMMA PassStepTyped ==
  ASSUME Typed, NEW r \in Pass, OnePassMoved(r), HasPolicy(r)',
         server' \in Copy, copy' \in {"ours", "fresh", "raced"}, access' \in Policy,
         marker' \in Marker, timer' \in BOOLEAN, late' \in Policy \cup {NoPolicy},
         UNCHANGED <<up, member, events, uiEdits, localEdits>>
  PROVE  Typed'
<1>1. \A q \in Pass : HasPolicy(q)'
  BY HasPolicyKept
<1> QED BY <1>1 DEF Typed, TypeOK, OnePassMoved, PassRec

LEMMA DecideMoves ==
  ASSUME TypeOK, NEW r \in Pass, Decide(r)
  PROVE  /\ OnePassMoved(r) /\ access' \in Policy /\ copy' \in {copy, "ours"}
         /\ HasPolicy(r)'
         /\ pass'[r].pc \in {"report", "idle", "mark"}
         /\ \/ pass[r].snapshot.at = 0
            \/ pass[r].snapshot.at = marker.at
            \/ copy' = "ours"
            \/ pass[r].snapshot.at # server.at /\ copy' = copy
<1>0. /\ pass[r].local \in Policy /\ pass[r].snapshot \in Copy
      /\ pass[r].snapshot.at \in Stamp /\ pass[r].snapshot.pol \in Policy
  BY PassFacts
<1> DEFINE s == pass[r].snapshot
<1>r. ASSUME GoReport(r, s)
      PROVE  OnePassMoved(r) /\ HasPolicy(r)' /\ pass'[r].pc = "report"
  <2> DEFINE m == [fp |-> pass[r].local, at |-> s.at]
  <2>1. m \in Marker /\ m.fp \in Policy /\ Goto(r, "report", m)
    BY <1>0, <1>r DEF Marker, GoReport
  <2> HIDE DEF m
  <2>2. /\ pass' \in [Pass -> PassRec] /\ pass'[r].pc = "report" /\ pass'[r].mark = m
        /\ \A q \in Pass \ {r} : pass'[q] = pass[q]
    BY <2>1, GotoPass
  <2> QED BY <2>1, <2>2 DEF OnePassMoved, HasPolicy
<1>f. ASSUME Finish(r)
      PROVE  OnePassMoved(r) /\ HasPolicy(r)' /\ pass'[r].pc = "idle"
  BY <1>f, FinishPass DEF OnePassMoved, HasPolicy
<1>1. CASE DecideSeed(r, s)
  <2>1. s.at = 0 /\ UNCHANGED <<access, copy>> /\ (GoReport(r, s) \/ Finish(r))
    BY <1>1 DEF DecideSeed
  <2> QED BY <1>r, <1>f, <2>1 DEF TypeOK
<1>2. CASE DecideAdopt(r, s)
  <2> DEFINE m == [fp |-> s.pol, at |-> s.at]
  <2>1. m \in Marker /\ m.fp \in Policy /\ Goto(r, "mark", m)
    BY <1>0, <1>2 DEF Marker, DecideAdopt
  <2> HIDE DEF m
  <2>2. /\ pass' \in [Pass -> PassRec] /\ pass'[r].pc = "mark" /\ pass'[r].mark = m
        /\ \A q \in Pass \ {r} : pass'[q] = pass[q]
    BY <2>1, GotoPass
  <2>3. OnePassMoved(r) /\ HasPolicy(r)'
    BY <2>1, <2>2 DEF OnePassMoved, HasPolicy
  <2>4. access' \in Policy /\ copy' = IF s.at = server.at THEN "ours" ELSE copy
    BY <1>0, <1>2 DEF DecideAdopt, TypeOK
  <2> QED BY <2>2, <2>3, <2>4
<1>3. CASE DecideReport(r, s)
  <2>1. s.at = marker.at /\ UNCHANGED <<access, copy>> /\ (GoReport(r, s) \/ Finish(r))
    BY <1>3 DEF DecideReport
  <2> QED BY <1>r, <1>f, <2>1 DEF TypeOK
<1> QED BY <1>1, <1>2, <1>3 DEF Decide

LEMMA PassTyped ==
  ASSUME Typed, NEW r \in Pass, PassStep(r)
  PROVE  Typed' /\ OnePassMoved(r)
<1>0. TypeOK /\ HasPolicy(r) /\ pass[r].mark \in Marker
  BY PassFacts DEF Typed
<1>t. /\ server \in Copy /\ copy \in {"ours", "fresh", "raced"} /\ access \in Policy
      /\ marker \in Marker /\ timer \in BOOLEAN /\ late \in Policy \cup {NoPolicy}
  BY <1>0 DEF TypeOK
<1>1. CASE PeriodicPass(r)
  <2>1. OnePassMoved(r) /\ HasPolicy(r)'
    BY <1>0, <1>1, BeginPass DEF PeriodicPass, OnePassMoved, HasPolicy
  <2> QED BY <1>1, <1>t, <2>1, PassStepTyped DEF PeriodicPass
<1>2. CASE DebouncedPass(r)
  <2>1. OnePassMoved(r) /\ HasPolicy(r)'
    BY <1>0, <1>2, BeginPass DEF DebouncedPass, OnePassMoved, HasPolicy
  <2> QED BY <1>2, <1>t, <2>1, PassStepTyped DEF DebouncedPass
<1>3. CASE Fetch(r)
  <2>1. OnePassMoved(r) /\ HasPolicy(r)'
    BY <1>0, <1>3, FetchPass DEF OnePassMoved, HasPolicy
  <2> QED BY <1>3, <1>t, <2>1, PassStepTyped DEF Fetch
<1>f. ASSUME Finish(r) PROVE OnePassMoved(r) /\ HasPolicy(r)'
  BY <1>0, <1>f, FinishPass DEF OnePassMoved, HasPolicy
<1>4. CASE FetchFails(r)
  BY <1>4, <1>f, <1>t, PassStepTyped DEF FetchFails
<1>5. CASE Decide(r)
  <2>1. /\ OnePassMoved(r) /\ HasPolicy(r)' /\ access' \in Policy
        /\ copy' \in {"ours", "fresh", "raced"}
    BY <1>0, <1>5, <1>t, DecideMoves
  <2>2. UNCHANGED <<up, server, member, marker, timer, late, events, uiEdits, localEdits>>
    BY <1>5 DEF Decide
  <2> QED BY <1>t, <2>1, <2>2, PassStepTyped
<1>p. ASSUME pass[r].pc \in {"report", "retry"}
      PROVE  Payload(r) \in Policy /\ pass[r].mark.fp \in Policy
  BY <1>0, <1>p, WithoutGroupsTyped DEF HasPolicy, Payload
<1>6. CASE Report(r)
  <2>1. server' \in Copy /\ copy' = "ours"
    BY <1>0, <1>6, <1>p, WriteServer DEF Report
  <2>2. OnePassMoved(r) /\ HasPolicy(r)'
    <3>1. Goto(r, "confirm", pass[r].mark) /\ pass[r].mark.fp \in Policy
      BY <1>6, <1>p DEF Report
    <3> QED BY <1>0, <3>1, GotoPass DEF OnePassMoved, HasPolicy
  <2> QED BY <1>6, <1>t, <2>1, <2>2, PassStepTyped DEF Report
<1>7. CASE ReportRefused(r)
  <2>1. pass[r].mark.fp \in Policy
    BY <1>7, <1>p DEF ReportRefused
  <2>2. OnePassMoved(r) /\ HasPolicy(r)'
    BY <1>0, <1>7, <2>1, RefusedPass DEF OnePassMoved, HasPolicy
  <2> QED BY <1>7, <1>t, <2>2, PassStepTyped DEF ReportRefused
<1>8. CASE ReportFails(r)
  <2>1. OnePassMoved(r) /\ HasPolicy(r)'
    BY <1>8, <1>f DEF ReportFails
  <2>2. /\ server' \in Copy /\ copy' \in {"ours", "fresh", "raced"}
        /\ late' \in Policy \cup {NoPolicy}
    BY <1>0, <1>8, <1>p, <1>t, WriteServer DEF ReportFails
  <2> QED BY <1>8, <1>t, <2>1, <2>2, PassStepTyped DEF ReportFails
<1>9. CASE Confirm(r)
  <2>1. OnePassMoved(r) /\ HasPolicy(r)'
    <3> PICK at \in {server.at, pass[r].mark.at} :
          Goto(r, "mark", [pass[r].mark EXCEPT !.at = at])
      BY <1>9 DEF Confirm
    <3> DEFINE m == [pass[r].mark EXCEPT !.at = at]
    <3>1. at \in Stamp /\ pass[r].mark.fp \in Policy
      BY <1>0, <1>9, <1>t, PassFacts DEF Confirm, Copy, HasPolicy
    <3>2. m \in Marker /\ m.fp \in Policy /\ Goto(r, "mark", m)
      BY <1>0, <3>1 DEF Marker
    <3> HIDE DEF m
    <3> QED BY <1>0, <3>2, GotoPass DEF OnePassMoved, HasPolicy
  <2> QED BY <1>9, <1>t, <2>1, PassStepTyped DEF Confirm
<1>10. CASE MarkerWritten(r)
  BY <1>0, <1>10, <1>f, <1>t, PassStepTyped DEF MarkerWritten
<1>11. CASE MarkerFails(r)
  BY <1>11, <1>f, <1>t, PassStepTyped DEF MarkerFails
<1>12. CASE RetryRefused(r)
  BY <1>12, <1>f, <1>t, PassStepTyped DEF RetryRefused
<1> QED BY <1>1, <1>2, <1>3, <1>4, <1>5, <1>6, <1>7, <1>8, <1>9, <1>10, <1>11, <1>12
        DEF PassStep

LEMMA NextTyped == Typed /\ [Next]_vars => Typed'
BY PassTyped, UIEditTyped, ConfigEventTyped, OtherTyped DEF Next

\* Whatever edits, crashes, lost events and reports, and overlapping passes come
\* together, both copies of the policy, the marker and the captured ones stay policies,
\* and a pass never uploads the absence of one.
THEOREM PolicySyncTypeCorrect == Spec => []TypeOK
<1>1. Typed => TypeOK
  BY DEF Typed
<1> QED BY <1>1, InitTyped, NextTyped, PTL DEF Spec

---------------------------------------------------------------------------
(* Edits are seen before they are overwritten.                             *)

LEMMA InitUnseen == Init => Unseen
<1> SUFFICES ASSUME Init, copy = "fresh"
             PROVE  /\ late = NoPolicy /\ server.at # 0 /\ marker.at # server.at
                    /\ \A r \in Pass : pass[r].pc = "idle"
  BY DEF Unseen
<1>1. server.at # 0
  BY DEF Init
<1>2. marker.at = 0 /\ late = NoPolicy /\ \A r \in Pass : pass[r].pc = "idle"
  BY DEF Init, NoMarker, Idle
<1> QED BY <1>1, <1>2

\* An edit that no pass can miss has a time that nobody remembers.
LEMMA UIEditUnseen ==
  ASSUME Typed, NEW f \in Field, UIEdit(f)
  PROVE  Unseen'
<1> SUFFICES ASSUME copy' = "fresh"
             PROVE  /\ late' = NoPolicy /\ server'.at # 0 /\ marker'.at # server'.at
                    /\ \A r \in Pass :
                         /\ pass'[r].pc \notin {"report", "retry", "confirm"}
                         /\ pass'[r].pc = "decide" => pass'[r].snapshot = server'
                         /\ pass'[r].pc = "mark" => pass'[r].mark.at # server'.at
  BY DEF Unseen
<1>1. ~InWindow
  BY DEF UIEdit
<1>2. late = NoPolicy /\ \A r \in Pass : pass[r].pc \notin {"decide", "report", "retry", "confirm"}
  BY <1>1 DEF InWindow
<1>3. server'.at = NewStamp /\ UNCHANGED <<marker, pass, late>>
  BY DEF UIEdit
<1>4. /\ NewStamp # 0 /\ NewStamp # marker.at
      /\ \A r \in Pass : NewStamp # pass[r].mark.at
  BY NewStampIsNew DEF Typed
<1> QED BY <1>2, <1>3, <1>4

LEMMA OtherUnseen ==
  ASSUME Typed, Unseen,
         \/ \E f \in Field : LocalEdit(f)
         \/ \E g \in Group : LeaveGroup(g) \/ JoinGroup(g)
         \/ ConfigEvent \/ LateReport \/ Disconnect \/ Crash \/ Restart
         \/ UNCHANGED vars
  PROVE  Unseen' /\ (copy = "fresh" => UNCHANGED server)
<1>1. CASE LateReport
  <2>1. copy # "fresh"
    BY <1>1 DEF LateReport, Unseen
  <2>2. copy' # "fresh"
    BY <1>1, <2>1 DEF LateReport, Write
  <2> QED BY <2>1, <2>2 DEF Unseen
<1>2. CASE Crash
  <2>1. \A r \in Pass : pass'[r].pc = "idle"
    BY <1>2 DEF Crash, Idle
  <2> QED BY <1>2, <2>1 DEF Crash, Unseen
<1>3. ASSUME NEW f \in Field, LocalEdit(f) PROVE UNCHANGED <<server, copy, marker, pass, late>>
  BY <1>3 DEF LocalEdit
<1>4. CASE ConfigEvent \/ Disconnect \/ Restart \/ UNCHANGED vars
  <2>1. UNCHANGED <<server, copy, marker, pass, late>>
    BY <1>4 DEF ConfigEvent, Disconnect, Restart, vars
  <2> QED BY <2>1 DEF Unseen
<1>6. ASSUME NEW g \in Group, LeaveGroup(g) \/ JoinGroup(g)
      PROVE  UNCHANGED <<server, copy, marker, pass, late>>
  BY <1>6 DEF LeaveGroup, JoinGroup
<1>5. ASSUME UNCHANGED <<server, copy, marker, pass, late>>
      PROVE  Unseen' /\ (copy = "fresh" => UNCHANGED server)
  BY <1>5 DEF Unseen
<1> QED BY <1>1, <1>2, <1>3, <1>4, <1>5, <1>6

\* The state of a pass that may end its step beside an edit nobody has seen.
Harmless(r) ==
  /\ pass'[r].pc \notin {"report", "retry", "confirm"}
  /\ pass'[r].pc = "decide" => pass'[r].snapshot = server'
  /\ pass'[r].pc = "mark" => pass'[r].mark.at # server'.at

LEMMA PassStepUnseen ==
  ASSUME Typed, Unseen, NEW r \in Pass, OnePassMoved(r),
         copy = "fresh" /\ copy' = "fresh" =>
           /\ UNCHANGED <<server, late>> /\ marker'.at # server.at /\ Harmless(r),
         copy' = "fresh" => copy = "fresh"
  PROVE  Unseen'
BY DEF Unseen, OnePassMoved, Harmless

LEMMA PassUnseen ==
  ASSUME Typed, Unseen, NEW r \in Pass, PassStep(r)
  PROVE  Unseen' /\ (copy = "fresh" => UNCHANGED server)
<1>0. TypeOK /\ OnePassMoved(r)
  BY PassTyped DEF Typed
<1>h. ASSUME pass'[r].pc \in {"idle", "fetch"} PROVE Harmless(r)
  BY <1>h DEF Harmless
<1>s. ASSUME UNCHANGED <<server, copy, marker, late>>, copy = "fresh" => Harmless(r)
      PROVE  Unseen' /\ (copy = "fresh" => UNCHANGED server)
  <2>1. copy = "fresh" => marker.at # server.at
    BY DEF Unseen
  <2> QED BY <1>0, <1>s, <2>1, PassStepUnseen
<1>1. CASE PeriodicPass(r) \/ DebouncedPass(r)
  <2>1. Begin(r) /\ UNCHANGED <<server, copy, marker, late>>
    BY <1>1 DEF PeriodicPass, DebouncedPass
  <2> QED BY <1>0, <1>h, <1>s, <2>1, BeginPass
<1>2. CASE Fetch(r)
  <2>1. UNCHANGED <<server, copy, marker, late>>
    BY <1>2 DEF Fetch
  <2>2. Harmless(r)
    BY <1>0, <1>2, <2>1, FetchPass DEF Harmless
  <2> QED BY <1>s, <2>1, <2>2
<1>3. CASE FetchFails(r) \/ MarkerFails(r)
  <2>1. Finish(r) /\ UNCHANGED <<server, copy, marker, late>>
    BY <1>3 DEF FetchFails, MarkerFails
  <2> QED BY <1>0, <1>h, <1>s, <2>1, FinishPass
<1>4. CASE Decide(r)
  <2>1. UNCHANGED <<server, marker, late>>
    BY <1>4 DEF Decide
  <2>2. copy' \in {copy, "ours"}
    BY <1>0, <1>4, DecideMoves
  \* It has read the edit, whose time is not the marker's: it is adopted.
  <2>3. copy = "fresh" => copy' = "ours"
    <3> SUFFICES ASSUME copy = "fresh" PROVE copy' = "ours"
      OBVIOUS
    <3>1. pass[r].snapshot = server /\ server.at # 0 /\ marker.at # server.at
      BY <1>4 DEF Unseen, Decide
    <3> QED BY <1>0, <1>4, <3>1, DecideMoves
  <2> QED BY <1>0, <2>1, <2>2, <2>3, PassStepUnseen
<1>5. CASE Report(r) \/ ReportRefused(r) \/ RetryRefused(r) \/ ReportFails(r) \/ Confirm(r)
  <2>1. copy # "fresh"
    BY <1>5 DEF Report, ReportRefused, RetryRefused, ReportFails, Confirm, Unseen
  <2>2. copy' \in {copy, "ours"}
    BY <1>5 DEF Report, ReportRefused, RetryRefused, ReportFails, Confirm, Write
  <2> QED BY <1>0, <2>1, <2>2, PassStepUnseen
<1>6. CASE MarkerWritten(r)
  <2>1. pass[r].pc = "mark" /\ marker' = pass[r].mark /\ Finish(r) /\ UNCHANGED <<server, copy, late>>
    BY <1>6 DEF MarkerWritten
  <2>2. Harmless(r)
    BY <1>0, <1>h, <2>1, FinishPass
  <2>3. copy = "fresh" => marker'.at # server.at
    BY <2>1 DEF Unseen
  <2> QED BY <1>0, <2>1, <2>2, <2>3, PassStepUnseen
<1> QED BY <1>1, <1>2, <1>3, <1>4, <1>5, <1>6 DEF PassStep

\* Nothing the agent does, in any number of passes side by side, through crashes, lost
\* answers, lost events and late reports, replaces an edit of the settings page that no
\* pass has read, unless it was made while one of them was between its two reads.
THEOREM ErasedOnlyInWindow == Spec => ErasureOnlyInWindow
<1>1. Init => IInv
  BY InitTyped, InitUnseen DEF IInv
<1>2. IInv /\ [Next]_vars => IInv'
  BY NextTyped, UIEditUnseen, OtherUnseen, PassUnseen DEF IInv, Next
<1>3. IInv /\ [Next]_vars
        => [copy = "fresh" => copy' # "ours" \/ UNCHANGED server]_vars
  <2> SUFFICES ASSUME IInv, [Next]_vars, copy = "fresh"
               PROVE  copy' # "ours" \/ UNCHANGED server
    OBVIOUS
  <2> Typed /\ Unseen
    BY DEF IInv
  <2>1. ASSUME NEW f \in Field, UIEdit(f) PROVE copy' # "ours"
    BY <2>1 DEF UIEdit
  <2> QED BY <2>1, OtherUnseen, PassUnseen DEF Next
<1> QED BY <1>1, <1>2, <1>3, PTL DEF Spec, ErasureOnlyInWindow
=============================================================================
