------------------------- MODULE WakeNotifierProofs -------------------------
(***************************************************************************)
(* Proofs about WakeNotifier: its types and the bound on a batch, every    *)
(* caller getting the fate of the push that stands for it, and the ok:true *)
(* invariant of wakes that were pushed themselves.                         *)
(***************************************************************************)
EXTENDS WakeNotifier, FiniteSetTheorems, TLAPS

Typed ==
  /\ loaded \in BOOLEAN /\ enabled \in BOOLEAN
  /\ transport \in {"new", "open", "closed"}
  /\ call \in [Wake -> CallStates]
  /\ push \in [Wake -> PushStates]
  /\ window \in Wake \cup {NoWake}
  /\ cover \in [Wake -> Wake \cup {NoWake}]
  /\ noticed \subseteq Wake

\* A wake that leads a window or a write of its own has a push; the merged
\* ones have none.  (A call that ended with its process, module SplitWake, is idle
\* again and its push broken.)
OwnPush(w) ==
  /\ call[w] = "leading" <=> push[w] = "inflight"
  /\ call[w] \in {"pending", "joined"} => push[w] = "none"
  /\ call[w] = "idle" => push[w] \in {"none", "broken"}
  /\ w \in Malformed => push[w] = "none" /\ call[w] \in {"idle", "failed"}
WindowHasPush == window # NoWake => push[window] # "none"
JoinedToWrite(w) == call[w] = "joined" => cover[w] # NoWake /\ push[cover[w]] = "inflight"
HasFate(w) ==
  call[w] \in {"ok", "failed"} /\ w \notin Malformed =>
    LET l == IF push[w] # "none" THEN w ELSE cover[w]
    IN  l # NoWake /\ push[l] \in {"written", "broken"} /\ call[w] = Result(push[l])

FateInv ==
  /\ Typed
  /\ WindowHasPush
  /\ \A w \in Wake : OwnPush(w) /\ JoinedToWrite(w) /\ HasFate(w)

\* A call that no one has taken up has no push; FateInv is kept by every step that
\* takes up only such calls.
Fresh == \A w \in Wake : call[w] = "idle" => push[w] = "none"
TakesUpFresh == \A w \in Wake : call[w] = "idle" /\ call'[w] # "idle" => push[w] = "none"

---------------------------------------------------------------------------
LEMMA InitTyped == Init => Typed
BY ConstAssumption DEF Init, Typed, CallStates, PushStates

LEMMA SettleType ==
  ASSUME Typed, NEW members, window # NoWake
  PROVE  Settle(members) \in [Wake -> CallStates]
BY DEF Typed, Settle, Result, CallStates, PushStates

LEMMA CloseWindowOverType ==
  ASSUME Typed, NEW members, window # NoWake, CloseWindowOver(members)
  PROVE  /\ call' \in [Wake -> CallStates]
         /\ window' \in Wake \cup {NoWake}
         /\ cover' \in [Wake -> Wake \cup {NoWake}]
BY SettleType DEF Typed, CloseWindowOver

LEMMA NextTyped == Typed /\ [Next]_vars => Typed'
<1> SUFFICES ASSUME Typed, [Next]_vars PROVE Typed'
  OBVIOUS
<1>1. ASSUME NEW w \in Wake, Reject(w) PROVE Typed'
  BY <1>1 DEF Typed, Reject, CallStates
<1>2. ASSUME NEW w \in Wake, Lead(w) PROVE Typed'
  BY <1>2 DEF Typed, Lead, NotifyWakeFate, CallStates, PushStates
<1>3. ASSUME NEW w \in Wake, Merge(w) PROVE Typed'
  <2>1. CASE Cardinality(Pending) + 1 >= MaxBatch
    BY <1>3, <2>1, CloseWindowOverType DEF Merge, MergeFull, Typed
  <2>2. CASE ~(Cardinality(Pending) + 1 >= MaxBatch)
    BY <1>3, <2>2 DEF Merge, Typed, CallStates
  <2> QED BY <2>1, <2>2
<1>4. ASSUME NEW w \in Wake, PushSettles(w) PROVE Typed'
  BY <1>4 DEF Typed, PushSettles, PushResult, Result, CallStates, PushStates
<1>5. CASE CloseWindow
  BY <1>5, CloseWindowOverType DEF CloseWindow, Typed
<1>6. CASE Connect \/ Close \/ DisableDelivery
  BY <1>6 DEF Connect, Close, DisableDelivery, Typed
<1>7. CASE UNCHANGED vars
  BY <1>7 DEF vars, Typed
<1> QED BY <1>1, <1>2, <1>3, <1>4, <1>5, <1>6, <1>7 DEF Next

---------------------------------------------------------------------------
(* The bound on a batch.                                                   *)

SmallBatch == Cardinality(Pending) < MaxBatch

LEMMA PendingFinite == IsFiniteSet(Pending) /\ Cardinality(Pending) \in Nat
<1>1. IsFiniteSet(Pending)
  BY ConstAssumption, FS_Subset DEF Pending
<1> QED BY <1>1, FS_CardinalityType

\* A step after which no other wake is pending keeps the bound.
LEMMA FewerPending ==
  ASSUME SmallBatch, Pending' \subseteq Pending PROVE SmallBatch'
<1>1. Cardinality(Pending') <= Cardinality(Pending)
  BY PendingFinite, FS_Subset
<1>2. Cardinality(Pending') \in Nat
  BY PendingFinite, FS_Subset, FS_CardinalityType
<1> QED BY <1>1, <1>2, PendingFinite, ConstAssumption DEF SmallBatch

LEMMA SettleClearsPending ==
  ASSUME Typed, NEW members, window # NoWake, CloseWindowOver(members), NEW w \in Wake,
         call'[w] = "pending"
  PROVE  call[w] = "pending"
BY DEF Typed, CloseWindowOver, Settle, Result

LEMMA NextSmallBatch == Typed /\ SmallBatch /\ [Next]_vars => SmallBatch'
<1> SUFFICES ASSUME Typed, SmallBatch, [Next]_vars PROVE SmallBatch'
  OBVIOUS
<1>1. ASSUME NEW w \in Wake, Reject(w) PROVE SmallBatch'
  <2>1. Pending' \subseteq Pending
    BY <1>1 DEF Typed, Reject, Pending
  <2> QED BY <2>1, FewerPending
<1>2. ASSUME NEW w \in Wake, Lead(w) PROVE SmallBatch'
  <2>1. Pending' \subseteq Pending
    BY <1>2 DEF Typed, Lead, Pending
  <2> QED BY <2>1, FewerPending
<1>3. ASSUME NEW w \in Wake, Merge(w) PROVE SmallBatch'
  <2>1. CASE Cardinality(Pending) + 1 >= MaxBatch
    <3>1. Pending' \subseteq Pending
      BY <1>3, <2>1, SettleClearsPending DEF Merge, MergeFull, Pending
    <3> QED BY <3>1, FewerPending
  <2>2. CASE ~(Cardinality(Pending) + 1 >= MaxBatch)
    <3>1. Pending' = Pending \cup {w}
      BY <1>3, <2>2 DEF Merge, Typed, Pending
    <3>2. w \notin Pending
      BY <1>3 DEF Merge, Pending
    <3>3. Cardinality(Pending') = Cardinality(Pending) + 1
      BY <3>1, <3>2, PendingFinite, FS_AddElement
    <3> QED BY <2>2, <3>3, PendingFinite, ConstAssumption DEF SmallBatch
  <2> QED BY <2>1, <2>2
<1>4. ASSUME NEW w \in Wake, PushSettles(w) PROVE SmallBatch'
  <2>1. Pending' \subseteq Pending
    BY <1>4 DEF Typed, PushSettles, PushResult, Result, Pending
  <2> QED BY <2>1, FewerPending
<1>5. CASE CloseWindow
  <2>1. Pending' \subseteq Pending
    BY <1>5, SettleClearsPending DEF CloseWindow, Pending
  <2> QED BY <2>1, FewerPending
<1>6. CASE Connect \/ Close \/ DisableDelivery \/ UNCHANGED vars
  <2>1. Pending' \subseteq Pending
    BY <1>6 DEF Connect, Close, DisableDelivery, vars, Pending
  <2> QED BY <2>1, FewerPending
<1> QED BY <1>1, <1>2, <1>3, <1>4, <1>5, <1>6 DEF Next

\* The notifier's state keeps its types, and whatever the order of arrivals,
\* timer and settling writes, fewer than maxBatchSize wakes ever wait for the
\* window to close.
THEOREM NotifierTypeCorrect == Spec => []TypeOK
<1>1. Init => Typed /\ SmallBatch
  <2> SUFFICES ASSUME Init PROVE SmallBatch
    BY InitTyped
  <2>1. Pending = {}
    BY DEF Init, Pending
  <2> QED BY <2>1, FS_EmptySet, ConstAssumption DEF SmallBatch
<1>2. Typed /\ SmallBatch /\ [Next]_vars => (Typed /\ SmallBatch)'
  BY NextTyped, NextSmallBatch
<1>3. Typed /\ SmallBatch => TypeOK
  BY DEF Typed, SmallBatch, Pending, TypeOK
<1> QED BY <1>1, <1>2, <1>3, PTL DEF Spec

---------------------------------------------------------------------------
(* Every caller gets the fate of its push.                                 *)

LEMMA InitFate == Init => FateInv /\ Fresh
<1> SUFFICES ASSUME Init PROVE FateInv /\ Fresh
  OBVIOUS
<1>1. Typed
  BY InitTyped
<1> QED BY <1>1 DEF Init, FateInv, Fresh, WindowHasPush, OwnPush, JoinedToWrite, HasFate

LEMMA CloseWindowFate ==
  ASSUME FateInv, window # NoWake, UNCHANGED push, NEW members \in SUBSET (Wake \ Malformed),
         \A w \in members : call[w] \in {"idle", "pending"} /\ push[w] = "none",
         CloseWindowOver(members)
  PROVE  WindowHasPush' /\ \A w \in Wake : (OwnPush(w) /\ JoinedToWrite(w) /\ HasFate(w))'
<1>1. window \in Wake /\ push[window] \in {"inflight", "written", "broken"}
  BY DEF FateInv, Typed, WindowHasPush, PushStates
<1>2. WindowHasPush'
  BY DEF CloseWindowOver, WindowHasPush
<1>3. ASSUME NEW w \in Wake PROVE (OwnPush(w) /\ JoinedToWrite(w) /\ HasFate(w))'
  <2>1. CASE w \notin members
    <3>1. call'[w] = call[w] /\ cover'[w] = cover[w]
      BY <1>3, <2>1 DEF CloseWindowOver, Settle
    <3> QED BY <1>3, <3>1 DEF FateInv, OwnPush, JoinedToWrite, HasFate
  <2>2. CASE w \in members
    <3>1. /\ call'[w] = IF push[window] = "inflight" THEN "joined" ELSE Result(push[window])
          /\ cover'[w] = window
      BY <1>3, <2>2 DEF CloseWindowOver, Settle
    <3>2. push[w] = "none" /\ w \notin Malformed
      BY <2>2
    <3> QED BY <1>1, <1>3, <3>1, <3>2 DEF OwnPush, JoinedToWrite, HasFate, Result
  <2> QED BY <2>1, <2>2
<1> QED BY <1>2, <1>3

LEMMA StepFate == FateInv /\ TakesUpFresh /\ [Next]_vars => FateInv'
<1> SUFFICES ASSUME FateInv, TakesUpFresh, [Next]_vars PROVE FateInv'
  OBVIOUS
<1>a. Typed'
  BY NextTyped DEF FateInv
<1>b. Typed
  BY DEF FateInv
<1>1. ASSUME NEW w \in Wake, Reject(w) PROVE FateInv'
  BY <1>1, <1>a DEF Reject, FateInv, Typed, WindowHasPush, OwnPush, JoinedToWrite, HasFate
<1>2. ASSUME NEW w \in Wake, Lead(w) PROVE FateInv'
  <2>1. push[w] = "none" /\ NotifyWakeFate \in {"inflight", "broken"}
    BY <1>2, <1>b DEF TakesUpFresh, Typed, Lead, NotifyWakeFate
  <2>2. WindowHasPush'
    BY <1>2, <1>b, <2>1 DEF Lead, Typed, WindowHasPush
  <2>3. ASSUME NEW v \in Wake PROVE OwnPush(v)' /\ JoinedToWrite(v)'
    BY <1>2, <1>b, <2>1, <2>3 DEF Lead, FateInv, Typed, OwnPush, JoinedToWrite
  <2>4. ASSUME NEW v \in Wake PROVE HasFate(v)'
    <3>1. CASE v = w
      BY <1>2, <1>b, <2>1, <3>1, ConstAssumption DEF Lead, Typed, HasFate, Result
    <3>2. CASE v # w
      <4>1. call'[v] = call[v] /\ push'[v] = push[v] /\ cover' = cover
        BY <1>2, <1>b, <2>4, <3>2 DEF Lead, Typed
      <4>2. cover[v] # w => push'[cover[v]] = push[cover[v]]
        BY <1>2, <1>b DEF Lead, Typed
      <4> QED BY <2>1, <2>4, <4>1, <4>2 DEF FateInv, HasFate
    <3> QED BY <3>1, <3>2
  <2> QED BY <1>a, <2>2, <2>3, <2>4 DEF FateInv
<1>3. ASSUME NEW w \in Wake, Merge(w) PROVE FateInv'
  <2>1. CASE Cardinality(Pending) + 1 >= MaxBatch
    <3> DEFINE members == Pending \cup {w}
    <3>1. /\ members \in SUBSET (Wake \ Malformed)
          /\ \A v \in members : call[v] \in {"idle", "pending"} /\ push[v] = "none"
      <4>1. call[w] = "idle" /\ call'[w] # "idle" /\ w \in Wake \ Malformed
        BY <1>3, <1>b, <2>1 DEF Merge, MergeFull, CloseWindowOver, Settle, Result
      <4>2. push[w] = "none"
        BY <4>1 DEF TakesUpFresh
      <4> QED BY <4>1, <4>2 DEF Pending, FateInv, OwnPush
    <3>2. window # NoWake /\ UNCHANGED push /\ CloseWindowOver(members)
      BY <1>3, <2>1 DEF Merge, MergeFull
    <3> QED BY <1>a, <3>1, <3>2, CloseWindowFate DEF FateInv
  <2>2. CASE ~(Cardinality(Pending) + 1 >= MaxBatch)
    <3>1. /\ call[w] = "idle" /\ call' = [call EXCEPT ![w] = "pending"] /\ w \notin Malformed
          /\ UNCHANGED <<push, window, cover>>
      BY <1>3, <2>2 DEF Merge
    <3>2. push[w] = "none"
      BY <1>b, <3>1 DEF TakesUpFresh, Typed
    <3> QED BY <1>a, <3>1, <3>2
            DEF FateInv, Typed, WindowHasPush, OwnPush, JoinedToWrite, HasFate
  <2> QED BY <2>1, <2>2
<1>4. ASSUME NEW w \in Wake, PushSettles(w) PROVE FateInv'
  <2> PICK fate \in {"written", "broken"} :
        /\ push' = [push EXCEPT ![w] = fate]
        /\ call' = [v \in Wake |-> PushResult(w, fate, v)]
    BY <1>4 DEF PushSettles
  <2>1. push[w] = "inflight" /\ UNCHANGED <<window, cover>>
    BY <1>4 DEF PushSettles
  <2>2. WindowHasPush'
    BY <1>b, <2>1 DEF FateInv, Typed, WindowHasPush
  <2>3. ASSUME NEW v \in Wake PROVE OwnPush(v)' /\ JoinedToWrite(v)'
    BY <1>b, <2>1, <2>3 DEF FateInv, Typed, PushResult, Result, OwnPush, JoinedToWrite
  <2>4. ASSUME NEW v \in Wake PROVE HasFate(v)'
    <3>0. push'[w] = fate /\ \A u \in Wake \ {w} : push'[u] = push[u]
      BY <1>b DEF Typed
    <3>1. CASE v = w
      BY <2>4, <3>0, <3>1, ConstAssumption DEF PushResult, Result, HasFate
    <3>2. CASE v # w /\ call[v] = "joined" /\ cover[v] = w
      <4>1. push'[v] = "none" /\ call'[v] = Result(fate)
        BY <2>4, <3>0, <3>2 DEF FateInv, OwnPush, PushResult
      <4> QED BY <2>1, <3>0, <3>2, <4>1, ConstAssumption DEF HasFate, Result
    <3>3. CASE v # w /\ ~(call[v] = "joined" /\ cover[v] = w)
      <4>1. call'[v] = call[v] /\ push'[v] = push[v] /\ cover'[v] = cover[v]
        BY <2>1, <2>4, <3>0, <3>3 DEF PushResult
      <4>2. cover[v] \in Wake \cup {NoWake}
        BY <1>b, <2>4 DEF Typed
      <4> QED BY <2>1, <2>4, <3>0, <3>3, <4>1, <4>2 DEF FateInv, HasFate
    <3> QED BY <3>1, <3>2, <3>3
  <2> QED BY <1>a, <2>2, <2>3, <2>4 DEF FateInv
<1>5. CASE CloseWindow
  <2>1. /\ Pending \in SUBSET (Wake \ Malformed)
        /\ \A v \in Pending : call[v] \in {"idle", "pending"} /\ push[v] = "none"
    BY DEF Pending, FateInv, OwnPush
  <2>2. window # NoWake /\ UNCHANGED push /\ CloseWindowOver(Pending)
    BY <1>5 DEF CloseWindow
  <2> QED BY <1>a, <2>1, <2>2, CloseWindowFate DEF FateInv
<1>6. CASE Connect \/ Close \/ DisableDelivery \/ UNCHANGED vars
  BY <1>6, <1>a DEF Connect, Close, DisableDelivery, vars, FateInv, WindowHasPush,
     OwnPush, JoinedToWrite, HasFate
<1> QED BY <1>1, <1>2, <1>3, <1>4, <1>5, <1>6 DEF Next

\* A step gives a push to a call only when it takes it up, and changes no result.
LEMMA StepKeeps ==
  ASSUME FateInv, [Next]_vars, NEW w \in Wake
  PROVE  /\ call[w] \in {"ok", "failed"} => call'[w] = call[w]
         /\ push[w] = "none" => push'[w] = "none" \/ (call[w] = "idle" /\ call'[w] # "idle")
         /\ push'[w] = "none" => push[w] = "none"
         /\ call'[w] = "idle" => call[w] = "idle"
<1> DEFINE Kept == /\ call[w] \in {"ok", "failed"} => call'[w] = call[w]
                   /\ push[w] = "none"
                        => push'[w] = "none" \/ (call[w] = "idle" /\ call'[w] # "idle")
                   /\ push'[w] = "none" => push[w] = "none"
                   /\ call'[w] = "idle" => call[w] = "idle"
<1> SUFFICES Kept
  OBVIOUS
<1>b. Typed
  BY DEF FateInv
<1>1. ASSUME NEW v \in Wake, Reject(v) PROVE Kept
  BY <1>1, <1>b DEF Reject, Typed
<1>2. ASSUME NEW v \in Wake, Lead(v) PROVE Kept
  BY <1>2, <1>b DEF Lead, NotifyWakeFate, Typed
<1>3. ASSUME NEW v \in Wake, Merge(v) PROVE Kept
  BY <1>3, <1>b DEF Merge, MergeFull, CloseWindowOver, Settle, Result, Pending, Typed
<1>4. ASSUME NEW v \in Wake, PushSettles(v) PROVE Kept
  BY <1>4, <1>b DEF PushSettles, PushResult, Result, FateInv, OwnPush, Typed
<1>5. CASE CloseWindow
  BY <1>5, <1>b DEF CloseWindow, CloseWindowOver, Settle, Result, Pending, Typed
<1>6. CASE Connect \/ Close \/ DisableDelivery \/ UNCHANGED vars
  BY <1>6 DEF Connect, Close, DisableDelivery, vars
<1> QED BY <1>1, <1>2, <1>3, <1>4, <1>5, <1>6 DEF Next

LEMMA NextFate == FateInv /\ Fresh /\ [Next]_vars => FateInv' /\ Fresh'
<1> SUFFICES ASSUME FateInv, Fresh, [Next]_vars PROVE FateInv' /\ Fresh'
  OBVIOUS
<1>1. TakesUpFresh
  BY DEF Fresh, TakesUpFresh
<1>2. Fresh'
  BY StepKeeps DEF Fresh
<1> QED BY <1>1, <1>2, StepFate

\* For any number of wakes, each call returns ok only if the push that stands
\* for it was written, and not ok if that push broke.
THEOREM CallersGetPushFate == Spec => []ResultIsPushFate
<1>1. FateInv => ResultIsPushFate
  BY DEF FateInv, HasFate, ResultIsPushFate
<1> QED BY <1>1, InitFate, NextFate, PTL DEF Spec

---------------------------------------------------------------------------
(* A wake that was pushed itself, and is reported ok, was noticed.         *)

NoticedInv ==
  /\ enabled => loaded
  /\ \A w \in Wake : push[w] = "inflight" => loaded
  /\ PushedOkMeansNoticed

LEMMA InitNoticed == Init => NoticedInv
<1> SUFFICES ASSUME Init PROVE NoticedInv
  OBVIOUS
<1>1. enabled => loaded
  BY Zenon DEF Init
<1> QED BY <1>1 DEF Init, NoticedInv, PushedOkMeansNoticed

LEMMA NextNoticed == FateInv /\ TakesUpFresh /\ NoticedInv /\ [Next]_vars => NoticedInv'
<1> SUFFICES ASSUME FateInv, TakesUpFresh, NoticedInv, [Next]_vars PROVE NoticedInv'
  OBVIOUS
<1> USE DEF NoticedInv, PushedOkMeansNoticed
<1>a. Typed
  BY DEF FateInv
<1>1. ASSUME NEW w \in Wake, Reject(w) PROVE NoticedInv'
  BY <1>1, <1>a DEF Reject, Typed
<1>2. ASSUME NEW w \in Wake, Lead(w) PROVE NoticedInv'
  BY <1>2, <1>a DEF Lead, NotifyWakeFate, Typed
<1>3. ASSUME NEW w \in Wake, Merge(w) PROVE NoticedInv'
  \* A merged wake has no push.
  <2>1. ASSUME NEW v \in Wake, push[v] # "none" PROVE call'[v] = call[v]
    <3>1. call[v] # "pending"
      BY <2>1 DEF FateInv, OwnPush
    <3>2. call[w] = "idle" /\ call'[w] # "idle"
      BY <1>3, <1>a DEF Merge, MergeFull, CloseWindowOver, Settle, Result, Pending, Typed
    <3>3. v # w
      BY <2>1, <3>2 DEF TakesUpFresh
    <3> QED BY <1>3, <1>a, <2>1, <3>1, <3>3
            DEF Merge, MergeFull, CloseWindowOver, Settle, Pending, Typed
  <2> QED BY <1>3, <2>1 DEF Merge
<1>4. ASSUME NEW w \in Wake, PushSettles(w) PROVE NoticedInv'
  <2> PICK fate \in {"written", "broken"} :
        /\ push' = [push EXCEPT ![w] = fate]
        /\ call' = [v \in Wake |-> PushResult(w, fate, v)]
        /\ noticed' = IF fate = "written" /\ loaded
                      THEN noticed \cup {v \in Wake : call[v] \in {"leading", "pending", "joined"}}
                      ELSE noticed
    BY <1>4 DEF PushSettles
  <2>1. loaded /\ push[w] = "inflight" /\ UNCHANGED <<loaded, enabled>>
    BY <1>4 DEF PushSettles
  <2>2. ASSUME NEW v \in Wake, call'[v] = "ok", push'[v] # "none" PROVE v \in noticed'
    <3>1. CASE v = w
      BY <2>1, <2>2, <3>1 DEF PushResult, Result, FateInv, OwnPush
    <3>2. CASE v # w
      BY <1>a, <2>2, <3>2 DEF PushResult, FateInv, OwnPush, Typed
    <3> QED BY <3>1, <3>2
  <2> QED BY <1>a, <2>1, <2>2 DEF Typed
<1>5. CASE CloseWindow
  <2>1. ASSUME NEW v \in Wake, push[v] # "none" PROVE call'[v] = call[v]
    BY <1>5, <2>1 DEF FateInv, OwnPush, CloseWindow, CloseWindowOver, Settle, Pending
  <2> QED BY <1>5, <2>1 DEF CloseWindow
<1>6. CASE Connect \/ Close \/ DisableDelivery \/ UNCHANGED vars
  BY <1>6 DEF Connect, Close, DisableDelivery, vars
<1> QED BY <1>1, <1>2, <1>3, <1>4, <1>5, <1>6 DEF Next

\* For any number of wakes, with or without debounce: ok:true for a message whose
\* notice was pushed itself means that a session which loaded the channel got it.
THEOREM PushedAreNoticed == Spec => []PushedOkMeansNoticed
<1>1. Init => FateInv /\ Fresh /\ NoticedInv
  BY InitFate, InitNoticed
<1>2. FateInv /\ Fresh /\ NoticedInv /\ [Next]_vars => (FateInv /\ Fresh /\ NoticedInv)'
  BY NextFate, NextNoticed DEF Fresh, TakesUpFresh
<1>3. NoticedInv => PushedOkMeansNoticed
  BY DEF NoticedInv
<1> QED BY <1>1, <1>2, <1>3, PTL DEF Spec

\* Without debounce nothing is merged.
NothingMerged == window = NoWake /\ \A w \in Wake : cover[w] = NoWake

LEMMA NextUnmerged == ~Debounce /\ FateInv /\ NothingMerged /\ [Next]_vars => NothingMerged'
<1> SUFFICES ASSUME ~Debounce, NothingMerged, [Next]_vars PROVE NothingMerged'
  OBVIOUS
<1>1. ~CloseWindow /\ \A w \in Wake : ~Merge(w)
  BY DEF CloseWindow, Merge, NothingMerged
<1> QED BY <1>1 DEF Next, NothingMerged, Reject, Lead, PushSettles, Connect, Close,
           DisableDelivery, vars

\* With CLAUDE_OPENMAX_DEBOUNCE_MS at 0, its documented off switch, ok:true keeps
\* its promise for every message.
THEOREM OkMeansNoticedWithoutDebounce ==
  ASSUME ~Debounce PROVE Spec => []OkMeansNoticed
<1>1. Init => FateInv /\ Fresh /\ NoticedInv /\ NothingMerged
  BY InitFate, InitNoticed DEF Init, NothingMerged
<1>2. FateInv /\ Fresh /\ NoticedInv /\ NothingMerged /\ [Next]_vars
        => (FateInv /\ Fresh /\ NoticedInv /\ NothingMerged)'
  BY NextFate, NextNoticed, NextUnmerged DEF Fresh, TakesUpFresh
<1>3. FateInv /\ NoticedInv /\ NothingMerged => OkMeansNoticed
  BY DEF FateInv, OwnPush, HasFate, NothingMerged, NoticedInv, PushedOkMeansNoticed,
     OkMeansNoticed
<1> QED BY <1>1, <1>2, <1>3, PTL DEF Spec
============================================================================
