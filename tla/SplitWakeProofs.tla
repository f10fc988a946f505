--------------------------- MODULE SplitWakeProofs ---------------------------
(***************************************************************************)
(* Proofs about SplitWake: the types of both processes, what an ok that    *)
(* the bridge acknowledges stands for, and when a message is shown twice.  *)
(* The notifier's invariants (WakeNotifierProofs) hold here too, although  *)
(* a session may end with its calls: what a bridge or a new session takes  *)
(* up has never been pushed.                                               *)
(***************************************************************************)
EXTENDS SplitWake, WakeNotifierProofs

\* An attempt that has not reached a handler has no call and no push.
Untouched(w) ==
  (split /\ post[w] \in {"none", "sent", "refused"}) \/ (~split /\ call[w] = "idle")
    => call[w] = "idle" /\ push[w] = "none"

\* The bridge acknowledges what the notifier did, and gives up on an attempt that
\* is being written, or was, only when its answer is lost.
Acknowledged(w) == post[w] = "ok" => call[w] = "ok"
WrittenIsKnown(w) ==
  split /\ push[w] \in {"inflight", "written"} => post[w] \in {"handling", "ok"} \/ w \in unanswered

\* Of the attempts at one message one is under way, or has succeeded.
Over(w) == post[w] \in {"none", "failed"} \/ w \in forgotten
OneAtATime ==
  \A v, w \in Wake : v # w /\ MessageOf[v] = MessageOf[w] => Over(v) \/ Over(w)

\* A process that has ended writes nothing.
Sessions ==
  /\ session = "down" => \A w \in Wake : push[w] # "inflight"
  /\ ~split => session = "up"

NotifierInv == FateInv /\ SmallBatch /\ NoticedInv

SplitInv ==
  /\ NotifierInv
  /\ SplitTypeOK
  /\ Sessions
  /\ \A w \in Wake : Untouched(w) /\ Acknowledged(w) /\ WrittenIsKnown(w)
  /\ OneAtATime

---------------------------------------------------------------------------
LEMMA InitSplitInv == SplitInit => SplitInv
<1> SUFFICES ASSUME SplitInit PROVE SplitInv
  OBVIOUS
<1>1. Init
  BY DEF SplitInit
<1>2. NotifierInv
  <2>1. SmallBatch
    <3>1. Pending = {}
      BY <1>1 DEF Init, Pending
    <3> QED BY <3>1, FS_EmptySet, ConstAssumption DEF SmallBatch
  <2> QED BY <1>1, <2>1, InitFate, InitNoticed DEF NotifierInv
<1>3. SplitTypeOK
  BY SplitAssumption DEF SplitInit, SplitTypeOK, PostStates, InFlight
<1>4. Sessions
  BY <1>1 DEF SplitInit, Sessions, Init
<1>5. \A w \in Wake : Untouched(w) /\ Acknowledged(w) /\ WrittenIsKnown(w)
  BY <1>1 DEF SplitInit, Init, Untouched, Acknowledged, WrittenIsKnown
<1>6. OneAtATime
  BY DEF SplitInit, OneAtATime, Over
<1> QED BY <1>2, <1>3, <1>4, <1>5, <1>6 DEF SplitInv

\* Which calls the notifier's steps take up.
LEMMA TakenUp ==
  ASSUME FateInv, NEW w \in Wake, call[w] = "idle"
  PROVE  /\ \A v \in Wake : (Reject(v) \/ Lead(v) \/ Merge(v)) /\ v # w => call'[w] = "idle"
         /\ \A v \in Wake : PushSettles(v) => call'[w] = "idle"
         /\ CloseWindow \/ Connect \/ Close \/ DisableDelivery => call'[w] = "idle"
<1>b. Typed
  BY DEF FateInv
<1>1. ASSUME NEW v \in Wake, Reject(v) \/ Lead(v), v # w PROVE call'[w] = "idle"
  BY <1>1, <1>b DEF Reject, Lead, Typed
<1>2. ASSUME NEW v \in Wake, Merge(v), v # w PROVE call'[w] = "idle"
  BY <1>2, <1>b DEF Merge, MergeFull, CloseWindowOver, Settle, Pending, Typed
<1>3. ASSUME NEW v \in Wake, PushSettles(v) PROVE call'[w] = "idle"
  BY <1>3, <1>b DEF PushSettles, PushResult, FateInv, OwnPush, Typed
<1>4. ASSUME CloseWindow PROVE call'[w] = "idle"
  BY <1>4, <1>b DEF CloseWindow, CloseWindowOver, Settle, Pending, Typed
<1>5. ASSUME Connect \/ Close \/ DisableDelivery PROVE call'[w] = "idle"
  BY <1>5 DEF Connect, Close, DisableDelivery
<1> QED BY <1>1, <1>2, <1>3, <1>4, <1>5

\* A step of the split topology is one of the notifier, which takes up what has never
\* been pushed, or leaves it alone, or is the end or the start of a session.
LEMMA SplitSteps ==
  ASSUME SplitInv, [SplitNext]_allVars
  PROVE  ([Next]_vars /\ TakesUpFresh) \/ SessionEnds \/ SessionStarts
<1>f. FateInv
  BY DEF SplitInv, NotifierInv
<1>u. UNCHANGED vars => [Next]_vars /\ TakesUpFresh
  BY DEF vars, TakesUpFresh
<1>1. ASSUME NEW w \in Wake, InProcess(w) PROVE [Next]_vars /\ TakesUpFresh
  <2>1. ~split /\ (Reject(w) \/ Lead(w) \/ Merge(w))
    BY <1>1 DEF InProcess
  <2>2. TakesUpFresh
    BY <2>1 DEF TakesUpFresh, SplitInv, Untouched
  <2> QED BY <2>1, <2>2 DEF Next
<1>2. ASSUME NEW w \in Wake, Handle(w) PROVE [Next]_vars /\ TakesUpFresh
  <2>1. CASE Valid(w)
    <3>1. Lead(w) \/ Merge(w)
      BY <1>2, <2>1 DEF Handle
    <3>2. split /\ post[w] = "sent"
      BY <1>2 DEF Handle, SplitInv, SplitTypeOK
    <3>3. push[w] = "none"
      BY <3>2 DEF SplitInv, Untouched
    <3>4. TakesUpFresh
      BY <1>f, <3>1, <3>3, TakenUp DEF TakesUpFresh
    <3> QED BY <3>1, <3>4 DEF Next
  <2>2. CASE ~Valid(w)
    BY <1>2, <1>u, <2>2 DEF Handle
  <2> QED BY <2>1, <2>2
<1>3. ASSUME PluginStep PROVE [Next]_vars /\ TakesUpFresh
  <2>1. CloseWindow \/ Connect \/ DisableDelivery \/ \E w \in Wake : PushSettles(w)
    BY <1>3 DEF PluginStep
  <2>2. TakesUpFresh
    BY <1>f, <2>1, TakenUp DEF TakesUpFresh
  <2> QED BY <2>1, <2>2 DEF Next
<1>4. ASSUME CloseChannel PROVE [Next]_vars /\ TakesUpFresh
  <2>1. Close
    BY <1>4 DEF CloseChannel
  <2>2. TakesUpFresh
    BY <1>f, <2>1, TakenUp DEF TakesUpFresh
  <2> QED BY <2>1, <2>2 DEF Next
<1>5. ASSUME NEW w \in Wake, Deliver(w) \/ Answer(w) \/ RefusalArrives(w) \/ ConnectionFails(w)
      PROVE  [Next]_vars /\ TakesUpFresh
  BY <1>5, <1>u DEF Deliver, Answer, RefusalArrives, ConnectionFails, vars
<1>6. ASSUME ShutDown \/ BridgeEnds PROVE [Next]_vars /\ TakesUpFresh
  BY <1>6, <1>u DEF ShutDown, BridgeEnds, vars
<1>7. CASE UNCHANGED allVars
  BY <1>7, <1>u DEF allVars
<1> QED BY <1>1, <1>2, <1>3, <1>4, <1>5, <1>6, <1>7 DEF SplitNext

---------------------------------------------------------------------------
(* The notifier's invariants.                                              *)

\* What the end of a session does to the calls and the pushes.
LEMMA EndedCalls ==
  ASSUME FateInv, SessionEnds, NEW w \in Wake
  PROVE  /\ call'[w] = IF call[w] \in {"leading", "pending", "joined"} THEN "idle" ELSE call[w]
         /\ push'[w] = IF push[w] = "inflight" THEN "broken" ELSE push[w]
BY DEF SessionEnds

LEMMA EndKeepsNotifier == NotifierInv /\ SessionEnds => NotifierInv'
<1> SUFFICES ASSUME NotifierInv, SessionEnds PROVE NotifierInv'
  OBVIOUS
<1>0. FateInv /\ Typed /\ SmallBatch /\ NoticedInv
  BY DEF NotifierInv, FateInv
<1>1. Typed'
  <2>1. /\ call' \in [Wake -> CallStates] /\ push' \in [Wake -> PushStates]
    <3>1. \A w \in Wake : call'[w] \in CallStates /\ push'[w] \in PushStates
      BY <1>0, EndedCalls DEF Typed, CallStates, PushStates
    <3> QED BY <3>1 DEF SessionEnds
  <2> QED BY <1>0, <2>1 DEF Typed, SessionEnds
<1>2. WindowHasPush'
  BY DEF SessionEnds, WindowHasPush
<1>3. ASSUME NEW w \in Wake PROVE OwnPush(w)' /\ JoinedToWrite(w)'
  <2>1. OwnPush(w)
    BY <1>0, <1>3 DEF FateInv
  <2>2. /\ call'[w] = IF call[w] \in {"leading", "pending", "joined"} THEN "idle" ELSE call[w]
        /\ push'[w] = IF push[w] = "inflight" THEN "broken" ELSE push[w]
    BY <1>0, <1>3, EndedCalls
  <2> QED BY <2>1, <2>2 DEF OwnPush, JoinedToWrite
<1>4. ASSUME NEW w \in Wake PROVE HasFate(w)'
  <2>1. HasFate(w) /\ cover'[w] = cover[w] /\ cover[w] \in Wake \cup {NoWake}
    BY <1>0, <1>4 DEF FateInv, SessionEnds, Typed
  <2>2. call'[w] \in {"ok", "failed"} => call[w] = call'[w]
    BY <1>0, <1>4, EndedCalls
  <2>3. push'[w] # "none" <=> push[w] # "none"
    BY <1>0, <1>4, EndedCalls
  <2>4. \A l \in Wake : push[l] \in {"written", "broken"} => push'[l] = push[l]
    BY <1>0, EndedCalls
  <2> QED BY <1>4, <2>1, <2>2, <2>3, <2>4 DEF HasFate
<1>5. SmallBatch'
  <2>1. Pending' \subseteq Pending
    BY <1>0, EndedCalls DEF Pending
  <2> QED BY <1>0, <2>1, FewerPending
<1>6. NoticedInv'
  <2>1. /\ enabled' => loaded'
        /\ \A w \in Wake : push'[w] # "inflight"
    BY <1>0, EndedCalls DEF NoticedInv, SessionEnds
  <2>2. ASSUME NEW w \in Wake, call'[w] = "ok", push'[w] # "none" PROVE w \in noticed'
    <3>1. call[w] = "ok" /\ push[w] # "none"
      BY <1>0, <2>2, EndedCalls
    <3> QED BY <1>0, <2>2, <3>1 DEF NoticedInv, PushedOkMeansNoticed, SessionEnds
  <2> QED BY <2>1, <2>2 DEF NoticedInv, PushedOkMeansNoticed
<1> QED BY <1>1, <1>2, <1>3, <1>4, <1>5, <1>6 DEF NotifierInv, FateInv

LEMMA StartKeepsNotifier == NotifierInv /\ Sessions /\ SessionStarts => NotifierInv'
<1> SUFFICES ASSUME NotifierInv, Sessions, SessionStarts PROVE NotifierInv'
  OBVIOUS
<1>1. FateInv'
  BY DEF NotifierInv, FateInv, SessionStarts, Typed, WindowHasPush, OwnPush, JoinedToWrite, HasFate
<1>2. SmallBatch'
  BY DEF NotifierInv, SessionStarts, SmallBatch, Pending
<1>3. NoticedInv'
  <2>1. enabled' => loaded'
    BY DEF SessionStarts
  <2>2. \A w \in Wake : push'[w] # "inflight"
    BY DEF SessionStarts, Sessions
  <2> QED BY <2>1, <2>2 DEF NotifierInv, NoticedInv, PushedOkMeansNoticed, SessionStarts
<1> QED BY <1>1, <1>2, <1>3 DEF NotifierInv

LEMMA NotifierKept == SplitInv /\ [SplitNext]_allVars => NotifierInv'
<1> SUFFICES ASSUME SplitInv, [SplitNext]_allVars PROVE NotifierInv'
  OBVIOUS
<1>0. FateInv /\ Typed /\ SmallBatch /\ NoticedInv /\ NotifierInv /\ Sessions
  BY DEF SplitInv, NotifierInv, FateInv
<1>1. CASE [Next]_vars /\ TakesUpFresh
  BY <1>0, <1>1, StepFate, NextSmallBatch, NextNoticed DEF NotifierInv
<1>2. CASE SessionEnds
  BY <1>0, <1>2, EndKeepsNotifier
<1>3. CASE SessionStarts
  BY <1>0, <1>3, StartKeepsNotifier
<1> QED BY <1>1, <1>2, <1>3, SplitSteps

---------------------------------------------------------------------------
(* The requests.                                                           *)

LEMMA NextSplitTyped == SplitInv /\ [SplitNext]_allVars => SplitTypeOK'
<1> SUFFICES ASSUME SplitInv, [SplitNext]_allVars PROVE SplitTypeOK'
  OBVIOUS
<1>0. SplitTypeOK /\ Typed
  BY DEF SplitInv, NotifierInv, FateInv
<1>1. ASSUME (\E w \in Wake : InProcess(w)) \/ PluginStep \/ CloseChannel PROVE SplitTypeOK'
  BY <1>0, <1>1 DEF InProcess, PluginStep, CloseChannel, splitVars, SplitTypeOK
<1>2. ASSUME NEW w \in Wake, Deliver(w) PROVE SplitTypeOK'
  BY <1>0, <1>2 DEF Deliver, SplitTypeOK, PostStates, InFlight
<1>3. ASSUME NEW w \in Wake, Handle(w) PROVE SplitTypeOK'
  BY <1>0, <1>3 DEF Handle, SplitTypeOK, PostStates, InFlight
<1>4. ASSUME NEW w \in Wake, Answer(w) PROVE SplitTypeOK'
  <2>1. Outcome(w) \in PostStates
    BY <1>0 DEF Outcome, PostStates, InFlight
  <2> QED BY <1>0, <1>4, <2>1 DEF Answer, SplitTypeOK
<1>5. ASSUME NEW w \in Wake, RefusalArrives(w) \/ ConnectionFails(w) PROVE SplitTypeOK'
  BY <1>0, <1>5 DEF RefusalArrives, ConnectionFails, SplitTypeOK, PostStates, InFlight
<1>6. CASE BridgeEnds
  BY <1>0, <1>6 DEF BridgeEnds, SplitTypeOK, PostStates, InFlight
<1>7. CASE ShutDown
  BY <1>0, <1>7 DEF ShutDown, SplitTypeOK
<1>8. CASE SessionEnds
  BY <1>0, <1>8 DEF SessionEnds, SplitTypeOK
<1>9. CASE SessionStarts
  BY <1>0, <1>9, SplitAssumption DEF SessionStarts, SplitTypeOK
<1>10. CASE UNCHANGED allVars
  BY <1>0, <1>10 DEF allVars, splitVars, SplitTypeOK
<1> QED BY <1>1, <1>2, <1>3, <1>4, <1>5, <1>6, <1>7, <1>8, <1>9, <1>10 DEF SplitNext

\* How a POST goes from state to state.
Moves(w) ==
  /\ split' = split /\ unanswered \subseteq unanswered' /\ forgotten \subseteq forgotten'
  /\ post'[w] = "none" => post[w] = "none"
  /\ post'[w] = "sent" => post[w] \in {"none", "sent"}
  /\ post'[w] = "refused" => post[w] \in {"sent", "refused"}
  /\ post'[w] = "ok" => post[w] = "ok" \/ (post[w] = "handling" /\ call[w] = "ok")
  /\ post[w] = "ok" => post'[w] = "ok"
  /\ post[w] = "handling" => \/ post'[w] \in {"handling", "ok"}
                             \/ w \in unanswered'
                             \/ post'[w] = "failed" /\ call[w] = "failed"
  /\ post[w] = "failed" => post'[w] = "failed"

LEMMA PostMoves ==
  ASSUME SplitTypeOK, [SplitNext]_allVars, NEW w \in Wake
  PROVE  Moves(w)
<1> USE DEF Moves
<1>0. post \in [Wake -> PostStates]
  BY DEF SplitTypeOK
<1>1. ASSUME NEW v \in Wake, InProcess(v) \/ PluginStep \/ CloseChannel PROVE Moves(w)
  BY <1>1 DEF InProcess, PluginStep, CloseChannel, splitVars
<1>2. ASSUME NEW v \in Wake, Deliver(v) PROVE Moves(w)
  BY <1>0, <1>2 DEF Deliver
<1>3. ASSUME NEW v \in Wake, Handle(v) PROVE Moves(w)
  BY <1>0, <1>3 DEF Handle
<1>4. ASSUME NEW v \in Wake, Answer(v) PROVE Moves(w)
  <2>1. post[v] = "handling" /\ Outcome(v) # "handling" /\ post' = [post EXCEPT ![v] = Outcome(v)]
    BY <1>4 DEF Answer
  <2>2. Outcome(v) = call[v] /\ call[v] \in {"ok", "failed"}
    BY <2>1 DEF Outcome
  <2>3. UNCHANGED <<split, unanswered, forgotten>>
    BY <1>4 DEF Answer
  <2> QED BY <1>0, <2>1, <2>2, <2>3
<1>5. ASSUME NEW v \in Wake, RefusalArrives(v) PROVE Moves(w)
  BY <1>0, <1>5 DEF RefusalArrives
<1>6. ASSUME NEW v \in Wake, ConnectionFails(v) PROVE Moves(w)
  BY <1>0, <1>6 DEF ConnectionFails
<1>7. CASE BridgeEnds
  BY <1>0, <1>7 DEF BridgeEnds, InFlight
<1>8. CASE ShutDown \/ SessionEnds \/ SessionStarts
  BY <1>8 DEF ShutDown, SessionEnds, SessionStarts
<1>9. CASE UNCHANGED allVars
  BY <1>9 DEF allVars, splitVars
<1> QED BY <1>1, <1>2, <1>3, <1>4, <1>5, <1>6, <1>7, <1>8, <1>9 DEF SplitNext

\* What the notifier does to a call and its push, in every step; a call taken up is one
\* whose request reaches the handler.
LEMMA CallMoves ==
  ASSUME SplitInv, [SplitNext]_allVars, NEW w \in Wake
  PROVE  /\ call[w] \in {"ok", "failed"} => call'[w] = call[w]
         /\ push[w] = "broken" => push'[w] = "broken"
         /\ call[w] = "idle" /\ call'[w] # "idle" => ~split \/ post'[w] = "handling"
         /\ push[w] = "none" => push'[w] = "none" \/ (call[w] = "idle" /\ call'[w] # "idle")
         /\ ~split /\ call'[w] = "idle" => call[w] = "idle"
<1> DEFINE M == /\ call[w] \in {"ok", "failed"} => call'[w] = call[w]
                /\ push[w] = "broken" => push'[w] = "broken"
                /\ push[w] = "none" => push'[w] = "none" \/ (call[w] = "idle" /\ call'[w] # "idle")
                /\ ~split /\ call'[w] = "idle" => call[w] = "idle"
<1>0. FateInv /\ Typed /\ SplitTypeOK /\ Sessions
  BY DEF SplitInv, NotifierInv, FateInv
<1>1. M
  <2>1. CASE [Next]_vars /\ TakesUpFresh
    <3>1. push[w] = "broken" => push'[w] = "broken"
      <4> SUFFICES ASSUME push[w] = "broken" PROVE push'[w] = "broken"
        OBVIOUS
      <4>1. ASSUME NEW v \in Wake, Lead(v) PROVE push'[w] = "broken"
        <5>1. call[v] = "idle" /\ call'[v] # "idle"
          BY <1>0, <4>1 DEF Lead, Typed
        <5>2. v # w
          BY <2>1, <5>1 DEF TakesUpFresh
        <5> QED BY <1>0, <4>1, <5>2 DEF Lead, Typed
      <4>2. ASSUME NEW v \in Wake, PushSettles(v) PROVE push'[w] = "broken"
        BY <1>0, <4>2 DEF PushSettles, Typed
      <4>3. ASSUME NEW v \in Wake, Reject(v) \/ Merge(v) \/ CloseWindow \/ Connect \/ Close
                                     \/ DisableDelivery
            PROVE  push'[w] = "broken"
        BY <4>3 DEF Reject, Merge, CloseWindow, Connect, Close, DisableDelivery
      <4> QED BY <2>1, <4>1, <4>2, <4>3 DEF Next, vars
    <3> QED BY <1>0, <2>1, <3>1, StepKeeps
  <2>2. CASE SessionEnds
    <3>1. split
      BY <2>2 DEF SessionEnds
    <3> QED BY <1>0, <2>2, <3>1, EndedCalls
  <2>3. CASE SessionStarts
    BY <2>3 DEF SessionStarts
  <2> QED BY <2>1, <2>2, <2>3, SplitSteps
<1>2. ASSUME call[w] = "idle", call'[w] # "idle" PROVE ~split \/ post'[w] = "handling"
  <2>1. ASSUME NEW v \in Wake, InProcess(v) PROVE ~split
    BY <2>1 DEF InProcess
  <2>2. ASSUME NEW v \in Wake, Handle(v) PROVE post'[w] = "handling"
    <3>1. Valid(v) /\ (Lead(v) \/ Merge(v)) /\ post' = [post EXCEPT ![v] = "handling"]
      BY <1>2, <2>2 DEF Handle, vars
    <3>2. v = w
      BY <1>0, <1>2, <3>1, TakenUp
    <3> QED BY <1>0, <3>1, <3>2 DEF SplitTypeOK
  <2>3. ~PluginStep /\ ~CloseChannel
    BY <1>0, <1>2, TakenUp DEF PluginStep, CloseChannel
  <2>4. ~SessionEnds
    BY <1>0, <1>2, EndedCalls
  <2>5. ASSUME NEW v \in Wake
        PROVE  ~Deliver(v) /\ ~Answer(v) /\ ~RefusalArrives(v) /\ ~ConnectionFails(v)
    BY <1>2 DEF Deliver, Answer, RefusalArrives, ConnectionFails, vars
  <2>6. ~BridgeEnds /\ ~ShutDown /\ ~SessionStarts /\ ~(UNCHANGED allVars)
    BY <1>2 DEF BridgeEnds, ShutDown, SessionStarts, allVars, vars
  <2> QED BY <2>1, <2>2, <2>3, <2>4, <2>5, <2>6 DEF SplitNext
<1> QED BY <1>1, <1>2

LEMMA NextSessions == SplitInv /\ [SplitNext]_allVars => Sessions'
<1> SUFFICES ASSUME SplitInv, [SplitNext]_allVars PROVE Sessions'
  OBVIOUS
<1>0. Sessions /\ FateInv /\ SplitTypeOK
  BY DEF SplitInv, NotifierInv
<1>1. ASSUME NEW w \in Wake, InProcess(w) PROVE Sessions'
  BY <1>0, <1>1 DEF InProcess, splitVars, Sessions
<1>2. ASSUME NEW w \in Wake, Handle(w) PROVE Sessions'
  BY <1>0, <1>2 DEF Handle, Sessions
<1>3. CASE PluginStep
  BY <1>0, <1>3 DEF PluginStep, splitVars, Sessions
<1>4. CASE CloseChannel
  BY <1>0, <1>4 DEF CloseChannel, Close, splitVars, Sessions
<1>5. ASSUME NEW w \in Wake, Deliver(w) \/ Answer(w) \/ RefusalArrives(w) \/ ConnectionFails(w)
      PROVE  Sessions'
  BY <1>0, <1>5 DEF Deliver, Answer, RefusalArrives, ConnectionFails, vars, Sessions
<1>6. CASE ShutDown \/ BridgeEnds \/ SessionStarts
  <2>1. CASE ShutDown
    BY <1>0, <2>1 DEF ShutDown, vars, Sessions
  <2>2. CASE BridgeEnds
    BY <1>0, <2>2 DEF BridgeEnds, vars, Sessions
  <2>3. CASE SessionStarts
    BY <2>3 DEF SessionStarts, Sessions
  <2> QED BY <1>6, <2>1, <2>2, <2>3
<1>7. CASE SessionEnds
  <2>1. \A w \in Wake : push'[w] # "inflight"
    BY <1>0, <1>7, EndedCalls
  <2> QED BY <1>7, <2>1 DEF SessionEnds, Sessions
<1>8. CASE UNCHANGED allVars
  BY <1>0, <1>8 DEF allVars, vars, splitVars, Sessions
<1> QED BY <1>1, <1>2, <1>3, <1>4, <1>5, <1>6, <1>7, <1>8 DEF SplitNext

LEMMA NextRequests ==
  ASSUME SplitInv, [SplitNext]_allVars, NEW w \in Wake
  PROVE  Untouched(w)' /\ Acknowledged(w)' /\ WrittenIsKnown(w)'
<1>0. /\ Untouched(w) /\ Acknowledged(w) /\ WrittenIsKnown(w) /\ FateInv
      /\ push[w] \in PushStates /\ post[w] \in PostStates
  BY DEF SplitInv, NotifierInv, FateInv, Typed, SplitTypeOK
<1>1. Moves(w)
  BY PostMoves DEF SplitInv
<1>2. Untouched(w)'
  BY <1>0, <1>1, CallMoves DEF Untouched, Moves
<1>3. Acknowledged(w)'
  BY <1>0, <1>1, CallMoves DEF Acknowledged, Moves
<1>4. WrittenIsKnown(w)'
  <2> SUFFICES ASSUME split', push'[w] \in {"inflight", "written"}
               PROVE  post'[w] \in {"handling", "ok"} \/ w \in unanswered'
    BY DEF WrittenIsKnown
  <2>1. split
    BY <1>1 DEF Moves
  <2>2. CASE push[w] = "none"
    BY <2>1, <2>2, CallMoves
  <2>3. CASE push[w] # "none"
    <3>1. push[w] \in {"inflight", "written"}
      BY <1>0, <2>3, CallMoves DEF PushStates
    <3>2. post[w] \in {"handling", "ok"} \/ w \in unanswered
      BY <1>0, <2>1, <3>1 DEF WrittenIsKnown
    <3>3. call[w] # "failed"
      \* A push under way has no result yet; the result of one that is written is ok.
      BY <1>0, <3>1 DEF FateInv, OwnPush, HasFate, Result
    <3> QED BY <1>1, <3>2, <3>3 DEF Moves
  <2> QED BY <2>2, <2>3
<1> QED BY <1>2, <1>3, <1>4

LEMMA NextOneAtATime == SplitInv /\ [SplitNext]_allVars => OneAtATime'
<1> SUFFICES ASSUME SplitInv, [SplitNext]_allVars, NEW v \in Wake, NEW w \in Wake, v # w,
                    MessageOf[v] = MessageOf[w]
             PROVE  Over(v)' \/ Over(w)'
  BY DEF OneAtATime
<1>0. Over(v) \/ Over(w)
  BY DEF SplitInv, OneAtATime
<1>1. \A u \in Wake : Moves(u)
  BY PostMoves DEF SplitInv
<1>t. post \in [Wake -> PostStates]
  BY DEF SplitInv, SplitTypeOK
\* Only the beginning of an attempt takes its message up again.
<1>2. ASSUME NEW u \in Wake, Over(u), ~Over(u)' PROVE Deliver(u)
  <2>1. post[u] = "none" /\ post'[u] # "none" /\ post'[u] # "failed"
    BY <1>1, <1>2 DEF Over, Moves
  <2>2. ASSUME NEW x \in Wake, InProcess(x) \/ Handle(x) \/ Answer(x) \/ RefusalArrives(x)
                                 \/ ConnectionFails(x)
        PROVE  FALSE
    BY <1>t, <2>1, <2>2 DEF InProcess, Handle, Answer, RefusalArrives, ConnectionFails, splitVars
  <2>3. ~PluginStep /\ ~CloseChannel /\ ~ShutDown /\ ~SessionEnds /\ ~SessionStarts /\ ~UNCHANGED allVars
    BY <2>1 DEF PluginStep, CloseChannel, ShutDown, SessionEnds, SessionStarts, allVars, splitVars
  <2>4. ~BridgeEnds
    BY <1>t, <2>1 DEF BridgeEnds, InFlight
  <2>5. ASSUME NEW x \in Wake, Deliver(x) PROVE x = u
    BY <1>t, <2>1, <2>5 DEF Deliver
  <2> QED BY <2>2, <2>3, <2>4, <2>5 DEF SplitNext
<1>3. ASSUME NEW u \in Wake, NEW x \in Wake, u # x, MessageOf[u] = MessageOf[x], Deliver(u)
      PROVE  Over(x)'
  <2>1. x \in Attempts(u)
    BY <1>3 DEF Attempts
  <2> QED BY <1>t, <1>3, <2>1 DEF Deliver, Over
<1> QED BY <1>0, <1>2, <1>3

LEMMA NextSplitInv == SplitInv /\ [SplitNext]_allVars => SplitInv'
BY NotifierKept, NextSplitTyped, NextSessions, NextRequests, NextOneAtATime DEF SplitInv

LEMMA SplitInvHolds == SplitSpec => []SplitInv
BY InitSplitInv, NextSplitInv, PTL DEF SplitSpec

---------------------------------------------------------------------------
\* Through every end and start of a session or of a bridge, the requests and the
\* processes keep their types, and without the split no request is ever posted.
THEOREM SplitTypeCorrect == SplitSpec => []SplitTypeOK
<1>1. SplitInv => SplitTypeOK
  BY DEF SplitInv
<1> QED BY <1>1, SplitInvHolds, PTL

\* A session that ends with calls under way leaves the notifier's state well typed, and
\* the batch of the next one bounded.
THEOREM SplitNotifierTypeCorrect == SplitSpec => []TypeOK
<1>1. SplitInv => TypeOK
  BY DEF SplitInv, NotifierInv, FateInv, Typed, SmallBatch, Pending, TypeOK
<1> QED BY <1>1, SplitInvHolds, PTL

\* Behind the /wake server as in one process, a call is ok only if the push that stands
\* for it was written, across the ends of sessions.
THEOREM SplitCallersGetPushFate == SplitSpec => []ResultIsPushFate
<1>1. SplitInv => ResultIsPushFate
  BY DEF SplitInv, NotifierInv, FateInv, HasFate, ResultIsPushFate
<1> QED BY <1>1, SplitInvHolds, PTL

\* The ok:true invariant of the split topology: whatever breaks or ends between them,
\* what the bridge acknowledges to the SDK has entered the context of a session that
\* loaded the channel, if it was pushed itself.
THEOREM AcknowledgedIsNoticed == SplitSpec => []BridgeOkMeansNoticed
<1>1. SplitInv => BridgeOkMeansNoticed
  BY DEF SplitInv, NotifierInv, NoticedInv, PushedOkMeansNoticed, Acknowledged, BridgeOkMeansNoticed
<1> QED BY <1>1, SplitInvHolds, PTL

\* A message is written into a session twice only when the answer to one of the two
\* attempts was lost, or a bridge ended before it noted it.
THEOREM AgainOnlyIfUnanswered == SplitSpec => []ShownAgainOnlyIfUnanswered
<1>1. SplitInv => ShownAgainOnlyIfUnanswered
  <2> SUFFICES ASSUME SplitInv, NEW v \in Wake, NEW w \in Wake, split, v # w,
                      MessageOf[v] = MessageOf[w], push[v] = "written", push[w] = "written"
               PROVE  {v, w} \cap (unanswered \cup forgotten) # {}
    BY DEF ShownAgainOnlyIfUnanswered
  <2>1. \A u \in {v, w} : post[u] \in {"handling", "ok"} \/ u \in unanswered
    BY DEF SplitInv, WrittenIsKnown
  <2>2. Over(v) \/ Over(w)
    BY DEF SplitInv, OneAtATime
  <2> QED BY <2>1, <2>2 DEF Over
<1> QED BY <1>1, SplitInvHolds, PTL

\* So has what the notifier itself answers ok to, in any of the sessions.
THEOREM SplitPushedAreNoticed == SplitSpec => []PushedOkMeansNoticed
<1>1. SplitInv => PushedOkMeansNoticed
  BY DEF SplitInv, NotifierInv, NoticedInv
<1> QED BY <1>1, SplitInvHolds, PTL
=============================================================================
