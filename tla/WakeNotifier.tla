--------------------------- MODULE WakeNotifier ---------------------------
(***************************************************************************)
(* From an inbound message to the session's context inside one process:    *)
(* createInboundDelivery (src/src/inbound-delivery.js) calls the           *)
(* DebouncedWakeNotifier (src/src/notifier.js), which calls                *)
(* ClaudeChannel.notifyWake (src/src/channel.js), which writes an MCP      *)
(* notification.  A wake is one call of deliver(); a redelivery of the     *)
(* same message is another wake.                                           *)
(*                                                                         *)
(* JavaScript runs one handler at a time, so an action is the code between *)
(* two awaits with the promise reactions it triggers.                      *)
(***************************************************************************)
EXTENDS Naturals, FiniteSets

CONSTANTS
  Wake,        \* calls of deliver()
  Malformed,   \* those deriveWakeRequest cannot make a request of
  NoWake,
  Debounce,    \* is CLAUDE_OPENMAX_DEBOUNCE_MS positive?
  MaxBatch     \* maxBatchSize

ASSUME ConstAssumption ==
  /\ IsFiniteSet(Wake) /\ Malformed \subseteq Wake /\ NoWake \notin Wake
  /\ Debounce \in BOOLEAN /\ MaxBatch \in Nat \ {0}

VARIABLES
  loaded,      \* did Claude Code load the channel in this session?
  transport,   \* channel: the MCP transport
  enabled,     \* channel: setDeliveryEnabled
  call,        \* the state of each deliver() call; "ok" is a WakeResult ok:true
  push,        \* the notification each wake leads, if it leads one
  window,      \* the wake leading the open coalescing window, or NoWake
  cover,       \* the leader whose push decides a merged wake's result
  noticed      \* wakes since whose arrival a notice reached the session

vars == <<loaded, transport, enabled, call, push, window, cover, noticed>>

CallStates == {"idle", "leading", "pending", "joined", "ok", "failed"}
PushStates == {"none", "inflight", "written", "broken"}

TypeOK ==
  /\ loaded \in BOOLEAN /\ enabled \in BOOLEAN
  /\ transport \in {"new", "open", "closed"}
  /\ call \in [Wake -> CallStates]
  /\ push \in [Wake -> PushStates]
  /\ window \in Wake \cup {NoWake}
  /\ cover \in [Wake -> Wake \cup {NoWake}]
  /\ noticed \subseteq Wake
  /\ Cardinality({w \in Wake : call[w] = "pending"}) < MaxBatch

\* main enables deliveries only for the role decideChannelRole gives to a
\* channel-active session that holds the lock.
Init ==
  /\ loaded \in BOOLEAN
  /\ enabled \in {FALSE, loaded}
  /\ transport = "new"
  /\ call = [w \in Wake |-> "idle"]
  /\ push = [w \in Wake |-> "none"]
  /\ window = NoWake
  /\ cover = [w \in Wake |-> NoWake]
  /\ noticed = {}

Pending == {w \in Wake : call[w] = "pending"}
Result(fate) == IF fate = "written" THEN "ok" ELSE "failed"

---------------------------------------------------------------------------
(* The channel.                                                            *)

Connect ==
  /\ transport = "new"
  /\ transport' = "open"
  /\ UNCHANGED <<loaded, enabled, call, push, window, cover, noticed>>

Close ==
  /\ transport = "open"
  /\ transport' = "closed"
  /\ UNCHANGED <<loaded, enabled, call, push, window, cover, noticed>>

\* No API key came in time: the lock and the deliveries are given up.
DisableDelivery ==
  /\ enabled
  /\ enabled' = FALSE
  /\ UNCHANGED <<loaded, transport, call, push, window, cover, noticed>>

\* Mutant: a session without the channel still writes its notifications.
NotifyWakeFate_NoGate == IF transport = "open" THEN "inflight" ELSE "broken"

\* notifyWake: throws at once when the runtime is unavailable, else a write on
\* the transport is in flight.
NotifyWakeFate == IF transport = "open" /\ enabled THEN "inflight" ELSE "broken"

---------------------------------------------------------------------------
(* deliver() and notify().                                                 *)

\* The result of deliver() is not ok when the message has no wake request.
Reject(w) ==
  /\ call[w] = "idle" /\ w \in Malformed
  /\ call' = [call EXCEPT ![w] = "failed"]
  /\ UNCHANGED <<loaded, transport, enabled, push, window, cover, noticed>>

\* Without debounce, or as the first wake of a window: pushed at once.
Lead(w) ==
  /\ call[w] = "idle" /\ w \notin Malformed
  /\ window = NoWake
  /\ push' = [push EXCEPT ![w] = NotifyWakeFate]
  /\ call' = [call EXCEPT ![w] = IF NotifyWakeFate = "inflight" THEN "leading"
                                 ELSE "failed"]
  /\ window' = IF Debounce THEN w ELSE NoWake
  /\ UNCHANGED <<loaded, transport, enabled, cover, noticed>>

\* Mutant: the window's push is read after it was reset, and awaiting nothing
\* succeeds.
Settle_Forgotten(members) == [w \in Wake |-> IF w \in members THEN "ok" ELSE call[w]]

\* What _closeWindow does to the wakes merged into the window: they get the
\* result of the leading push, now or when it settles.
Settle(members) ==
  [w \in Wake |-> IF w \notin members THEN call[w]
                  ELSE IF push[window] = "inflight" THEN "joined"
                  ELSE Result(push[window])]

CloseWindowOver(members) ==
  /\ call' = Settle(members)
  /\ cover' = [w \in Wake |-> IF w \in members THEN window ELSE cover[w]]
  /\ window' = NoWake

\* Mutant: a full batch waits for the timer, which the flush had cancelled.
MergeFull_Lost(w) ==
  /\ call' = [call EXCEPT ![w] = "pending"]
  /\ window' = NoWake
  /\ UNCHANGED cover

MergeFull(w) == CloseWindowOver(Pending \cup {w})

\* Mutant: the batch is closed one wake too late.
Merge_OffByOne(w) ==
  /\ call[w] = "idle" /\ w \notin Malformed
  /\ window # NoWake
  /\ IF Cardinality(Pending) >= MaxBatch
     THEN MergeFull(w)
     ELSE call' = [call EXCEPT ![w] = "pending"] /\ UNCHANGED <<window, cover>>
  /\ UNCHANGED <<loaded, transport, enabled, push, noticed>>

\* Any later wake of the window waits for it to close; a full batch closes it.
Merge(w) ==
  /\ call[w] = "idle" /\ w \notin Malformed
  /\ window # NoWake
  /\ IF Cardinality(Pending) + 1 >= MaxBatch
     THEN MergeFull(w)
     ELSE call' = [call EXCEPT ![w] = "pending"] /\ UNCHANGED <<window, cover>>
  /\ UNCHANGED <<loaded, transport, enabled, push, noticed>>

\* The debounce timer.
CloseWindow ==
  /\ window # NoWake
  /\ CloseWindowOver(Pending)
  /\ UNCHANGED <<loaded, transport, enabled, push, noticed>>

---------------------------------------------------------------------------
(* The transport settles a write: the leading call and the wakes already   *)
(* merged under it get their result.  A written notice brings the session  *)
(* to read its messages, so it serves every wake that had arrived by then; *)
(* Claude Code drops it silently where the channel is not loaded.          *)

PushResult(l, fate, w) ==
  IF w = l \/ (call[w] = "joined" /\ cover[w] = l) THEN Result(fate) ELSE call[w]

PushSettles(l) ==
  /\ push[l] = "inflight"
  /\ \E fate \in {"written", "broken"} :
       /\ push' = [push EXCEPT ![l] = fate]
       /\ call' = [w \in Wake |-> PushResult(l, fate, w)]
       /\ noticed' = IF fate = "written" /\ loaded
                     THEN noticed \cup {w \in Wake : call[w] \in {"leading", "pending", "joined"}}
                     ELSE noticed
  /\ UNCHANGED <<loaded, transport, enabled, window, cover>>

---------------------------------------------------------------------------
Next ==
  \/ \E w \in Wake : Reject(w) \/ Lead(w) \/ Merge(w) \/ PushSettles(w)
  \/ CloseWindow \/ Connect \/ Close \/ DisableDelivery

Spec == Init /\ [][Next]_vars

---------------------------------------------------------------------------
\* The ok:true invariant (inbound-delivery.js, header comment): a message that
\* is reported ok, and so acknowledged by the SDK, has entered the session's
\* context.  Generously: some notice was written after the message arrived, in a
\* session that sees notices.
OkMeansNoticed == \A w \in Wake : call[w] = "ok" => w \in noticed

\* It holds of every wake that was pushed itself, whatever becomes of the
\* transport, the delivery flag and the window while the write is in flight; so
\* of all of them without debounce.
PushedOkMeansNoticed ==
  \A w \in Wake : call[w] = "ok" /\ push[w] # "none" => w \in noticed

\* Every caller gets the fate of the push that stands for it (notifier.js): a
\* merged wake is ok only if its window's push was written, and a broken push
\* makes every call it stands for retryable.
ResultIsPushFate ==
  \A w \in Wake \ Malformed :
    call[w] \in {"ok", "failed"} =>
      LET l == IF push[w] # "none" THEN w ELSE cover[w]
      IN  l # NoWake /\ push[l] # "inflight" /\ call[w] = Result(push[l])
============================================================================
