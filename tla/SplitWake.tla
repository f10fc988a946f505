----------------------------- MODULE SplitWake -----------------------------
(***************************************************************************)
(* The split topology: a resident bridge process (src/src/bridge.js) posts *)
(* its wakes over HTTP to the /wake server (src/src/wake-server.js) of the *)
(* Claude Code session's plugin process, whose notifier and channel are    *)
(* module WakeNotifier.  Each process may end and start again beside the   *)
(* other; connections break before, while and after a request is served.   *)
(*                                                                         *)
(* A wake is one attempt to deliver a message: one call of deliver(), and  *)
(* with the split one POST.  The SDK makes the next attempt only when the  *)
(* previous one has returned, and none after an ok (module InboxDelivery). *)
(* Without the split, deliver() calls the notifier itself.                 *)
(***************************************************************************)
EXTENDS WakeNotifier

CONSTANTS
  MessageOf,    \* the message of each attempt
  Blank,        \* attempts whose message may have no text and no attachment
  MaxSessions   \* bound: sessions one after the other

ASSUME SplitAssumption == Blank \subseteq Wake \ Malformed /\ MaxSessions \in Nat \ {0}

VARIABLES
  split,       \* CLAUDE_OPENMAX_MODE=channel-only, with a bridge process beside it
  session,     \* the plugin process: "up", "closing" (the server accepts no more), "down"
  turnedDown,  \* the attempts whose request the server refuses
  post,        \* the state of each POST /wake, as its caller sees it
  unanswered,  \* attempts whose handling began and whose answer did not arrive
  forgotten,   \* acknowledged attempts that a later bridge may know nothing of
  sessions

splitVars == <<split, session, turnedDown, post, unanswered, forgotten, sessions>>
allVars == <<vars, splitVars>>

\* "sent": on its way; "handling": in the server's handler; "refused": a 4xx is
\* on its way back; "ok" and "failed": what deliver() returned in the bridge.
InFlight == {"sent", "handling", "refused"}
PostStates == InFlight \cup {"none", "ok", "failed"}

SplitTypeOK ==
  /\ split \in BOOLEAN /\ session \in {"up", "closing", "down"}
  /\ turnedDown \subseteq Wake
  /\ post \in [Wake -> PostStates] /\ unanswered \subseteq Wake
  /\ sessions \in 1 .. MaxSessions
  /\ forgotten \subseteq Wake
  /\ ~split => \A w \in Wake : post[w] = "none"

\* The server refuses every request when its wake token is not the bridge's, and
\* else those with an empty preview.  (No server, no refusal.)
SplitInit ==
  /\ Init
  /\ split \in BOOLEAN
  /\ turnedDown \in IF split THEN {Wake} \cup SUBSET Blank ELSE {{}}
  /\ session = "up" /\ sessions = 1
  /\ post = [w \in Wake |-> "none"] /\ unanswered = {} /\ forgotten = {}

Attempts(w) == {v \in Wake : MessageOf[v] = MessageOf[w]}

---------------------------------------------------------------------------
(* The bridge process.                                                     *)

\* deliver(): a message without ids fails at once; otherwise its request is sent.
\* The deduper lets no second attempt begin beside another, or after an ok that
\* this process or the ledger remembers.
Deliver(w) ==
  /\ split /\ post[w] = "none"
  /\ \A v \in Attempts(w) : post[v] \in {"none", "failed"} \/ v \in forgotten
  /\ post' = [post EXCEPT ![w] = IF w \in Malformed THEN "failed" ELSE "sent"]
  /\ UNCHANGED <<vars, split, session, turnedDown, unanswered, forgotten, sessions>>

\* Mutant: an answer without ok:true is taken for one.
Outcome_AnyBody(w) == IF call[w] \in {"ok", "failed"} THEN "ok" ELSE "handling"

\* Mutant: the handler answers with what it has not awaited.
Outcome_NotAwaited(w) == call[w]

\* Mutant: an answer without a runtimeSession is no success.
Outcome_Session(w) == IF call[w] \in {"ok", "failed"} THEN "failed" ELSE "handling"

\* The handler answers once the notifier has; only ok:true in a 2xx is a success.
Outcome(w) == IF call[w] \in {"ok", "failed"} THEN call[w] ELSE "handling"

\* The answer to a handled request arrives.
Answer(w) ==
  /\ post[w] = "handling" /\ w \notin unanswered /\ Outcome(w) # "handling"
  /\ post' = [post EXCEPT ![w] = Outcome(w)]
  /\ UNCHANGED <<vars, split, session, turnedDown, unanswered, forgotten, sessions>>

\* A 400 or a 401 arrives.
RefusalArrives(w) ==
  /\ post[w] = "refused"
  /\ post' = [post EXCEPT ![w] = "failed"]
  /\ UNCHANGED <<vars, split, session, turnedDown, unanswered, forgotten, sessions>>

\* The connection is refused, breaks or times out: fetch rejects.  A handler that
\* has begun goes on.
ConnectionFails(w) ==
  /\ post[w] \in {"sent", "handling"}
  /\ post' = [post EXCEPT ![w] = "failed"]
  /\ unanswered' = IF post[w] = "handling" THEN unanswered \cup {w} ELSE unanswered
  /\ UNCHANGED <<vars, split, session, turnedDown, forgotten, sessions>>

\* Stopped or killed: the requests under way end with the process, not with their
\* handlers.  Any acknowledgement may not have been noted down yet (when it has is
\* InboxDelivery's subject).  The next bridge process starts with the same endpoint
\* and wake token, sooner or later: meanwhile nothing is delivered.
BridgeEnds ==
  /\ split
  /\ post' = [w \in Wake |-> IF post[w] \in InFlight THEN "failed" ELSE post[w]]
  /\ unanswered' = unanswered \cup {w \in Wake : post[w] = "handling"}
  /\ forgotten' = forgotten \cup {w \in Wake : post[w] = "ok"}
  /\ UNCHANGED <<vars, split, session, turnedDown, sessions>>

---------------------------------------------------------------------------
(* The session's plugin process.                                           *)

\* The wake token, and validateWakeRequest.
Valid(w) == w \notin turnedDown

\* A 401 or a 400, or the notifier is called.
Handle(w) ==
  /\ post[w] = "sent" /\ session = "up"
  /\ IF Valid(w)
     THEN /\ Lead(w) \/ Merge(w)
          /\ post' = [post EXCEPT ![w] = "handling"]
     ELSE /\ post' = [post EXCEPT ![w] = "refused"]
          /\ UNCHANGED vars
  /\ UNCHANGED <<split, session, turnedDown, unanswered, forgotten, sessions>>

\* The notifier and the channel go on by themselves.
PluginStep ==
  /\ session # "down"
  /\ CloseWindow \/ Connect \/ DisableDelivery \/ \E w \in Wake : PushSettles(w)
  /\ UNCHANGED splitVars

\* shutdown: the server closes, which waits for the requests it has accepted, and
\* then the channel does.
ShutDown ==
  /\ split /\ session = "up" /\ session' = "closing"
  /\ UNCHANGED <<vars, split, turnedDown, post, unanswered, forgotten, sessions>>

CloseChannel ==
  /\ split => session = "closing" /\ \A w \in Wake : post[w] # "handling"
  /\ Close
  /\ UNCHANGED splitVars

\* The plugin process ends, after its shutdown or at any time with its session,
\* and with it the calls it had not answered.  A write under way may have got
\* through.
SessionEnds ==
  /\ split /\ session # "down" /\ session' = "down"
  /\ transport' = "closed" /\ window' = NoWake
  /\ call' = [w \in Wake |-> IF call[w] \in {"leading", "pending", "joined"} THEN "idle" ELSE call[w]]
  /\ push' = [w \in Wake |-> IF push[w] = "inflight" THEN "broken" ELSE push[w]]
  /\ unanswered' = unanswered \cup {w \in Wake : post[w] = "handling"}
  /\ noticed' \in {noticed, noticed \cup {w \in Wake : loaded /\ push[w] = "inflight"}}
  /\ UNCHANGED <<loaded, enabled, cover, split, turnedDown, post, forgotten, sessions>>

\* A new session, which may or may not load the channel and get the lock.
SessionStarts ==
  /\ session = "down" /\ sessions < MaxSessions
  /\ session' = "up" /\ sessions' = sessions + 1 /\ transport' = "new"
  /\ loaded' \in BOOLEAN /\ enabled' \in {FALSE, loaded'}
  /\ UNCHANGED <<call, push, window, cover, noticed, split, turnedDown, post, unanswered,
                 forgotten>>

\* Without the split, deliver() is Reject, Lead or Merge.
InProcess(w) == ~split /\ (Reject(w) \/ Lead(w) \/ Merge(w)) /\ UNCHANGED splitVars

SplitNext ==
  \/ \E w \in Wake : \/ InProcess(w) \/ Deliver(w) \/ Handle(w) \/ Answer(w)
                     \/ RefusalArrives(w) \/ ConnectionFails(w)
  \/ PluginStep \/ ShutDown \/ CloseChannel \/ SessionEnds \/ SessionStarts
  \/ BridgeEnds

SplitSpec == SplitInit /\ [][SplitNext]_allVars

\* Nobody answers: the server has closed, or the process that had the request is
\* gone.
Unserved(w) ==
  /\ w \in unanswered \/ (session # "up" /\ post[w] = "sent")
  /\ ConnectionFails(w)

\* Timers fire, writes settle, a running server handles and answers, and a
\* connection to a closed one fails.  Nothing has to be delivered, no session has
\* to start or end, and no request in a live server's hands has to time out.
SplitFairSpec ==
  /\ SplitSpec
  /\ WF_allVars(CloseWindow /\ UNCHANGED splitVars)
  /\ \A w \in Wake :
       /\ WF_allVars(PushSettles(w) /\ UNCHANGED splitVars)
       /\ WF_allVars(Handle(w)) /\ WF_allVars(Answer(w))
       /\ WF_allVars(RefusalArrives(w)) /\ WF_allVars(Unserved(w))

---------------------------------------------------------------------------
\* "ok:true is returned to the SDK only when that POST comes back 2xx {ok:true}"
\* (bridge.js), and the server says so only after the notifier resolved: across
\* broken connections, shutdowns and new sessions, what the bridge acknowledges
\* has entered a session's context, if it was pushed itself.
BridgeOkMeansNoticed ==
  \A w \in Wake : post[w] = "ok" /\ push[w] # "none" => w \in noticed

\* At least once, and again only when an answer or its record was lost: two
\* attempts at one message are both written into a session only if the answer to
\* one of them did not reach the bridge, or a bridge ended before it noted it.
ShownAgainOnlyIfUnanswered ==
  \A v, w \in Wake :
    /\ split /\ v # w /\ MessageOf[v] = MessageOf[w]
    /\ push[v] = "written" /\ push[w] = "written"
    => {v, w} \cap (unanswered \cup forgotten) # {}

\* Nobody is left waiting: every attempt comes to a result, in every order of
\* arrivals, timer, full batches and settling writes, and across the ends of
\* connections and sessions; or its message would stay reserved for ever.
EveryAttemptSettles ==
  \A w \in Wake :
    post[w] # "none" \/ call[w] # "idle" ~>
      post[w] \in {"ok", "failed"} \/ (~split /\ call[w] \in {"ok", "failed"})
=============================================================================
