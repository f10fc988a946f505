----------------------------- MODULE PolicySync -----------------------------
(***************************************************************************)
(* The two-way reconcile of one org's access policy (src/src/config.js,    *)
(* src/src/policy-sync.js, src/src/owner-sync.js): the block the agent     *)
(* enforces, in memory and config.json, against the copy the workspace     *)
(* server has on record and its settings page edits.                       *)
(*                                                                         *)
(* Passes start from a timer every five minutes and from a debounce after  *)
(* a change; nothing keeps two from overlapping.  A pass captures the      *)
(* local policy, reads the server's copy, reads its own marker, and then   *)
(* uploads, adopts or does nothing; an action is what happens between two  *)
(* awaits.  A pass that returns at once (no member id yet, no usable HTTP  *)
(* client) is one that does not start.                                     *)
(***************************************************************************)
EXTENDS Naturals, Sequences, FiniteSets

CONSTANTS
  Field,         \* what a policy has settings for
  Group,         \* those that say whether a group is allowed; others such as "dm"
  Pass,          \* the passes that may overlap
  MaxUI,         \* bound: edits in the settings page
  MaxLocal,      \* bound: edits by the agent's own access tools
  Interrupted,   \* may the agent crash, or its WebSocket lose events?
  LateWrites,    \* may a report that timed out still reach the server?
  Rejoins        \* may the agent be added again to a group it was removed from?

ASSUME ConstAssumption ==
  /\ Field # {} /\ Group \subseteq Field /\ IsFiniteSet(Group) /\ IsFiniteSet(Pass)
  /\ MaxUI \in Nat /\ MaxLocal \in Nat
  /\ {Interrupted, LateWrites, Rejoins} \subseteq BOOLEAN

\* What the server can see of an access block.  Two spellings the fingerprint
\* equates are one policy here.
Policy == [Field -> {0, 1}]
Default == [f \in Field |-> 0]
NoPolicy == [f \in Field |-> 2]

VARIABLES
  up,        \* does the agent run?
  server,    \* the server's copy: updated_at (0: no policy row) and policy
  copy,      \* whose copy it is: "ours" (written or taken up), or an edit that
             \* "fresh" or "raced" (with a pass) no pass has taken up
  member,    \* the groups the agent is still a member of
  access,    \* org.access, persisted with every change
  marker,    \* disk: policy/<org>.json, the policy and updated_at last settled
  timer,     \* is the debounce timer armed?
  pass,      \* the passes under way
  late,      \* a timed-out report that may still arrive
  events,    \* config events on the WebSocket
  uiEdits, localEdits

vars == <<up, server, copy, member, access, marker, timer, pass, late, events,
          uiEdits, localEdits>>

\* A stamp is told apart from other stamps and from 0, never ordered: it can be
\* used again when nobody remembers it.  (The server, the marker and two in each
\* pass are remembered, and one is free.)
Stamp == 0 .. 2 * Cardinality(Pass) + 3
Copy == [at : Stamp, pol : Policy]
Marker == [fp : Policy \cup {NoPolicy}, at : Stamp]
NoMarker == [fp |-> NoPolicy, at |-> 0]

\* drop: the groups a retry leaves out.
Idle == [pc |-> "idle", local |-> Default, snapshot |-> [at |-> 0, pol |-> Default],
         mark |-> NoMarker, drop |-> {}]

TypeOK ==
  /\ up \in BOOLEAN /\ server \in Copy /\ copy \in {"ours", "fresh", "raced"} /\ member \subseteq Group
  /\ access \in Policy /\ marker \in Marker /\ timer \in BOOLEAN
  /\ pass \in [Pass -> [pc : {"idle", "fetch", "decide", "report", "retry", "confirm", "mark"},
                        local : Policy, snapshot : Copy, mark : Marker, drop : SUBSET Group]]
  /\ late \in Policy \cup {NoPolicy}
  /\ events \in Seq(Field \X {0, 1})
  /\ uiEdits \in 0 .. MaxUI /\ localEdits \in 0 .. MaxLocal

\* A server with or without a policy row; without one, groups may have been
\* left by another table.
Init ==
  /\ up = TRUE
  /\ \E pol \in Policy, at \in {0, 1} :
       /\ server = [at |-> at, pol |-> pol]
       /\ at = 0 => \A f \in Field \ Group : pol[f] = 0
  /\ copy = IF server.at = 0 THEN "ours" ELSE "fresh"
  /\ member \in SUBSET Group /\ \A g \in Group : server.pol[g] = 1 => g \in member
  /\ access \in Policy /\ marker = NoMarker /\ timer = FALSE
  /\ pass = [r \in Pass |-> Idle] /\ late = NoPolicy
  /\ events = <<>> /\ uiEdits = 0 /\ localEdits = 0

\* A time at which nothing has happened yet.
NewStamp == CHOOSE t \in Stamp \ {0} :
  t \notin {server.at, marker.at} \cup {pass[r].snapshot.at : r \in Pass}
                                  \cup {pass[r].mark.at : r \in Pass}

\* The pass goes on to pc; m is the marker it will write, with the policy it
\* captured and the best updated_at it knows.
Goto(r, pc, m) == pass' = [pass EXCEPT ![r] = [Idle EXCEPT !.pc = pc, !.mark = m]]
Finish(r) == pass' = [pass EXCEPT ![r] = Idle]

\* The server takes a report.
Write(pol) == server' = [at |-> NewStamp, pol |-> pol] /\ copy' = "ours"

\* The server refuses a report as a whole for a group that is not the agent's.
RefusedGroups(pol) == {g \in Group \ member : pol[g] = 1}
Refused(pol) == RefusedGroups(pol) # {}

\* withoutGroups: the report without the groups the server's error named.
WithoutGroups(pol, groups) == [f \in Field |-> IF f \in groups THEN 0 ELSE pol[f]]

---------------------------------------------------------------------------
(* Edits.                                                                  *)

\* From its read of the server to its upload and the read that confirms it, a
\* pass does not see an edit.
InWindow == late # NoPolicy \/ \E r \in Pass : pass[r].pc \in {"decide", "report", "retry", "confirm"}

\* One write of the settings page, whose event goes to a connected agent.
UIEdit(f) ==
  /\ uiEdits < MaxUI /\ uiEdits' = uiEdits + 1
  /\ LET v == 1 - server.pol[f]
     IN  /\ f \in Group /\ v = 1 => f \in member
         /\ server' = [at |-> NewStamp, pol |-> [server.pol EXCEPT ![f] = v]]
         /\ events' = IF up THEN Append(events, <<f, v>>) ELSE events
  /\ copy' = IF InWindow THEN "raced" ELSE "fresh"
  /\ UNCHANGED <<up, member, access, marker, timer, pass, late, localEdits>>

\* onConfigEvent: applied to the local block, and a pass is due.
ConfigEvent ==
  /\ events # <<>>
  /\ access' = [access EXCEPT ![Head(events)[1]] = Head(events)[2]]
  /\ events' = Tail(events)
  /\ timer' = TRUE
  /\ UNCHANGED <<up, server, copy, member, marker, pass, late, uiEdits, localEdits>>

\* updateConfig, by the dm_policy, dm_allow and dm_revoke tools.
LocalEdit(f) ==
  /\ up /\ localEdits < MaxLocal /\ localEdits' = localEdits + 1
  /\ access' = [access EXCEPT ![f] = 1 - @]
  /\ timer' = TRUE
  /\ UNCHANGED <<up, server, copy, member, marker, pass, late, events, uiEdits>>

\* The agent is removed from a group, or added to it again.
LeaveGroup(g) ==
  /\ g \in member /\ member' = member \ {g}
  /\ UNCHANGED <<up, server, copy, access, marker, timer, pass, late, events, uiEdits, localEdits>>

JoinGroup(g) ==
  /\ Rejoins /\ g \in Group \ member /\ member' = member \cup {g}
  /\ UNCHANGED <<up, server, copy, access, marker, timer, pass, late, events, uiEdits, localEdits>>

\* The connection drops what it carried.
Disconnect ==
  /\ Interrupted /\ events # <<>>
  /\ events' = <<>>
  /\ UNCHANGED <<up, server, copy, member, access, marker, timer, pass, late, uiEdits, localEdits>>

\* A crash ends every pass; config.json and the marker stay.
Crash ==
  /\ Interrupted /\ up
  /\ up' = FALSE
  /\ events' = <<>> /\ timer' = FALSE /\ pass' = [r \in Pass |-> Idle]
  /\ UNCHANGED <<server, copy, member, access, marker, late, uiEdits, localEdits>>

Restart ==
  /\ ~up /\ up' = TRUE
  /\ UNCHANGED <<server, copy, member, access, marker, timer, pass, late, events, uiEdits, localEdits>>

---------------------------------------------------------------------------
(* reconcilePolicyWithServer.                                              *)

Begin(r) ==
  /\ up /\ pass[r].pc = "idle"
  /\ pass' = [pass EXCEPT ![r].pc = "fetch", ![r].local = access]

\* startOwnerSync's tick.
PeriodicPass(r) ==
  /\ Begin(r)
  /\ UNCHANGED <<up, server, copy, member, access, marker, timer, late, events, uiEdits, localEdits>>

DebouncedPass(r) ==
  /\ timer /\ timer' = FALSE
  /\ Begin(r)
  /\ UNCHANGED <<up, server, copy, member, access, marker, late, events, uiEdits, localEdits>>

\* Pull first: nothing is uploaded when the read fails.
Fetch(r) ==
  /\ pass[r].pc = "fetch"
  /\ pass' = [pass EXCEPT ![r].pc = "decide", ![r].snapshot = server]
  /\ UNCHANGED <<up, server, copy, member, access, marker, timer, late, events, uiEdits, localEdits>>

FetchFails(r) ==
  /\ pass[r].pc = "fetch"
  /\ Finish(r)
  /\ UNCHANGED <<up, server, copy, member, access, marker, timer, late, events, uiEdits, localEdits>>

\* Mutant: reports what was last reported.
GoReport_Marker(r, snapshot) == Goto(r, "report", [fp |-> marker.fp, at |-> snapshot.at])

GoReport(r, snapshot) == Goto(r, "report", [fp |-> pass[r].local, at |-> snapshot.at])

\* (1) and (2): no policy row.  Seed it, unless groups exist without one.
DecideSeed(r, snapshot) ==
  /\ snapshot.at = 0
  /\ IF \A g \in Group : snapshot.pol[g] = 0 THEN GoReport(r, snapshot) ELSE Finish(r)
  /\ UNCHANGED <<access, copy>>

\* Mutant: whatever the marker says, a local change is uploaded first.
DecideAdopt_LocalFirst(r, snapshot) ==
  /\ snapshot.at # 0 /\ snapshot.at # marker.at
  /\ GoReport(r, snapshot)
  /\ UNCHANGED <<access, copy>>

\* (3): the server's copy has moved, and wins.
DecideAdopt(r, snapshot) ==
  /\ snapshot.at # 0 /\ snapshot.at # marker.at
  /\ access' = IF snapshot.pol # pass[r].local THEN snapshot.pol ELSE access
  /\ copy' = IF snapshot.at = server.at THEN "ours" ELSE copy
  /\ Goto(r, "mark", [fp |-> snapshot.pol, at |-> snapshot.at])

\* (4) and (5): it has not; a local change is uploaded.
DecideReport(r, snapshot) ==
  /\ snapshot.at # 0 /\ snapshot.at = marker.at
  /\ IF pass[r].local # marker.fp THEN GoReport(r, snapshot) ELSE Finish(r)
  /\ UNCHANGED <<access, copy>>

Decide(r) ==
  /\ pass[r].pc = "decide"
  /\ \/ DecideSeed(r, pass[r].snapshot)
     \/ DecideAdopt(r, pass[r].snapshot)
     \/ DecideReport(r, pass[r].snapshot)
  /\ UNCHANGED <<up, server, member, marker, timer, late, events, uiEdits, localEdits>>

\* The upload, or its one retry without the groups the error named.
Payload(r) == WithoutGroups(pass[r].mark.fp, pass[r].drop)

Report(r) ==
  /\ pass[r].pc \in {"report", "retry"} /\ ~Refused(Payload(r))
  /\ Write(Payload(r))
  /\ Goto(r, "confirm", pass[r].mark)
  /\ UNCHANGED <<up, member, access, marker, timer, late, events, uiEdits, localEdits>>

\* Mutant: the marker gets the fingerprint of what was sent, not of what is local.
ReportRefused_MarksSent(r) ==
  /\ pass[r].pc = "report" /\ Refused(Payload(r))
  /\ \E named \in SUBSET RefusedGroups(Payload(r)) \ {{}} :
       Goto(r, "retry", [pass[r].mark EXCEPT !.fp = WithoutGroups(@, named)])
  /\ UNCHANGED <<up, server, copy, member, access, marker, timer, late, events, uiEdits, localEdits>>

\* staleGroupIdsFromError: the error names the group it failed for (one at least).
ReportRefused(r) ==
  /\ pass[r].pc = "report"
  /\ \E named \in SUBSET RefusedGroups(Payload(r)) \ {{}} :
       pass' = [pass EXCEPT ![r].pc = "retry", ![r].drop = named]
  /\ UNCHANGED <<up, server, copy, member, access, marker, timer, late, events, uiEdits, localEdits>>

\* The retry is refused too, for another group: the pass gives up, without a marker.
RetryRefused(r) ==
  /\ pass[r].pc = "retry" /\ Refused(Payload(r))
  /\ Finish(r)
  /\ UNCHANGED <<up, server, copy, member, access, marker, timer, late, events, uiEdits, localEdits>>

\* The upload fails, before or after the server took it, or times out and may
\* reach the server later.
ReportFails(r) ==
  /\ pass[r].pc \in {"report", "retry"}
  /\ Finish(r)
  /\ \/ UNCHANGED <<server, copy, late>>
     \/ ~Refused(Payload(r)) /\ Write(Payload(r)) /\ UNCHANGED late
     \/ /\ LateWrites /\ late = NoPolicy /\ late' = Payload(r)
        /\ UNCHANGED <<server, copy>>
  /\ UNCHANGED <<up, member, access, marker, timer, events, uiEdits, localEdits>>

LateReport ==
  /\ late # NoPolicy /\ late' = NoPolicy
  /\ IF Refused(late) THEN UNCHANGED <<server, copy>> ELSE Write(late)
  /\ UNCHANGED <<up, member, access, marker, timer, pass, events, uiEdits, localEdits>>

\* The second read is for the time of our own report; it may fail.
Confirm(r) ==
  /\ pass[r].pc = "confirm"
  /\ \E at \in {server.at, pass[r].mark.at} :
       Goto(r, "mark", [pass[r].mark EXCEPT !.at = at])
  /\ UNCHANGED <<up, server, copy, member, access, marker, timer, late, events, uiEdits, localEdits>>

\* Mutant: the fingerprint is taken when the marker is written.
MarkerWritten_FingerprintNow(r) ==
  /\ pass[r].pc = "mark"
  /\ marker' = [fp |-> access, at |-> pass[r].mark.at]
  /\ Finish(r)
  /\ UNCHANGED <<up, server, copy, member, access, timer, late, events, uiEdits, localEdits>>

\* writePolicyMarker; its failure is only logged.
MarkerWritten(r) ==
  /\ pass[r].pc = "mark"
  /\ marker' = pass[r].mark
  /\ Finish(r)
  /\ UNCHANGED <<up, server, copy, member, access, timer, late, events, uiEdits, localEdits>>

MarkerFails(r) ==
  /\ pass[r].pc = "mark"
  /\ Finish(r)
  /\ UNCHANGED <<up, server, copy, member, access, marker, timer, late, events, uiEdits, localEdits>>

---------------------------------------------------------------------------
PassStep(r) ==
  \/ PeriodicPass(r) \/ DebouncedPass(r) \/ Fetch(r) \/ FetchFails(r) \/ Decide(r)
  \/ Report(r) \/ ReportRefused(r) \/ RetryRefused(r) \/ ReportFails(r) \/ Confirm(r)
  \/ MarkerWritten(r) \/ MarkerFails(r)

Next ==
  \/ \E r \in Pass : PassStep(r)
  \/ \E f \in Field : UIEdit(f) \/ LocalEdit(f)
  \/ \E g \in Group : LeaveGroup(g) \/ JoinGroup(g)
  \/ ConfigEvent \/ LateReport \/ Disconnect \/ Crash \/ Restart

Spec == Init /\ [][Next]_vars

\* Timers fire, requests end, what is tried every five minutes succeeds in the
\* end, and the agent stays up.  Nobody has to edit anything.
FairSpec ==
  /\ Spec /\ <>[]up
  /\ WF_vars(ConfigEvent) /\ WF_vars(LateReport)
  /\ \A r \in Pass :
       /\ WF_vars(PeriodicPass(r)) /\ WF_vars(DebouncedPass(r)) /\ SF_vars(Fetch(r))
       /\ WF_vars(Decide(r)) /\ SF_vars(Report(r)) /\ SF_vars(ReportRefused(r))
       /\ WF_vars(RetryRefused(r)) /\ WF_vars(Confirm(r)) /\ SF_vars(MarkerWritten(r))

---------------------------------------------------------------------------
\* "A server copy that moved since we last looked wins" and "we never overwrite
\* a policy we could not read" (config.js, on reconcilePolicyWithServer), as far
\* as pull-first can keep it: an edit is replaced unread only if it was made
\* while a pass (or a report believed lost) was between its read of the server
\* and its last one.  Crashes, lost events, failed requests, lost markers,
\* refused groups and overlapping passes do not widen that window.
ErasureOnlyInWindow == [][copy = "fresh" => copy' # "ours" \/ UNCHANGED server]_vars

\* What agreement is: up to a group the server refuses, and but for group state
\* without a policy row, which is left alone.
Agree ==
  \/ server.pol = access
  \/ Refused(access) /\ server.pol = WithoutGroups(access, RefusedGroups(access))
  \/ server.at = 0 /\ \E g \in Group : server.pol[g] = 1

\* Once edits stop, the two sides agree for good, whatever else is lost (events,
\* markers, requests, the process): five-minute passes that do not overlap bring them
\* together.  But for an edit made while a pass was between its reads; for two refused
\* groups, of which the error names one and the retry fails for the other; and if the
\* agent may return to a group a report was sent without: to the marker that report
\* settled the whole policy, so that nobody sends the rest.
ConvergesUnlessRaced ==
  ~Rejoins => <>[](Agree \/ copy = "raced" \/ Cardinality(RefusedGroups(access)) > 1)

\* And then nothing is uploaded any more: no pass answers its own report.
Quiesces == <>[][UNCHANGED server]_vars
============================================================================
