----------------------------- MODULE PolicyMap -----------------------------
(***************************************************************************)
(* An org's access policy as the agent enforces it (a block of             *)
(* config.json) and as the workspace server stores it, the two conversions *)
(* between them (src/src/policy-sync.js), the config events that change    *)
(* the block (src/src/config.js), and the SDK's gate that reads it.        *)
(*                                                                         *)
(* The lists of a policy are sets here: the fingerprint sorts them.  An    *)
(* absent setting and an absent list are Absent.                           *)
(***************************************************************************)
CONSTANTS
  Member,   \* members that lists can name
  Conv,     \* group conversations
  Star,     \* "*", everybody
  Absent,   \* undefined
  Nobody    \* no owner is bound

ASSUME NoneIsAMember ==
  /\ Star \notin Member /\ Nobody \notin Member
  /\ \A list \in SUBSET (Member \cup {Star}) : Absent # list
  /\ Absent \notin {"open", "allowlist", "owner", "disabled", "smart", "mention", "silent", "typo"}

DmPolicies == {"open", "allowlist", "owner"}
GroupScopes == {"open", "allowlist", "disabled"}
ReportedModes == {"smart", "mention"}

\* "typo" is any mode the server does not know and the gate does not look for.
Entry == [mode : ReportedModes \cup {"silent", "typo", Absent},
          allowFrom : {Absent} \cup SUBSET (Member \cup {Star})]
Groups(E) == UNION {[S -> E] : S \in SUBSET Conv}

Block == [dmPolicy : DmPolicies \cup {Absent}, dmAllowFrom : {Absent} \cup SUBSET Member,
          groupPolicy : GroupScopes \cup {Absent}, groups : Groups(Entry)]

\* The server's rows and allowlist of groups are separate tables.
Row == [mode : ReportedModes, allow_from : SUBSET (Member \cup {Star})]
Snapshot == [dm_policy : DmPolicies, dm_allowlist : SUBSET Member,
             group_scope : GroupScopes, group_allowlist : SUBSET Conv, groups : Groups(Row)]

Or(v, default) == IF v = Absent THEN default ELSE v
Without(f, S) == [c \in DOMAIN f \ S |-> f[c]]
With(f, c, v) == [d \in DOMAIN f \cup {c} |-> IF d = c THEN v ELSE f[d]]

---------------------------------------------------------------------------
(* The conversions.                                                        *)

\* Mutant: `allowFrom || ['*']`, which an empty list does not fall through.
ReportedAllowFrom_Truthy(allowFrom) == Or(allowFrom, {Star})

\* Locally no list and an empty one mean everybody; on the wire that is "*".
ReportedAllowFrom(allowFrom) == IF allowFrom \in {Absent, {}} THEN {Star} ELSE allowFrom

\* Mutant: a group without a mode of its own is not reported.
ReportedMode_Own(entry) == entry.mode

ReportedMode(entry) == Or(entry.mode, "mention")

\* Groups with a mode the server does not take are left out of both tables.
Reported(groups) == {c \in DOMAIN groups : ReportedMode(groups[c]) \in ReportedModes}

BuildReportedPolicy(access) ==
  [dm_policy |-> Or(access.dmPolicy, "owner"),
   dm_allowlist |-> Or(access.dmAllowFrom, {}),
   group_scope |-> Or(access.groupPolicy, "allowlist"),
   group_allowlist |-> Reported(access.groups),
   groups |-> [c \in Reported(access.groups) |->
                 [mode |-> ReportedMode(access.groups[c]),
                  allow_from |-> ReportedAllowFrom(access.groups[c].allowFrom)]]]

DefaultEntry == [mode |-> "mention", allowFrom |-> {Star}]

\* Mutant: a conversation that is only in the allowlist gets no entry.
AdoptedGroups_RowsOnly(snapshot) ==
  [c \in DOMAIN snapshot.groups |->
     [mode |-> snapshot.groups[c].mode, allowFrom |-> snapshot.groups[c].allow_from]]

AdoptedGroups(snapshot) ==
  [c \in DOMAIN snapshot.groups \cup snapshot.group_allowlist |->
     IF c \in DOMAIN snapshot.groups
     THEN [mode |-> snapshot.groups[c].mode,
           allowFrom |-> IF snapshot.groups[c].allow_from = {} THEN {Star}
                         ELSE snapshot.groups[c].allow_from]
     ELSE DefaultEntry]

AccessFromServerPolicy(snapshot) ==
  [dmPolicy |-> snapshot.dm_policy, dmAllowFrom |-> snapshot.dm_allowlist,
   groupPolicy |-> snapshot.group_scope, groups |-> AdoptedGroups(snapshot)]

\* canonical() sorts keys and lists, so two fingerprints are equal when the
\* reported policies are.
AccessFingerprint(access) == BuildReportedPolicy(access)

\* The groups of a report that the text of the server's error names.
StaleGroupIdsFromError(named, payload) == DOMAIN payload.groups \cap named

\* Mutant: the allowlist keeps what the rows have lost.
WithoutGroups_Listed(payload, convIds) ==
  [payload EXCEPT !.groups = Without(@, convIds)]

WithoutGroups(payload, convIds) ==
  [payload EXCEPT !.groups = Without(@, convIds), !.group_allowlist = @ \ convIds]

---------------------------------------------------------------------------
(* applyConfigAccessEvent: one operator per event; what an event does not  *)
(* apply leaves the block as it is.                                        *)

Events ==
  [event : {"dm_policy_changed"}, policy : DmPolicies \cup {"typo"}]
    \cup [event : {"dm_allowlist_changed"}, action : {"add", "remove", "set", "other"},
          member_ids : SUBSET Member]
    \cup [event : {"group_mode_changed"}, mode : ReportedModes \cup {"silent", "typo"},
          conversation_id : Conv]
    \cup [event : {"group_allowfrom_changed"}, conversation_id : Conv,
          allow_from : SUBSET (Member \cup {Star})]
    \cup [event : {"group_scope_changed"}, scope : GroupScopes \cup {"typo"}]
    \cup [event : {"group_allowlist_changed"}, action : {"add", "remove", "set", "other"},
          conversation_ids : SUBSET Conv]

\* Mutant: whatever the event says is taken.
DmPolicyChanged_Unchecked(access, e) == [access EXCEPT !.dmPolicy = e.policy]

DmPolicyChanged(access, e) ==
  IF e.policy \in DmPolicies THEN [access EXCEPT !.dmPolicy = e.policy] ELSE access

\* An event without members is not applied; one with an unknown action leaves an
\* empty list behind where there was none.
DmAllowlistChanged(access, e) ==
  LET list == Or(access.dmAllowFrom, {})
  IN  IF e.member_ids = {} THEN access
      ELSE [access EXCEPT !.dmAllowFrom = CASE e.action = "add" -> list \cup e.member_ids
                                            [] e.action = "remove" -> list \ e.member_ids
                                            [] e.action = "set" -> e.member_ids
                                            [] OTHER -> list]

GroupModeChanged(access, e) ==
  LET old == IF e.conversation_id \in DOMAIN access.groups
             THEN access.groups[e.conversation_id] ELSE DefaultEntry
  IN  CASE e.mode = "silent" -> [access EXCEPT !.groups = Without(@, {e.conversation_id})]
        [] e.mode \in ReportedModes ->
             [access EXCEPT !.groups = With(@, e.conversation_id, [old EXCEPT !.mode = e.mode])]
        [] OTHER -> access

GroupAllowFromChanged(access, e) ==
  LET old == IF e.conversation_id \in DOMAIN access.groups
             THEN access.groups[e.conversation_id] ELSE DefaultEntry
  IN  [access EXCEPT !.groups =
         With(@, e.conversation_id, [old EXCEPT !.allowFrom = e.allow_from])]

GroupScopeChanged(access, e) ==
  IF e.scope \in GroupScopes THEN [access EXCEPT !.groupPolicy = e.scope] ELSE access

GroupAllowlistChanged(access, e) ==
  LET Listed(S) == [c \in S |-> IF c \in DOMAIN access.groups THEN access.groups[c] ELSE DefaultEntry]
      ids == e.conversation_ids
  IN  CASE e.action = "add" -> [access EXCEPT !.groups = Listed(DOMAIN access.groups \cup ids)]
        [] e.action = "remove" -> [access EXCEPT !.groups = Without(@, ids)]
        [] e.action = "set" -> [access EXCEPT !.groups = Listed(ids)]
        [] OTHER -> access

ApplyConfigAccessEvent(access, e) ==
  CASE e.event = "dm_policy_changed" -> DmPolicyChanged(access, e)
    [] e.event = "dm_allowlist_changed" -> DmAllowlistChanged(access, e)
    [] e.event = "group_mode_changed" -> GroupModeChanged(access, e)
    [] e.event = "group_allowfrom_changed" -> GroupAllowFromChanged(access, e)
    [] e.event = "group_scope_changed" -> GroupScopeChanged(access, e)
    [] e.event = "group_allowlist_changed" -> GroupAllowlistChanged(access, e)

---------------------------------------------------------------------------
(* decideInbound: is a message handled?                                    *)

\* A direct message, from an agent of the same owner or not.
DmHandled(access, owner, sender, sibling) ==
  \/ owner # Nobody /\ (sender = owner \/ sibling)
  \/ CASE Or(access.dmPolicy, "owner") = "open" -> TRUE
       [] Or(access.dmPolicy, "owner") = "allowlist" -> sender \in Or(access.dmAllowFrom, {})
       [] OTHER -> owner = Nobody

\* The first direct message binds its sender where nobody is bound and the owner
\* is who may write.
BindsOwner(access, owner) ==
  owner = Nobody /\ Or(access.dmPolicy, "owner") = "owner"

\* A message in a group.
GroupHandled(access, owner, conv, sender, mentioned) ==
  LET scope == Or(access.groupPolicy, "allowlist")
      known == conv \in DOMAIN access.groups
      byOwner == owner # Nobody /\ sender = owner
  IN  /\ scope # "disabled"
      /\ scope = "allowlist" => known \/ (byOwner /\ mentioned)
      /\ (known => Or(access.groups[conv].mode, "mention") = "mention") => mentioned
      /\ known /\ ~byOwner =>
           \/ access.groups[conv].allowFrom \in {Absent, {}}
           \/ access.groups[conv].allowFrom \cap {Star, sender} # {}
=============================================================================
