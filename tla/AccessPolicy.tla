---------------------------- MODULE AccessPolicy ----------------------------
(***************************************************************************)
(* One org's access block over its life: edited by hand, changed by config *)
(* events, adopted from the server and reported to it.  What a policy      *)
(* means is stated independently, as the settings page shows it, and       *)
(* compared with what the SDK's gate makes of the local block.  When the   *)
(* passes run, and what they overwrite, is module PolicySync, which takes  *)
(* from here that the reported policy is all there is to tell blocks apart.*)
(***************************************************************************)
EXTENDS PolicyMap

CONSTANTS
  Stranger,    \* a sender no list names
  NoSnapshot

ASSUME StrangerIsSomebody == Stranger \notin Member \cup {Star, Nobody}

VARIABLES
  access,   \* org.access
  shown     \* the server's copy when a pass has just brought the two in line

vars == <<access, shown>>

TypeOK == access \in Block /\ shown \in Snapshot \cup {NoSnapshot}

\* A hand-edited block leaves any setting out.
Init == access \in Block /\ shown = NoSnapshot

\* onConfigEvent.
ConfigEvent(e) ==
  /\ access' = ApplyConfigAccessEvent(access, e)
  /\ shown' = NoSnapshot

\* Branch (3) of reconcilePolicyWithServer: a block with the same fingerprint is
\* left as it is spelled.
AdoptServer(snapshot) ==
  /\ access' = IF AccessFingerprint(AccessFromServerPolicy(snapshot)) # AccessFingerprint(access)
               THEN AccessFromServerPolicy(snapshot)
               ELSE access
  /\ shown' = snapshot

\* reportLocalPolicy, with the retry that leaves out the groups the server names.
Report(named) ==
  /\ LET payload == BuildReportedPolicy(access)
     IN  shown' = WithoutGroups(payload, StaleGroupIdsFromError(named, payload))
  /\ UNCHANGED access

Next ==
  \/ \E e \in Events : ConfigEvent(e)
  \/ \E snapshot \in Snapshot : AdoptServer(snapshot)
  \/ \E named \in SUBSET Conv : Report(named)

Spec == Init /\ [][Next]_vars

---------------------------------------------------------------------------
(* What the server's copy says, in the terms of the settings page.         *)

ListedGroups(snapshot) == DOMAIN snapshot.groups \cup snapshot.group_allowlist

PageAnswersDm(snapshot, owner, sender) ==
  \/ sender = owner
  \/ snapshot.dm_policy = "open"
  \/ snapshot.dm_policy = "allowlist" /\ sender \in snapshot.dm_allowlist
  \/ snapshot.dm_policy = "owner" /\ owner = Nobody

PageAnswersGroup(snapshot, conv, sender, mentioned) ==
  /\ \/ snapshot.group_scope = "open"
     \/ snapshot.group_scope = "allowlist" /\ conv \in ListedGroups(snapshot)
  /\ mentioned \/ (conv \in DOMAIN snapshot.groups /\ snapshot.groups[conv].mode = "smart")
  /\ conv \in DOMAIN snapshot.groups => snapshot.groups[conv].allow_from \cap {Star, sender} # {}

Owners == Member \cup {Nobody}
Senders == Member \cup {Stranger}

\* A local entry the server has a mode for.
Expressible(conv) == access.groups[conv].mode \in ReportedModes \cup {Absent}

\* Groups that both sides can speak of: not those the server refused or cannot
\* express, nor a group whose members are all deselected (see the README).
Comparable(conv) ==
  /\ conv \in DOMAIN access.groups => Expressible(conv) /\ conv \in ListedGroups(shown)
  /\ conv \in DOMAIN shown.groups => shown.groups[conv].allow_from # {}

\* "A block the SDK gate reads the same way the settings page displays it"
\* (policy-sync.js): once a pass has adopted or reported, the agent answers
\* exactly whom the page says, but for the owner, who is always answered in
\* direct messages and, in a group that is allowed, whatever its member list.
PageShowsWhatIsEnforced ==
  shown # NoSnapshot =>
    \A owner \in Owners, sender \in Senders :
      /\ DmHandled(access, owner, sender, FALSE) = PageAnswersDm(shown, owner, sender)
      /\ sender # owner =>
           \A conv \in Conv, mentioned \in BOOLEAN :
             Comparable(conv) =>
               GroupHandled(access, owner, conv, sender, mentioned)
                 = PageAnswersGroup(shown, conv, sender, mentioned)

\* No echo: what we report comes back as what we would report, however the local
\* block is spelled.  A pass that reads its own report has nothing to adopt and
\* nothing to upload.
ReportComesBackTheSame ==
  AccessFingerprint(AccessFromServerPolicy(BuildReportedPolicy(access))) = AccessFingerprint(access)

\* The fingerprint may stand for the block: config events do the same to two
\* blocks it does not tell apart, as long as neither has a group of a mode the
\* server does not know.
EventsSeeTheFingerprint ==
  (\A c \in DOMAIN access.groups : Expressible(c)) =>
    \A e \in Events :
      AccessFingerprint(ApplyConfigAccessEvent(access, e))
        = AccessFingerprint(ApplyConfigAccessEvent(
            AccessFromServerPolicy(BuildReportedPolicy(access)), e))

\* Leaving groups out of a report is reporting a block that never had them: no
\* group is left listed without its row.
PrunedReportIsAReport ==
  \A S \in SUBSET Conv :
    WithoutGroups(BuildReportedPolicy(access), S)
      = BuildReportedPolicy([access EXCEPT !.groups = Without(@, S)])
=============================================================================
