------------------------- MODULE AccessPolicyProofs -------------------------
(***************************************************************************)
(* Proofs about PolicyMap and AccessPolicy: the types of a block and of a  *)
(* server's copy, that the reported policy is all a block's behaviour      *)
(* depends on (the gate, the config events and the next report), and that  *)
(* the settings page shows what the gate enforces.                         *)
(***************************************************************************)
EXTENDS AccessPolicy, TLAPS

---------------------------------------------------------------------------
(* Groups and their entries.                                               *)

LEMMA GroupsAre ==
  ASSUME NEW E, NEW f
  PROVE  f \in Groups(E) <=> DOMAIN f \subseteq Conv /\ f \in [DOMAIN f -> E]
<1>1. ASSUME f \in Groups(E) PROVE DOMAIN f \subseteq Conv /\ f \in [DOMAIN f -> E]
  <2>1. PICK S \in SUBSET Conv : f \in [S -> E]
    BY <1>1 DEF Groups
  <2> QED BY <2>1
<1>2. ASSUME DOMAIN f \subseteq Conv, f \in [DOMAIN f -> E] PROVE f \in Groups(E)
  BY <1>2 DEF Groups
<1> QED BY <1>1, <1>2

LEMMA WithoutTyped ==
  ASSUME NEW E, NEW f \in Groups(E), NEW S
  PROVE  Without(f, S) \in Groups(E) /\ DOMAIN Without(f, S) = DOMAIN f \ S
<1>1. DOMAIN f \subseteq Conv /\ f \in [DOMAIN f -> E]
  BY GroupsAre
<1>2. DOMAIN Without(f, S) = DOMAIN f \ S /\ Without(f, S) \in [DOMAIN f \ S -> E]
  BY <1>1 DEF Without
<1> QED BY <1>1, <1>2, GroupsAre

LEMMA WithTyped ==
  ASSUME NEW E, NEW f \in Groups(E), NEW c \in Conv, NEW v \in E
  PROVE  With(f, c, v) \in Groups(E)
<1>1. DOMAIN f \subseteq Conv /\ f \in [DOMAIN f -> E]
  BY GroupsAre
<1>2. DOMAIN With(f, c, v) = DOMAIN f \cup {c}
  BY DEF With
<1>3. With(f, c, v) \in [DOMAIN f \cup {c} -> E]
  BY <1>1 DEF With
<1> QED BY <1>1, <1>2, <1>3, GroupsAre

LEMMA EntryFacts ==
  ASSUME NEW entry \in Entry
  PROVE  /\ entry.mode \in ReportedModes \cup {"silent", "typo", Absent}
         /\ entry.allowFrom \in {Absent} \cup SUBSET (Member \cup {Star})
         /\ ReportedAllowFrom(entry.allowFrom) \in SUBSET (Member \cup {Star})
         /\ ReportedAllowFrom(entry.allowFrom) \notin {Absent, {}}
         /\ \A m \in ReportedModes \cup {"silent", "typo"} : [entry EXCEPT !.mode = m] \in Entry
         /\ \A l \in SUBSET (Member \cup {Star}) : [entry EXCEPT !.allowFrom = l] \in Entry
<1>1. /\ entry.mode \in ReportedModes \cup {"silent", "typo", Absent}
      /\ entry.allowFrom \in {Absent} \cup SUBSET (Member \cup {Star})
  BY DEF Entry
<1>2. /\ ReportedAllowFrom(entry.allowFrom) \in SUBSET (Member \cup {Star})
      /\ ReportedAllowFrom(entry.allowFrom) # {}
  BY <1>1 DEF ReportedAllowFrom
<1>3. ReportedAllowFrom(entry.allowFrom) # Absent
  BY <1>2, NoneIsAMember
<1>4. \A m \in ReportedModes \cup {"silent", "typo"} : [entry EXCEPT !.mode = m] \in Entry
  BY DEF Entry
<1>5. \A l \in SUBSET (Member \cup {Star}) : [entry EXCEPT !.allowFrom = l] \in Entry
  BY DEF Entry
<1> QED BY <1>1, <1>2, <1>3, <1>4, <1>5

LEMMA DefaultEntryTyped == DefaultEntry \in Entry
BY DEF DefaultEntry, Entry, ReportedModes

LEMMA BlockFacts ==
  ASSUME NEW a \in Block
  PROVE  /\ a.dmPolicy \in DmPolicies \cup {Absent}
         /\ a.dmAllowFrom \in {Absent} \cup SUBSET Member
         /\ a.groupPolicy \in GroupScopes \cup {Absent}
         /\ a.groups \in Groups(Entry)
         /\ DOMAIN a.groups \subseteq Conv
         /\ \A c \in DOMAIN a.groups : a.groups[c] \in Entry
<1>1. a.groups \in Groups(Entry)
  BY DEF Block
<1> QED BY <1>1, GroupsAre DEF Block

\* A setting read with its default.
LEMMA Defaults ==
  ASSUME NEW a \in Block
  PROVE  /\ Or(a.dmPolicy, "owner") \in DmPolicies
         /\ Or(a.dmAllowFrom, {}) \in SUBSET Member
         /\ Or(a.groupPolicy, "allowlist") \in GroupScopes
BY BlockFacts DEF Or, DmPolicies, GroupScopes

---------------------------------------------------------------------------
(* Types of the conversions and of the events.                             *)

LEMMA ReportedRow ==
  ASSUME NEW a \in Block, NEW c \in Reported(a.groups)
  PROVE  /\ c \in DOMAIN a.groups /\ a.groups[c] \in Entry /\ c \in Conv
         /\ ReportedMode(a.groups[c]) \in ReportedModes
         /\ BuildReportedPolicy(a).groups[c]
              = [mode |-> ReportedMode(a.groups[c]),
                 allow_from |-> ReportedAllowFrom(a.groups[c].allowFrom)]
         /\ BuildReportedPolicy(a).groups[c] \in Row
         /\ BuildReportedPolicy(a).groups[c].allow_from # {}
<1>1. /\ c \in DOMAIN a.groups /\ a.groups[c] \in Entry /\ c \in Conv
      /\ ReportedMode(a.groups[c]) \in ReportedModes
  BY BlockFacts DEF Reported
<1>2. BuildReportedPolicy(a).groups[c]
        = [mode |-> ReportedMode(a.groups[c]),
           allow_from |-> ReportedAllowFrom(a.groups[c].allowFrom)]
  BY DEF BuildReportedPolicy
<1>3. /\ ReportedAllowFrom(a.groups[c].allowFrom) \in SUBSET (Member \cup {Star})
      /\ ReportedAllowFrom(a.groups[c].allowFrom) # {}
  BY <1>1, EntryFacts
<1> QED BY <1>1, <1>2, <1>3 DEF Row

LEMMA BuildTyped ==
  ASSUME NEW a \in Block
  PROVE  /\ BuildReportedPolicy(a) \in Snapshot
         /\ DOMAIN BuildReportedPolicy(a).groups = Reported(a.groups)
<1> DEFINE g == BuildReportedPolicy(a).groups
<1>1. DOMAIN g = Reported(a.groups)
  BY DEF BuildReportedPolicy
<1>2. Reported(a.groups) \subseteq Conv
  BY ReportedRow
<1>3. g \in [DOMAIN g -> Row]
  <2>1. g = [c \in Reported(a.groups) |-> g[c]]
    BY DEF BuildReportedPolicy
  <2> QED BY <1>1, <2>1, ReportedRow
<1>4. g \in Groups(Row)
  BY <1>1, <1>2, <1>3, GroupsAre
<1>5. /\ BuildReportedPolicy(a).group_allowlist = Reported(a.groups)
      /\ BuildReportedPolicy(a) = [dm_policy |-> Or(a.dmPolicy, "owner"),
           dm_allowlist |-> Or(a.dmAllowFrom, {}),
           group_scope |-> Or(a.groupPolicy, "allowlist"),
           group_allowlist |-> Reported(a.groups), groups |-> g]
  BY DEF BuildReportedPolicy
<1> HIDE DEF g
<1>6. BuildReportedPolicy(a) \in Snapshot
  BY <1>2, <1>4, <1>5, Defaults DEF Snapshot
<1> QED BY <1>1, <1>6 DEF g

LEMMA SnapshotFacts ==
  ASSUME NEW p \in Snapshot
  PROVE  /\ p.dm_policy \in DmPolicies /\ p.dm_allowlist \in SUBSET Member
         /\ p.group_scope \in GroupScopes /\ p.group_allowlist \in SUBSET Conv
         /\ p.groups \in Groups(Row) /\ DOMAIN p.groups \subseteq Conv
         /\ \A c \in DOMAIN p.groups : /\ p.groups[c] \in Row
                                       /\ p.groups[c].mode \in ReportedModes
                                       /\ p.groups[c].allow_from \in SUBSET (Member \cup {Star})
<1>1. p.groups \in Groups(Row)
  BY DEF Snapshot
<1>2. DOMAIN p.groups \subseteq Conv /\ \A c \in DOMAIN p.groups : p.groups[c] \in Row
  BY <1>1, GroupsAre
<1> QED BY <1>1, <1>2 DEF Snapshot, Row

LEMMA AdoptedTyped ==
  ASSUME NEW p \in Snapshot
  PROVE  /\ AccessFromServerPolicy(p) \in Block
         /\ DOMAIN AdoptedGroups(p) = ListedGroups(p)
         /\ \A c \in ListedGroups(p) :
              AdoptedGroups(p)[c] = IF c \in DOMAIN p.groups
                THEN [mode |-> p.groups[c].mode,
                      allowFrom |-> IF p.groups[c].allow_from = {} THEN {Star}
                                    ELSE p.groups[c].allow_from]
                ELSE DefaultEntry
         /\ \A c \in ListedGroups(p) : AdoptedGroups(p)[c] \in Entry
<1> DEFINE g == AdoptedGroups(p)
<1>1. DOMAIN g = ListedGroups(p) /\ ListedGroups(p) \subseteq Conv
  BY SnapshotFacts DEF AdoptedGroups, ListedGroups
<1>2. ASSUME NEW c \in ListedGroups(p)
      PROVE  g[c] = IF c \in DOMAIN p.groups
                THEN [mode |-> p.groups[c].mode,
                      allowFrom |-> IF p.groups[c].allow_from = {} THEN {Star}
                                    ELSE p.groups[c].allow_from]
                ELSE DefaultEntry
  BY DEF AdoptedGroups, ListedGroups
<1>3. ASSUME NEW c \in ListedGroups(p) PROVE g[c] \in Entry
  <2>1. CASE c \in DOMAIN p.groups
    <3>1. /\ p.groups[c].mode \in ReportedModes
          /\ p.groups[c].allow_from \in SUBSET (Member \cup {Star})
      BY <2>1, SnapshotFacts
    <3> DEFINE l == IF p.groups[c].allow_from = {} THEN {Star} ELSE p.groups[c].allow_from
    <3>2. l \in SUBSET (Member \cup {Star}) /\ g[c] = [mode |-> p.groups[c].mode, allowFrom |-> l]
      BY <1>2, <2>1, <3>1
    <3> HIDE DEF g, l
    <3> QED BY <3>1, <3>2 DEF Entry
  <2>2. CASE c \notin DOMAIN p.groups
    BY <1>2, <2>2, DefaultEntryTyped
  <2> QED BY <2>1, <2>2
<1>4. g \in Groups(Entry)
  <2>1. g = [c \in DOMAIN g |-> g[c]]
    BY DEF AdoptedGroups
  <2> HIDE DEF g
  <2> QED BY <1>1, <1>3, <2>1, GroupsAre
<1>5. AccessFromServerPolicy(p) \in Block
  <2> HIDE DEF g
  <2>1. AccessFromServerPolicy(p) = [dmPolicy |-> p.dm_policy, dmAllowFrom |-> p.dm_allowlist,
          groupPolicy |-> p.group_scope, groups |-> g]
    BY DEF AccessFromServerPolicy, g
  <2> QED BY <1>4, <2>1, SnapshotFacts DEF Block
<1> QED BY <1>1, <1>2, <1>3, <1>5

LEMMA PrunedTyped ==
  ASSUME NEW p \in Snapshot, NEW S
  PROVE  /\ WithoutGroups(p, S) \in Snapshot
         /\ WithoutGroups(p, S) = [dm_policy |-> p.dm_policy, dm_allowlist |-> p.dm_allowlist,
              group_scope |-> p.group_scope, group_allowlist |-> p.group_allowlist \ S,
              groups |-> Without(p.groups, S)]
<1> DEFINE g == Without(p.groups, S)
           l == p.group_allowlist \ S
           q == [p EXCEPT !.groups = g, !.group_allowlist = l]
<1>1. WithoutGroups(p, S) = q
  BY DEF WithoutGroups
<1>2. g \in Groups(Row) /\ l \in SUBSET Conv
  BY SnapshotFacts, WithoutTyped
<1> HIDE DEF g, l
<1>3. /\ q \in Snapshot /\ q.dm_policy = p.dm_policy /\ q.dm_allowlist = p.dm_allowlist
      /\ q.group_scope = p.group_scope /\ q.group_allowlist = l /\ q.groups = g
  BY <1>2 DEF Snapshot
<1> HIDE DEF q
<1>4. q = [dm_policy |-> q.dm_policy, dm_allowlist |-> q.dm_allowlist,
           group_scope |-> q.group_scope, group_allowlist |-> q.group_allowlist,
           groups |-> q.groups]
  BY <1>3 DEF Snapshot
<1> QED BY <1>1, <1>3, <1>4 DEF g, l

---------------------------------------------------------------------------
(* Two blocks that the fingerprint does not tell apart.  (Groups of a mode  *)
(* the server does not know are compared here as well: no report carries    *)
(* them, but an event may change them into one that is reported.)           *)

SameEntry(x, y) == /\ ReportedMode(x) = ReportedMode(y)
                   /\ ReportedAllowFrom(x.allowFrom) = ReportedAllowFrom(y.allowFrom)
SameGroups(f, g) == DOMAIN f = DOMAIN g /\ \A c \in DOMAIN f : SameEntry(f[c], g[c])
SameBlock(a, b) ==
  /\ Or(a.dmPolicy, "owner") = Or(b.dmPolicy, "owner")
  /\ Or(a.dmAllowFrom, {}) = Or(b.dmAllowFrom, {})
  /\ Or(a.groupPolicy, "allowlist") = Or(b.groupPolicy, "allowlist")
  /\ SameGroups(a.groups, b.groups)

LEMMA SameReport ==
  ASSUME NEW a \in Block, NEW b \in Block, SameBlock(a, b)
  PROVE  BuildReportedPolicy(a) = BuildReportedPolicy(b)
<1>1. Reported(a.groups) = Reported(b.groups)
  BY DEF SameBlock, SameGroups, SameEntry, Reported
<1>2. \A c \in Reported(a.groups) :
        [mode |-> ReportedMode(a.groups[c]),
         allow_from |-> ReportedAllowFrom(a.groups[c].allowFrom)]
          = [mode |-> ReportedMode(b.groups[c]),
             allow_from |-> ReportedAllowFrom(b.groups[c].allowFrom)]
  BY DEF SameBlock, SameGroups, SameEntry, Reported
<1> DEFINE R(x) == [c \in Reported(x.groups) |->
                     [mode |-> ReportedMode(x.groups[c]),
                      allow_from |-> ReportedAllowFrom(x.groups[c].allowFrom)]]
<1>3. R(a) = R(b)
  BY <1>1, <1>2
<1> QED BY <1>1, <1>3 DEF SameBlock, BuildReportedPolicy

LEMMA WithoutSame ==
  ASSUME NEW f, NEW g, SameGroups(f, g), NEW S
  PROVE  SameGroups(Without(f, S), Without(g, S))
BY DEF SameGroups, Without

LEMMA WithSame ==
  ASSUME NEW f, NEW g, SameGroups(f, g), NEW c, NEW x, NEW y, SameEntry(x, y)
  PROVE  SameGroups(With(f, c, x), With(g, c, y))
BY DEF SameGroups, With

\* What an event carries.
LEMMA EventCases ==
  ASSUME NEW e \in Events
  PROVE  \/ e.event = "dm_policy_changed" /\ e.policy \in DmPolicies \cup {"typo"}
         \/ e.event = "dm_allowlist_changed" /\ e.member_ids \in SUBSET Member
            /\ e.action \in {"add", "remove", "set", "other"}
         \/ e.event = "group_mode_changed" /\ e.conversation_id \in Conv
            /\ e.mode \in ReportedModes \cup {"silent", "typo"}
         \/ e.event = "group_allowfrom_changed" /\ e.conversation_id \in Conv
            /\ e.allow_from \in SUBSET (Member \cup {Star})
         \/ e.event = "group_scope_changed" /\ e.scope \in GroupScopes \cup {"typo"}
         \/ e.event = "group_allowlist_changed" /\ e.conversation_ids \in SUBSET Conv
            /\ e.action \in {"add", "remove", "set", "other"}
BY DEF Events

\* An event changes one setting of the block.
LEMMA BlockExcept ==
  ASSUME NEW a \in Block
  PROVE  /\ \A v \in DmPolicies : LET b == [a EXCEPT !.dmPolicy = v]
              IN  /\ b \in Block /\ b.dmPolicy = v /\ b.dmAllowFrom = a.dmAllowFrom
                  /\ b.groupPolicy = a.groupPolicy /\ b.groups = a.groups
         /\ \A v \in SUBSET Member : LET b == [a EXCEPT !.dmAllowFrom = v]
              IN  /\ b \in Block /\ b.dmPolicy = a.dmPolicy /\ b.dmAllowFrom = v
                  /\ b.groupPolicy = a.groupPolicy /\ b.groups = a.groups
         /\ \A v \in GroupScopes : LET b == [a EXCEPT !.groupPolicy = v]
              IN  /\ b \in Block /\ b.dmPolicy = a.dmPolicy /\ b.dmAllowFrom = a.dmAllowFrom
                  /\ b.groupPolicy = v /\ b.groups = a.groups
         /\ \A v \in Groups(Entry) : LET b == [a EXCEPT !.groups = v]
              IN  /\ b \in Block /\ b.dmPolicy = a.dmPolicy /\ b.dmAllowFrom = a.dmAllowFrom
                  /\ b.groupPolicy = a.groupPolicy /\ b.groups = v
BY DEF Block

\* Events have the same effect on blocks that the fingerprint does not tell apart,
\* and their effect is a block.
LEMMA EventSame ==
  ASSUME NEW a \in Block, NEW b \in Block, SameBlock(a, b), NEW e \in Events
  PROVE  /\ ApplyConfigAccessEvent(a, e) \in Block
         /\ SameBlock(ApplyConfigAccessEvent(a, e), ApplyConfigAccessEvent(b, e))
<1> DEFINE na == ApplyConfigAccessEvent(a, e)
           nb == ApplyConfigAccessEvent(b, e)
<1> SUFFICES na \in Block /\ SameBlock(na, nb)
  OBVIOUS
<1>0. /\ SameGroups(a.groups, b.groups) /\ DOMAIN a.groups = DOMAIN b.groups
      /\ a.groups \in Groups(Entry) /\ b.groups \in Groups(Entry)
      /\ \A c \in DOMAIN a.groups : a.groups[c] \in Entry /\ b.groups[c] \in Entry
                                    /\ SameEntry(a.groups[c], b.groups[c])
      /\ DOMAIN a.groups \subseteq Conv
  BY BlockFacts DEF SameBlock, SameGroups
<1>d. DefaultEntry \in Entry /\ SameEntry(DefaultEntry, DefaultEntry)
  BY DefaultEntryTyped DEF SameEntry
<1>g. ASSUME NEW f \in Groups(Entry), NEW g \in Groups(Entry), SameGroups(f, g),
             na = [a EXCEPT !.groups = f], nb = [b EXCEPT !.groups = g]
      PROVE  na \in Block /\ SameBlock(na, nb)
  <2> HIDE DEF na, nb
  <2>1. /\ na \in Block /\ na.dmPolicy = a.dmPolicy /\ na.dmAllowFrom = a.dmAllowFrom
        /\ na.groupPolicy = a.groupPolicy /\ na.groups = f
    BY <1>g, BlockExcept
  <2>2. /\ nb.dmPolicy = b.dmPolicy /\ nb.dmAllowFrom = b.dmAllowFrom
        /\ nb.groupPolicy = b.groupPolicy /\ nb.groups = g
    BY <1>g, BlockExcept
  <2> QED BY <1>g, <2>1, <2>2 DEF SameBlock
<1>1. CASE e.event = "dm_policy_changed" /\ e.policy \in DmPolicies \cup {"typo"}
  <2>1. na = DmPolicyChanged(a, e) /\ nb = DmPolicyChanged(b, e)
    BY <1>1 DEF ApplyConfigAccessEvent
  <2>2. CASE e.policy \in DmPolicies
    <3> HIDE DEF na, nb
    <3>1. na = [a EXCEPT !.dmPolicy = e.policy] /\ nb = [b EXCEPT !.dmPolicy = e.policy]
      BY <2>1, <2>2 DEF DmPolicyChanged
    <3> QED BY <2>2, <3>1, BlockExcept DEF SameBlock
  <2>3. CASE e.policy \notin DmPolicies
    BY <2>1, <2>3 DEF DmPolicyChanged
  <2> QED BY <2>2, <2>3
<1>2. CASE e.event = "dm_allowlist_changed" /\ e.member_ids \in SUBSET Member
           /\ e.action \in {"add", "remove", "set", "other"}
  <2>1. na = DmAllowlistChanged(a, e) /\ nb = DmAllowlistChanged(b, e)
    BY <1>2 DEF ApplyConfigAccessEvent
  <2>2. CASE e.member_ids = {}
    BY <2>1, <2>2 DEF DmAllowlistChanged
  <2>3. CASE e.member_ids # {}
    <3> DEFINE list(x) == Or(x.dmAllowFrom, {})
               new(x) == CASE e.action = "add" -> list(x) \cup e.member_ids
                           [] e.action = "remove" -> list(x) \ e.member_ids
                           [] e.action = "set" -> e.member_ids
                           [] OTHER -> list(x)
    <3>1. na = [a EXCEPT !.dmAllowFrom = new(a)] /\ nb = [b EXCEPT !.dmAllowFrom = new(b)]
      BY <2>1, <2>3 DEF DmAllowlistChanged
    <3>2. list(a) = list(b) /\ list(a) \in SUBSET Member
      BY Defaults DEF SameBlock
    <3>3. new(a) = new(b) /\ new(a) \in SUBSET Member
      <4> HIDE DEF list
      <4> QED BY <1>2, <3>2
    <3> HIDE DEF na, nb, new, list
    <3> QED BY <3>1, <3>3, BlockExcept DEF SameBlock
  <2> QED BY <2>2, <2>3
<1>3. CASE e.event = "group_mode_changed" /\ e.conversation_id \in Conv
           /\ e.mode \in ReportedModes \cup {"silent", "typo"}
  <2>1. na = GroupModeChanged(a, e) /\ nb = GroupModeChanged(b, e)
    BY <1>3 DEF ApplyConfigAccessEvent
  <2>2. CASE e.mode = "silent"
    <3>1. /\ na = [a EXCEPT !.groups = Without(a.groups, {e.conversation_id})]
          /\ nb = [b EXCEPT !.groups = Without(b.groups, {e.conversation_id})]
      BY <2>1, <2>2 DEF GroupModeChanged, ReportedModes
    <3> HIDE DEF na, nb
    <3> QED BY <1>0, <1>g, <3>1, WithoutTyped, WithoutSame
  <2>3. CASE e.mode \in ReportedModes
    <3> DEFINE old(x) == IF e.conversation_id \in DOMAIN x.groups
                         THEN x.groups[e.conversation_id] ELSE DefaultEntry
               new(x) == [old(x) EXCEPT !.mode = e.mode]
    <3>1. /\ na = [a EXCEPT !.groups = With(a.groups, e.conversation_id, new(a))]
          /\ nb = [b EXCEPT !.groups = With(b.groups, e.conversation_id, new(b))]
      BY <2>1, <2>3 DEF GroupModeChanged, ReportedModes
    <3>2. old(a) \in Entry /\ old(b) \in Entry /\ SameEntry(old(a), old(b))
      BY <1>0, <1>d
    <3> HIDE DEF old
    <3>3. new(a) \in Entry /\ new(b) \in Entry /\ SameEntry(new(a), new(b))
      <4>1. new(a) \in Entry /\ new(b) \in Entry
        BY <2>3, <3>2, EntryFacts
      <4>2. /\ new(a).mode = e.mode /\ new(b).mode = e.mode
            /\ new(a).allowFrom = old(a).allowFrom /\ new(b).allowFrom = old(b).allowFrom
        BY <3>2 DEF Entry
      <4> HIDE DEF new
      <4> QED BY <3>2, <4>1, <4>2 DEF SameEntry, ReportedMode
    <3> HIDE DEF na, nb, new
    <3>4. /\ With(a.groups, e.conversation_id, new(a)) \in Groups(Entry)
          /\ With(b.groups, e.conversation_id, new(b)) \in Groups(Entry)
      BY <1>0, <1>3, <3>3, WithTyped
    <3>5. SameGroups(With(a.groups, e.conversation_id, new(a)),
                     With(b.groups, e.conversation_id, new(b)))
      BY <1>0, <3>3, WithSame
    <3> QED BY <1>g, <3>1, <3>4, <3>5
  <2>4. CASE e.mode = "typo"
    BY <2>1, <2>4 DEF GroupModeChanged, ReportedModes
  <2> QED BY <1>3, <2>2, <2>3, <2>4
<1>4. CASE e.event = "group_allowfrom_changed" /\ e.conversation_id \in Conv
           /\ e.allow_from \in SUBSET (Member \cup {Star})
  <2> DEFINE old(x) == IF e.conversation_id \in DOMAIN x.groups
                       THEN x.groups[e.conversation_id] ELSE DefaultEntry
             new(x) == [old(x) EXCEPT !.allowFrom = e.allow_from]
  <2>1. /\ na = [a EXCEPT !.groups = With(a.groups, e.conversation_id, new(a))]
        /\ nb = [b EXCEPT !.groups = With(b.groups, e.conversation_id, new(b))]
    BY <1>4 DEF ApplyConfigAccessEvent, GroupAllowFromChanged
  <2>2. old(a) \in Entry /\ old(b) \in Entry /\ SameEntry(old(a), old(b))
    BY <1>0, <1>d
  <2> HIDE DEF old
  <2>3. new(a) \in Entry /\ new(b) \in Entry /\ SameEntry(new(a), new(b))
    <3>1. new(a) \in Entry /\ new(b) \in Entry
      BY <1>4, <2>2, EntryFacts
    <3>2. /\ new(a).mode = old(a).mode /\ new(b).mode = old(b).mode
          /\ new(a).allowFrom = e.allow_from /\ new(b).allowFrom = e.allow_from
      BY <2>2 DEF Entry
    <3> HIDE DEF new
    <3> QED BY <2>2, <3>1, <3>2 DEF SameEntry, ReportedMode
  <2> HIDE DEF na, nb, new
  <2>4. /\ With(a.groups, e.conversation_id, new(a)) \in Groups(Entry)
        /\ With(b.groups, e.conversation_id, new(b)) \in Groups(Entry)
    BY <1>0, <1>4, <2>3, WithTyped
  <2>5. SameGroups(With(a.groups, e.conversation_id, new(a)),
                   With(b.groups, e.conversation_id, new(b)))
    BY <1>0, <2>3, WithSame
  <2> QED BY <1>g, <2>1, <2>4, <2>5
<1>5. CASE e.event = "group_scope_changed" /\ e.scope \in GroupScopes \cup {"typo"}
  <2>1. na = GroupScopeChanged(a, e) /\ nb = GroupScopeChanged(b, e)
    BY <1>5 DEF ApplyConfigAccessEvent
  <2>2. CASE e.scope \in GroupScopes
    <3> HIDE DEF na, nb
    <3>1. na = [a EXCEPT !.groupPolicy = e.scope] /\ nb = [b EXCEPT !.groupPolicy = e.scope]
      BY <2>1, <2>2 DEF GroupScopeChanged
    <3> QED BY <2>2, <3>1, BlockExcept DEF SameBlock
  <2>3. CASE e.scope \notin GroupScopes
    BY <2>1, <2>3 DEF GroupScopeChanged
  <2> QED BY <2>2, <2>3
<1>6. CASE e.event = "group_allowlist_changed" /\ e.conversation_ids \in SUBSET Conv
           /\ e.action \in {"add", "remove", "set", "other"}
  <2> DEFINE ids == e.conversation_ids
             Listed(x, S) == [c \in S |-> IF c \in DOMAIN x.groups THEN x.groups[c] ELSE DefaultEntry]
  <2>1. na = GroupAllowlistChanged(a, e) /\ nb = GroupAllowlistChanged(b, e)
    BY <1>6 DEF ApplyConfigAccessEvent
  <2>2. ASSUME NEW S \in SUBSET Conv
        PROVE  /\ Listed(a, S) \in Groups(Entry) /\ Listed(b, S) \in Groups(Entry)
               /\ SameGroups(Listed(a, S), Listed(b, S))
    <3>1. /\ \A c \in S : Listed(a, S)[c] \in Entry /\ Listed(b, S)[c] \in Entry
                          /\ SameEntry(Listed(a, S)[c], Listed(b, S)[c])
          /\ DOMAIN Listed(a, S) = S /\ DOMAIN Listed(b, S) = S
          /\ Listed(a, S) = [c \in S |-> Listed(a, S)[c]]
          /\ Listed(b, S) = [c \in S |-> Listed(b, S)[c]]
      BY <1>0, <1>d
    <3> HIDE DEF Listed
    <3> QED BY <3>1, GroupsAre DEF SameGroups
  <2>3. CASE e.action = "remove"
    <3>1. /\ na = [a EXCEPT !.groups = Without(a.groups, ids)]
          /\ nb = [b EXCEPT !.groups = Without(b.groups, ids)]
      BY <2>1, <2>3 DEF GroupAllowlistChanged
    <3> HIDE DEF na, nb
    <3> QED BY <1>0, <1>g, <3>1, WithoutTyped, WithoutSame
  <2>4. CASE e.action = "add"
    <3> DEFINE S == DOMAIN a.groups \cup ids
    <3>1. /\ na = [a EXCEPT !.groups = Listed(a, S)]
          /\ nb = [b EXCEPT !.groups = Listed(b, S)]
      BY <1>0, <2>1, <2>4 DEF GroupAllowlistChanged
    <3>2. S \in SUBSET Conv
      BY <1>0, <1>6
    <3> HIDE DEF na, nb, Listed, S
    <3> QED BY <1>g, <2>2, <3>1, <3>2
  <2>5. CASE e.action = "set"
    <3>1. /\ na = [a EXCEPT !.groups = Listed(a, ids)]
          /\ nb = [b EXCEPT !.groups = Listed(b, ids)]
      BY <2>1, <2>5 DEF GroupAllowlistChanged
    <3> HIDE DEF na, nb, Listed
    <3> QED BY <1>6, <1>g, <2>2, <3>1
  <2>6. CASE e.action = "other"
    BY <2>1, <2>6 DEF GroupAllowlistChanged
  <2> QED BY <1>6, <2>3, <2>4, <2>5, <2>6
<1> QED BY <1>1, <1>2, <1>3, <1>4, <1>5, <1>6, EventCases

LEMMA SameBlockReflexive == \A a : SameBlock(a, a)
BY DEF SameBlock, SameGroups, SameEntry

---------------------------------------------------------------------------
(* What the server sends back.                                             *)

\* The report of a block that was adopted: the server's copy, with a row for every
\* group and no empty member list.
LEMMA ReportOfAdopted ==
  ASSUME NEW p \in Snapshot
  PROVE  LET q == BuildReportedPolicy(AccessFromServerPolicy(p))
         IN  /\ q.dm_policy = p.dm_policy /\ q.dm_allowlist = p.dm_allowlist
             /\ q.group_scope = p.group_scope
             /\ q.group_allowlist = ListedGroups(p) /\ DOMAIN q.groups = ListedGroups(p)
             /\ \A c \in ListedGroups(p) :
                  q.groups[c] = IF c \in DOMAIN p.groups
                    THEN [mode |-> p.groups[c].mode,
                          allow_from |-> IF p.groups[c].allow_from = {} THEN {Star}
                                         ELSE p.groups[c].allow_from]
                    ELSE [mode |-> "mention", allow_from |-> {Star}]
<1> DEFINE b == AccessFromServerPolicy(p)
           q == BuildReportedPolicy(b)
<1>1. /\ b \in Block /\ b.dmPolicy = p.dm_policy /\ b.dmAllowFrom = p.dm_allowlist
      /\ b.groupPolicy = p.group_scope /\ b.groups = AdoptedGroups(p)
  BY AdoptedTyped DEF AccessFromServerPolicy
<1>2. /\ p.dm_policy # Absent /\ p.dm_allowlist # Absent /\ p.group_scope # Absent
      /\ Absent \notin ReportedModes
  <2>1. p.dm_allowlist \in SUBSET (Member \cup {Star})
    BY SnapshotFacts
  <2> QED BY <2>1, SnapshotFacts, NoneIsAMember DEF DmPolicies, GroupScopes, ReportedModes
<1> HIDE DEF b
<1>3. /\ q.dm_policy = p.dm_policy /\ q.dm_allowlist = p.dm_allowlist
      /\ q.group_scope = p.group_scope /\ q.group_allowlist = Reported(b.groups)
      /\ DOMAIN q.groups = Reported(b.groups)
  BY <1>1, <1>2 DEF BuildReportedPolicy, Or
<1>4. ASSUME NEW c \in ListedGroups(p)
      PROVE  /\ ReportedMode(b.groups[c]) \in ReportedModes
             /\ [mode |-> ReportedMode(b.groups[c]),
                 allow_from |-> ReportedAllowFrom(b.groups[c].allowFrom)]
                 = IF c \in DOMAIN p.groups
                    THEN [mode |-> p.groups[c].mode,
                          allow_from |-> IF p.groups[c].allow_from = {} THEN {Star}
                                         ELSE p.groups[c].allow_from]
                    ELSE [mode |-> "mention", allow_from |-> {Star}]
  <2>1. CASE c \in DOMAIN p.groups
    <3> DEFINE m == p.groups[c].mode
               l == IF p.groups[c].allow_from = {} THEN {Star} ELSE p.groups[c].allow_from
    <3>1. b.groups[c] = [mode |-> m, allowFrom |-> l]
      BY <1>1, <2>1, AdoptedTyped
    <3>2. m \in ReportedModes /\ l \in SUBSET (Member \cup {Star}) /\ l # {}
      BY <2>1, SnapshotFacts
    <3>3. l # Absent
      BY <3>2, NoneIsAMember
    <3> HIDE DEF m, l
    <3>4. ReportedMode(b.groups[c]) = m /\ ReportedAllowFrom(b.groups[c].allowFrom) = l
      BY <1>2, <3>1, <3>2, <3>3 DEF ReportedMode, Or, ReportedAllowFrom
    <3> QED BY <2>1, <3>2, <3>4 DEF m, l
  <2>2. CASE c \notin DOMAIN p.groups
    <3>1. b.groups[c] = DefaultEntry
      BY <1>1, <2>2, AdoptedTyped
    <3>2. {Star} # Absent
      BY NoneIsAMember
    <3>3. ReportedMode(b.groups[c]) = "mention" /\ ReportedAllowFrom(b.groups[c].allowFrom) = {Star}
      BY <3>1, <3>2 DEF DefaultEntry, ReportedMode, Or, ReportedAllowFrom
    <3> QED BY <2>2, <3>3 DEF ReportedModes
  <2> QED BY <2>1, <2>2
<1>5. DOMAIN b.groups = ListedGroups(p)
  BY <1>1, AdoptedTyped
<1>6. Reported(b.groups) = ListedGroups(p)
  BY <1>4, <1>5 DEF Reported
<1>7. \A c \in Reported(b.groups) : q.groups[c] = [mode |-> ReportedMode(b.groups[c]),
                 allow_from |-> ReportedAllowFrom(b.groups[c].allowFrom)]
  BY DEF BuildReportedPolicy
<1> HIDE DEF q
<1>8. \A c \in ListedGroups(p) :
        q.groups[c] = IF c \in DOMAIN p.groups
                    THEN [mode |-> p.groups[c].mode,
                          allow_from |-> IF p.groups[c].allow_from = {} THEN {Star}
                                         ELSE p.groups[c].allow_from]
                    ELSE [mode |-> "mention", allow_from |-> {Star}]
  BY <1>4, <1>6, <1>7
<1> QED BY <1>3, <1>6, <1>8 DEF q, b

\* Two server's copies are equal when their settings and their tables are.
LEMMA SnapshotEqual ==
  ASSUME NEW p \in Snapshot, NEW q \in Snapshot,
         p.dm_policy = q.dm_policy, p.dm_allowlist = q.dm_allowlist,
         p.group_scope = q.group_scope, p.group_allowlist = q.group_allowlist,
         DOMAIN p.groups = DOMAIN q.groups, \A c \in DOMAIN p.groups : p.groups[c] = q.groups[c]
  PROVE  p = q
<1>1. p.groups = q.groups
  <2>1. p.groups \in [DOMAIN p.groups -> Row] /\ q.groups \in [DOMAIN q.groups -> Row]
    BY SnapshotFacts, GroupsAre
  <2> QED BY <2>1
<1> QED BY <1>1 DEF Snapshot

LEMMA ReportReturns ==
  ASSUME NEW a \in Block
  PROVE  BuildReportedPolicy(AccessFromServerPolicy(BuildReportedPolicy(a))) = BuildReportedPolicy(a)
<1> DEFINE p == BuildReportedPolicy(a)
           q == BuildReportedPolicy(AccessFromServerPolicy(p))
<1>1. p \in Snapshot /\ q \in Snapshot
  BY BuildTyped, AdoptedTyped
<1>2. p.group_allowlist = Reported(a.groups) /\ DOMAIN p.groups = Reported(a.groups)
  BY DEF BuildReportedPolicy
<1>3. ListedGroups(p) = Reported(a.groups)
  BY <1>2 DEF ListedGroups
<1>4. \A c \in Reported(a.groups) : /\ p.groups[c].allow_from # {}
        /\ p.groups[c] = [mode |-> p.groups[c].mode, allow_from |-> p.groups[c].allow_from]
  <2>1. \A c \in Reported(a.groups) : p.groups[c] \in Row /\ p.groups[c].allow_from # {}
    BY ReportedRow
  <2> HIDE DEF p
  <2> QED BY <2>1 DEF Row
<1> HIDE DEF p
<1>5. /\ q.dm_policy = p.dm_policy /\ q.dm_allowlist = p.dm_allowlist
      /\ q.group_scope = p.group_scope
      /\ q.group_allowlist = ListedGroups(p) /\ DOMAIN q.groups = ListedGroups(p)
      /\ \A c \in ListedGroups(p) :
           q.groups[c] = IF c \in DOMAIN p.groups
                    THEN [mode |-> p.groups[c].mode,
                          allow_from |-> IF p.groups[c].allow_from = {} THEN {Star}
                                         ELSE p.groups[c].allow_from]
                    ELSE [mode |-> "mention", allow_from |-> {Star}]
  BY <1>1, ReportOfAdopted
<1> HIDE DEF q
<1>6. \A c \in DOMAIN q.groups : q.groups[c] = p.groups[c]
  BY <1>2, <1>3, <1>4, <1>5
<1>7. q = p
  BY <1>1, <1>2, <1>3, <1>5, <1>6, SnapshotEqual
<1> QED BY <1>7 DEF p, q

\* A block without unknown modes, and what the server sends back of it.
LEMMA SameAsReturned ==
  ASSUME NEW a \in Block,
         \A c \in DOMAIN a.groups : a.groups[c].mode \in ReportedModes \cup {Absent}
  PROVE  SameBlock(a, AccessFromServerPolicy(BuildReportedPolicy(a)))
<1> DEFINE p == BuildReportedPolicy(a)
           b == AccessFromServerPolicy(p)
<1>1. /\ p \in Snapshot /\ p.group_allowlist = Reported(a.groups)
      /\ DOMAIN p.groups = Reported(a.groups)
      /\ p.dm_policy = Or(a.dmPolicy, "owner") /\ p.dm_allowlist = Or(a.dmAllowFrom, {})
      /\ p.group_scope = Or(a.groupPolicy, "allowlist")
  BY BuildTyped DEF BuildReportedPolicy
<1>2. Reported(a.groups) = DOMAIN a.groups
  BY DEF Reported, ReportedMode, Or, ReportedModes
<1>3. /\ b.dmPolicy = p.dm_policy /\ b.dmAllowFrom = p.dm_allowlist
      /\ b.groupPolicy = p.group_scope /\ b.groups = AdoptedGroups(p)
  BY DEF AccessFromServerPolicy
<1>4. \A c \in DOMAIN a.groups :
        /\ p.groups[c] = [mode |-> ReportedMode(a.groups[c]),
                          allow_from |-> ReportedAllowFrom(a.groups[c].allowFrom)]
        /\ p.groups[c].allow_from # {} /\ p.groups[c].mode \in ReportedModes
        /\ p.groups[c].allow_from \notin {Absent, {}}
  <2> SUFFICES ASSUME NEW c \in DOMAIN a.groups
               PROVE  /\ p.groups[c] = [mode |-> ReportedMode(a.groups[c]),
                          allow_from |-> ReportedAllowFrom(a.groups[c].allowFrom)]
                      /\ p.groups[c].allow_from # {} /\ p.groups[c].mode \in ReportedModes
                      /\ p.groups[c].allow_from \notin {Absent, {}}
    OBVIOUS
  <2>1. /\ p.groups[c] = [mode |-> ReportedMode(a.groups[c]),
                          allow_from |-> ReportedAllowFrom(a.groups[c].allowFrom)]
        /\ ReportedMode(a.groups[c]) \in ReportedModes /\ a.groups[c] \in Entry
    BY <1>2, ReportedRow
  <2>2. ReportedAllowFrom(a.groups[c].allowFrom) \notin {Absent, {}}
    BY <2>1, EntryFacts
  <2> HIDE DEF p
  <2> QED BY <2>1, <2>2
<1> HIDE DEF p
<1>5. /\ DOMAIN AdoptedGroups(p) = DOMAIN a.groups
      /\ \A c \in DOMAIN a.groups :
           AdoptedGroups(p)[c] = [mode |-> p.groups[c].mode, allowFrom |-> p.groups[c].allow_from]
  BY <1>1, <1>2, <1>4, AdoptedTyped DEF ListedGroups
<1>6. Absent \notin ReportedModes
  BY NoneIsAMember DEF ReportedModes
<1>7. SameGroups(a.groups, b.groups)
  <2> SUFFICES ASSUME NEW c \in DOMAIN a.groups
               PROVE  SameEntry(a.groups[c], AdoptedGroups(p)[c])
    BY <1>3, <1>5 DEF SameGroups
  <2>1. /\ AdoptedGroups(p)[c].mode = ReportedMode(a.groups[c])
        /\ AdoptedGroups(p)[c].allowFrom = ReportedAllowFrom(a.groups[c].allowFrom)
    <3>1. p.groups[c] = [mode |-> ReportedMode(a.groups[c]),
                         allow_from |-> ReportedAllowFrom(a.groups[c].allowFrom)]
      BY <1>4
    <3>2. /\ p.groups[c].mode = ReportedMode(a.groups[c])
          /\ p.groups[c].allow_from = ReportedAllowFrom(a.groups[c].allowFrom)
      BY <3>1
    <3>3. AdoptedGroups(p)[c] = [mode |-> p.groups[c].mode, allowFrom |-> p.groups[c].allow_from]
      BY <1>5
    <3> QED BY <3>2, <3>3
  <2>2. ReportedMode(AdoptedGroups(p)[c]) = ReportedMode(a.groups[c])
    BY <1>4, <1>6, <2>1 DEF ReportedMode, Or
  <2>3. ReportedAllowFrom(AdoptedGroups(p)[c].allowFrom) = ReportedAllowFrom(a.groups[c].allowFrom)
    BY <1>4, <2>1 DEF ReportedAllowFrom
  <2> QED BY <2>2, <2>3 DEF SameEntry
<1>8. /\ Or(b.dmPolicy, "owner") = Or(a.dmPolicy, "owner")
      /\ Or(b.dmAllowFrom, {}) = Or(a.dmAllowFrom, {})
      /\ Or(b.groupPolicy, "allowlist") = Or(a.groupPolicy, "allowlist")
  BY <1>1, <1>3 DEF Or
<1> HIDE DEF b
<1>9. SameBlock(a, b)
  BY <1>7, <1>8 DEF SameBlock
<1> QED BY <1>9 DEF b, p

---------------------------------------------------------------------------
(* The properties of a block.                                              *)

LEMMA NextTypeOK == TypeOK /\ [Next]_vars => TypeOK'
<1> SUFFICES ASSUME TypeOK, [Next]_vars PROVE TypeOK'
  OBVIOUS
<1>1. ASSUME NEW e \in Events, ConfigEvent(e) PROVE TypeOK'
  <2>1. ApplyConfigAccessEvent(access, e) \in Block
    BY EventSame, SameBlockReflexive DEF TypeOK
  <2> QED BY <1>1, <2>1 DEF ConfigEvent, TypeOK
<1>2. ASSUME NEW snapshot \in Snapshot, AdoptServer(snapshot) PROVE TypeOK'
  <2>1. AccessFromServerPolicy(snapshot) \in Block
    BY AdoptedTyped
  <2> QED BY <1>2, <2>1 DEF AdoptServer, TypeOK
<1>3. ASSUME NEW named \in SUBSET Conv, Report(named) PROVE TypeOK'
  <2>1. \A S : WithoutGroups(BuildReportedPolicy(access), S) \in Snapshot
    BY BuildTyped, PrunedTyped DEF TypeOK
  <2> QED BY <1>3, <2>1 DEF Report, TypeOK
<1>4. CASE UNCHANGED vars
  BY <1>4 DEF vars, TypeOK
<1> QED BY <1>1, <1>2, <1>3, <1>4 DEF Next

\* However it was spelled by hand, whatever events it gets and whatever it adopts, the
\* access block stays one that the gate can read, and every report is one the server's
\* tables can hold.
THEOREM PolicyTypeCorrect == Spec => []TypeOK
<1>1. Init => TypeOK
  BY DEF Init, TypeOK
<1> QED BY <1>1, NextTypeOK, PTL DEF Spec

\* No echo: whatever the block, the server's copy of its report has its fingerprint, so
\* that a pass that reads its own report finds nothing to adopt or to upload.
THEOREM NoEcho == Spec => []ReportComesBackTheSame
<1>1. TypeOK => ReportComesBackTheSame
  BY ReportReturns DEF TypeOK, ReportComesBackTheSame, AccessFingerprint
<1> QED BY <1>1, PolicyTypeCorrect, PTL

\* The fingerprint may stand for the block: after any config event two blocks that it
\* did not tell apart are still the same to it.
THEOREM FingerprintDecidesEvents == Spec => []EventsSeeTheFingerprint
<1>1. TypeOK => EventsSeeTheFingerprint
  <2> SUFFICES ASSUME TypeOK, \A c \in DOMAIN access.groups : Expressible(c), NEW e \in Events
               PROVE  BuildReportedPolicy(ApplyConfigAccessEvent(access, e))
                        = BuildReportedPolicy(ApplyConfigAccessEvent(
                            AccessFromServerPolicy(BuildReportedPolicy(access)), e))
    BY DEF EventsSeeTheFingerprint, AccessFingerprint
  <2> DEFINE b == AccessFromServerPolicy(BuildReportedPolicy(access))
  <2>1. access \in Block /\ b \in Block
    BY BuildTyped, AdoptedTyped DEF TypeOK
  <2>2. SameBlock(access, b)
    BY <2>1, SameAsReturned DEF Expressible
  <2> HIDE DEF b
  <2>3. /\ ApplyConfigAccessEvent(access, e) \in Block /\ ApplyConfigAccessEvent(b, e) \in Block
        /\ SameBlock(ApplyConfigAccessEvent(access, e), ApplyConfigAccessEvent(b, e))
    BY <2>1, <2>2, EventSame, SameBlockReflexive
  <2>4. BuildReportedPolicy(ApplyConfigAccessEvent(access, e))
          = BuildReportedPolicy(ApplyConfigAccessEvent(b, e))
    BY <2>3, SameReport
  <2> QED BY <2>4 DEF b
<1> QED BY <1>1, PolicyTypeCorrect, PTL

LEMMA PrunedReport ==
  ASSUME NEW a \in Block, NEW S
  PROVE  WithoutGroups(BuildReportedPolicy(a), S)
           = BuildReportedPolicy([a EXCEPT !.groups = Without(@, S)])
<1> DEFINE b == [a EXCEPT !.groups = Without(@, S)]
           p == WithoutGroups(BuildReportedPolicy(a), S)
           q == BuildReportedPolicy(b)
<1>1. Without(a.groups, S) \in Groups(Entry)
  BY BlockFacts, WithoutTyped
<1>2. /\ b \in Block /\ b.dmPolicy = a.dmPolicy /\ b.dmAllowFrom = a.dmAllowFrom
      /\ b.groupPolicy = a.groupPolicy /\ b.groups = Without(a.groups, S)
  BY <1>1, BlockExcept
<1>3. p = [dm_policy |-> Or(a.dmPolicy, "owner"), dm_allowlist |-> Or(a.dmAllowFrom, {}),
           group_scope |-> Or(a.groupPolicy, "allowlist"),
           group_allowlist |-> Reported(a.groups) \ S,
           groups |-> Without(BuildReportedPolicy(a).groups, S)]
  BY BuildTyped, PrunedTyped DEF BuildReportedPolicy
<1>4. p \in Snapshot /\ q \in Snapshot
  BY <1>2, BuildTyped, PrunedTyped
<1> HIDE DEF b
<1>5. /\ Reported(b.groups) = Reported(a.groups) \ S
      /\ \A c \in Reported(b.groups) : b.groups[c] = a.groups[c]
  BY <1>2 DEF Reported, Without
<1>6. /\ q.dm_policy = p.dm_policy /\ q.dm_allowlist = p.dm_allowlist
      /\ q.group_scope = p.group_scope /\ q.group_allowlist = p.group_allowlist
  BY <1>2, <1>3, <1>5 DEF BuildReportedPolicy
<1>7. /\ DOMAIN q.groups = Reported(a.groups) \ S
      /\ DOMAIN p.groups = Reported(a.groups) \ S
      /\ \A c \in Reported(a.groups) \ S : p.groups[c] = BuildReportedPolicy(a).groups[c]
      /\ \A c \in Reported(a.groups) \ S : c \in Reported(b.groups)
  <2>1. DOMAIN q.groups = Reported(a.groups) \ S
    BY <1>2, <1>5, BuildTyped
  <2>2. p.groups = Without(BuildReportedPolicy(a).groups, S)
    BY <1>3
  <2>3. DOMAIN BuildReportedPolicy(a).groups = Reported(a.groups)
    BY BuildTyped
  <2>4. /\ DOMAIN p.groups = Reported(a.groups) \ S
        /\ \A c \in Reported(a.groups) \ S : p.groups[c] = BuildReportedPolicy(a).groups[c]
    BY <2>2, <2>3 DEF Without
  <2> QED BY <1>5, <2>1, <2>4
<1>8. \A c \in Reported(a.groups) \ S : q.groups[c] = p.groups[c]
  <2> SUFFICES ASSUME NEW c \in Reported(a.groups) \ S PROVE q.groups[c] = p.groups[c]
    OBVIOUS
  <2>1. c \in Reported(b.groups) /\ b.groups[c] = a.groups[c]
    BY <1>5, <1>7
  <2>2. q.groups[c] = [mode |-> ReportedMode(b.groups[c]),
                       allow_from |-> ReportedAllowFrom(b.groups[c].allowFrom)]
    BY <1>2, <2>1, ReportedRow
  <2>3. p.groups[c] = [mode |-> ReportedMode(a.groups[c]),
                       allow_from |-> ReportedAllowFrom(a.groups[c].allowFrom)]
    <3>1. p.groups[c] = BuildReportedPolicy(a).groups[c]
      BY <1>7
    <3> HIDE DEF p, q
    <3> QED BY <3>1, ReportedRow
  <2> HIDE DEF p, q
  <2> QED BY <2>1, <2>2, <2>3
<1> HIDE DEF p, q
<1>9. p = q
  BY <1>4, <1>6, <1>7, <1>8, SnapshotEqual
<1> QED BY <1>9 DEF p, q, b

\* A report that the retry prunes of refused groups is the report of the block without
\* those groups: no group stays in the allowlist table without its row.
THEOREM PrunedIsAReport == Spec => []PrunedReportIsAReport
<1>1. TypeOK => PrunedReportIsAReport
  BY PrunedReport DEF TypeOK, PrunedReportIsAReport
<1> QED BY <1>1, PolicyTypeCorrect, PTL

---------------------------------------------------------------------------
(* The settings page and the gate.                                         *)

\* A direct message is answered as the report of the block says.
LEMMA GateReadsDm ==
  ASSUME NEW a \in Block, NEW owner \in Owners, NEW sender \in Senders
  PROVE  DmHandled(a, owner, sender, FALSE) = PageAnswersDm(BuildReportedPolicy(a), owner, sender)
<1>1. sender = owner => owner # Nobody
  BY NoneIsAMember, StrangerIsSomebody DEF Owners, Senders
<1>2. /\ BuildReportedPolicy(a).dm_policy = Or(a.dmPolicy, "owner")
      /\ BuildReportedPolicy(a).dm_allowlist = Or(a.dmAllowFrom, {})
  BY DEF BuildReportedPolicy
<1>3. \/ Or(a.dmPolicy, "owner") = "open"
      \/ Or(a.dmPolicy, "owner") = "allowlist"
      \/ Or(a.dmPolicy, "owner") = "owner"
  BY Defaults DEF DmPolicies
<1> QED BY <1>1, <1>2, <1>3 DEF DmHandled, PageAnswersDm

LEMMA GateIsBoolean ==
  /\ \A a, owner, conv, sender, mentioned : GroupHandled(a, owner, conv, sender, mentioned) \in BOOLEAN
  /\ \A p, conv, sender, mentioned : PageAnswersGroup(p, conv, sender, mentioned) \in BOOLEAN
BY DEF GroupHandled, PageAnswersGroup

\* So is a message in a group, but for the owner's, where the block has no mode for the
\* group that the server does not know.
LEMMA GateReadsGroup ==
  ASSUME NEW a \in Block, NEW owner, NEW sender, sender # owner, NEW conv \in Conv,
         NEW mentioned \in BOOLEAN,
         conv \in DOMAIN a.groups => a.groups[conv].mode \in ReportedModes \cup {Absent}
  PROVE  GroupHandled(a, owner, conv, sender, mentioned)
           = PageAnswersGroup(BuildReportedPolicy(a), conv, sender, mentioned)
<1> DEFINE p == BuildReportedPolicy(a)
<1>1. /\ p.group_scope = Or(a.groupPolicy, "allowlist")
      /\ DOMAIN p.groups = Reported(a.groups) /\ ListedGroups(p) = Reported(a.groups)
  BY DEF BuildReportedPolicy, ListedGroups
<1>2. \/ p.group_scope = "open"
      \/ p.group_scope = "allowlist"
      \/ p.group_scope = "disabled"
  BY <1>1, Defaults DEF GroupScopes
<1>3. conv \in DOMAIN a.groups <=> conv \in Reported(a.groups)
  BY DEF Reported, ReportedMode, Or, ReportedModes
<1>4. CASE conv \in DOMAIN a.groups
  <2>1. p.groups[conv] = [mode |-> ReportedMode(a.groups[conv]),
                          allow_from |-> ReportedAllowFrom(a.groups[conv].allowFrom)]
    BY <1>3, <1>4, ReportedRow
  <2>2. /\ p.groups[conv].mode = Or(a.groups[conv].mode, "mention")
        /\ p.groups[conv].mode \in {"smart", "mention"}
    BY <1>3, <1>4, <2>1, ReportedRow DEF ReportedMode, ReportedModes
  <2>3. \/ a.groups[conv].allowFrom \in {Absent, {}}
        \/ p.groups[conv].allow_from = a.groups[conv].allowFrom
    BY <2>1 DEF ReportedAllowFrom
  <2>4. a.groups[conv].allowFrom \in {Absent, {}} => p.groups[conv].allow_from = {Star}
    BY <2>1 DEF ReportedAllowFrom
  <2>5. p.groups[conv].allow_from \cap {Star, sender} # {}
          <=> \/ a.groups[conv].allowFrom \in {Absent, {}}
              \/ a.groups[conv].allowFrom \cap {Star, sender} # {}
    <3>1. CASE a.groups[conv].allowFrom \in {Absent, {}}
      BY <2>4, <3>1
    <3>2. CASE a.groups[conv].allowFrom \notin {Absent, {}}
      BY <2>3, <3>2
    <3> QED BY <3>1, <3>2
  <2> HIDE DEF p
  <2>6. GroupHandled(a, owner, conv, sender, mentioned)
          <=> /\ p.group_scope # "disabled"
              /\ Or(a.groups[conv].mode, "mention") = "mention" => mentioned
              /\ p.groups[conv].allow_from \cap {Star, sender} # {}
    BY <1>1, <1>4, <2>5 DEF GroupHandled
  <2>7. PageAnswersGroup(p, conv, sender, mentioned)
          <=> /\ p.group_scope # "disabled"
              /\ mentioned \/ p.groups[conv].mode = "smart"
              /\ p.groups[conv].allow_from \cap {Star, sender} # {}
    BY <1>1, <1>2, <1>3, <1>4 DEF PageAnswersGroup
  <2>8. GroupHandled(a, owner, conv, sender, mentioned)
          <=> PageAnswersGroup(p, conv, sender, mentioned)
    BY <2>2, <2>6, <2>7
  <2> QED BY <2>8, GateIsBoolean DEF p
<1>5. CASE conv \notin DOMAIN a.groups
  <2> HIDE DEF p
  <2>6. GroupHandled(a, owner, conv, sender, mentioned)
          <=> p.group_scope \notin {"disabled", "allowlist"} /\ mentioned
    BY <1>1, <1>5 DEF GroupHandled
  <2>7. PageAnswersGroup(p, conv, sender, mentioned) <=> p.group_scope = "open" /\ mentioned
    BY <1>1, <1>3, <1>5 DEF PageAnswersGroup
  <2>8. GroupHandled(a, owner, conv, sender, mentioned)
          <=> PageAnswersGroup(p, conv, sender, mentioned)
    BY <1>2, <2>6, <2>7
  <2> QED BY <2>8, GateIsBoolean DEF p
<1> QED BY <1>4, <1>5

\* What a pass has done to bring the two in line: the block has the fingerprint of the
\* server's copy, or the server has taken the report, without the groups it refused.
Adopted == AccessFingerprint(access) = AccessFingerprint(AccessFromServerPolicy(shown))
Reports == \E S \in SUBSET Conv : shown = WithoutGroups(BuildReportedPolicy(access), S)
InLine == shown # NoSnapshot => Adopted \/ Reports

IInv == TypeOK /\ InLine

\* The server's copy and the report of the block that is in line with it show the same.
LEMMA PagesAgree ==
  ASSUME TypeOK, shown # NoSnapshot, Adopted \/ Reports
  PROVE  /\ \A owner, sender :
              PageAnswersDm(BuildReportedPolicy(access), owner, sender)
                = PageAnswersDm(shown, owner, sender)
         /\ \A conv \in Conv, mentioned \in BOOLEAN : \A sender :
              Comparable(conv) =>
                PageAnswersGroup(BuildReportedPolicy(access), conv, sender, mentioned)
                  = PageAnswersGroup(shown, conv, sender, mentioned)
<1> DEFINE p == BuildReportedPolicy(access)
<1>0. access \in Block /\ shown \in Snapshot /\ p \in Snapshot
  BY BuildTyped DEF TypeOK
<1>1. CASE Adopted
  <2>1. /\ p.dm_policy = shown.dm_policy /\ p.dm_allowlist = shown.dm_allowlist
        /\ p.group_scope = shown.group_scope
        /\ p.group_allowlist = ListedGroups(shown) /\ DOMAIN p.groups = ListedGroups(shown)
        /\ \A c \in ListedGroups(shown) :
             p.groups[c] = IF c \in DOMAIN shown.groups
                    THEN [mode |-> shown.groups[c].mode,
                          allow_from |-> IF shown.groups[c].allow_from = {} THEN {Star}
                                         ELSE shown.groups[c].allow_from]
                    ELSE [mode |-> "mention", allow_from |-> {Star}]
    <3>1. p = BuildReportedPolicy(AccessFromServerPolicy(shown))
      BY <1>1 DEF Adopted, AccessFingerprint
    <3> HIDE DEF p
    <3> QED BY <1>0, <3>1, ReportOfAdopted
  <2> HIDE DEF p
  <2>2. ASSUME NEW conv \in Conv, NEW sender, NEW mentioned \in BOOLEAN, Comparable(conv)
        PROVE  PageAnswersGroup(p, conv, sender, mentioned)
                 = PageAnswersGroup(shown, conv, sender, mentioned)
    <3>1. ListedGroups(p) = ListedGroups(shown) /\ DOMAIN shown.groups \subseteq ListedGroups(shown)
      BY <2>1 DEF ListedGroups
    <3>2. CASE conv \in DOMAIN shown.groups
      <4>1. /\ p.groups[conv].mode = shown.groups[conv].mode
            /\ p.groups[conv].allow_from = shown.groups[conv].allow_from
        <5>1. shown.groups[conv].allow_from # {}
          BY <2>2, <3>2 DEF Comparable
        <5>2. p.groups[conv] = [mode |-> shown.groups[conv].mode,
                                allow_from |-> IF shown.groups[conv].allow_from = {} THEN {Star}
                                               ELSE shown.groups[conv].allow_from]
          BY <2>1, <3>1, <3>2
        <5> QED BY <5>1, <5>2
      <4> QED BY <2>1, <3>1, <3>2, <4>1 DEF PageAnswersGroup
    <3>3. CASE conv \in ListedGroups(shown) \ DOMAIN shown.groups
      <4>1. p.groups[conv].mode = "mention" /\ p.groups[conv].allow_from = {Star}
        <5>1. p.groups[conv] = [mode |-> "mention", allow_from |-> {Star}]
          BY <2>1, <3>3
        <5> QED BY <5>1
      <4> QED BY <2>1, <3>1, <3>3, <4>1 DEF PageAnswersGroup
    <3>4. CASE conv \notin ListedGroups(shown)
      BY <2>1, <3>1, <3>4 DEF PageAnswersGroup
    <3> QED BY <3>2, <3>3, <3>4
  <2>3. \A owner, sender : PageAnswersDm(p, owner, sender) = PageAnswersDm(shown, owner, sender)
    BY <2>1 DEF PageAnswersDm
  <2> QED BY <2>2, <2>3 DEF p
<1>2. CASE Reports
  <2>1. PICK S \in SUBSET Conv : shown = WithoutGroups(p, S)
    BY <1>2 DEF Reports
  <2>2. shown = [dm_policy |-> p.dm_policy, dm_allowlist |-> p.dm_allowlist,
              group_scope |-> p.group_scope, group_allowlist |-> p.group_allowlist \ S,
              groups |-> Without(p.groups, S)]
    BY <1>0, <2>1, PrunedTyped
  <2>3. p.group_allowlist = Reported(access.groups) /\ DOMAIN p.groups = Reported(access.groups)
    BY DEF BuildReportedPolicy
  <2> HIDE DEF p
  <2>4. /\ shown.dm_policy = p.dm_policy /\ shown.dm_allowlist = p.dm_allowlist
        /\ shown.group_scope = p.group_scope
        /\ shown.groups = Without(p.groups, S)
        /\ shown.group_allowlist = Reported(access.groups) \ S
    BY <2>2, <2>3
  <2>5. /\ DOMAIN shown.groups = Reported(access.groups) \ S
        /\ \A c \in DOMAIN shown.groups : shown.groups[c] = p.groups[c]
    BY <2>3, <2>4 DEF Without
  <2>6. ListedGroups(shown) = Reported(access.groups) \ S /\ ListedGroups(p) = Reported(access.groups)
    BY <2>3, <2>4, <2>5 DEF ListedGroups
  <2>7. ASSUME NEW conv \in Conv, NEW sender, NEW mentioned \in BOOLEAN, Comparable(conv)
        PROVE  PageAnswersGroup(p, conv, sender, mentioned)
                 = PageAnswersGroup(shown, conv, sender, mentioned)
    <3>1. conv \in DOMAIN p.groups <=> conv \in DOMAIN shown.groups
      BY <2>3, <2>5, <2>6, <2>7 DEF Comparable, Reported
    <3>2. conv \in ListedGroups(p) <=> conv \in ListedGroups(shown)
      BY <2>3, <2>5, <2>6, <3>1
    <3> QED BY <2>4, <2>5, <3>1, <3>2 DEF PageAnswersGroup
  <2>8. \A owner, sender : PageAnswersDm(p, owner, sender) = PageAnswersDm(shown, owner, sender)
    BY <2>4 DEF PageAnswersDm
  <2> QED BY <2>7, <2>8 DEF p
<1> QED BY <1>1, <1>2

LEMMA NextInLine == TypeOK /\ InLine /\ [Next]_vars => InLine'
<1> SUFFICES ASSUME TypeOK, InLine, [Next]_vars PROVE InLine'
  OBVIOUS
<1>1. ASSUME NEW e \in Events, ConfigEvent(e) PROVE InLine'
  BY <1>1 DEF ConfigEvent, InLine
<1>2. ASSUME NEW snapshot \in Snapshot, AdoptServer(snapshot) PROVE InLine'
  <2>1. Adopted'
    BY <1>2 DEF AdoptServer, Adopted
  <2> QED BY <2>1 DEF InLine
<1>3. ASSUME NEW named \in SUBSET Conv, Report(named) PROVE InLine'
  <2> DEFINE S == StaleGroupIdsFromError(named, BuildReportedPolicy(access))
  <2>1. S \in SUBSET Conv
    BY DEF StaleGroupIdsFromError
  <2>2. shown' = WithoutGroups(BuildReportedPolicy(access'), S)
    BY <1>3 DEF Report
  <2> HIDE DEF S
  <2>3. Reports'
    BY <2>1, <2>2 DEF Reports
  <2> QED BY <2>3 DEF InLine
<1>4. CASE UNCHANGED vars
  BY <1>4 DEF vars, InLine, Adopted, Reports
<1> QED BY <1>1, <1>2, <1>3, <1>4 DEF Next

\* Once a pass has adopted the server's policy or reported the local one, the gate
\* answers in direct messages and in every group both sides can speak of exactly the
\* members that the settings page shows.
THEOREM PageIsEnforced == Spec => []PageShowsWhatIsEnforced
<1>1. Init => IInv
  BY DEF Init, IInv, TypeOK, InLine
<1>2. IInv /\ [Next]_vars => IInv'
  BY NextTypeOK, NextInLine DEF IInv
<1>3. IInv => PageShowsWhatIsEnforced
  <2> SUFFICES ASSUME IInv, shown # NoSnapshot, NEW owner \in Owners, NEW sender \in Senders
               PROVE  /\ DmHandled(access, owner, sender, FALSE)
                           = PageAnswersDm(shown, owner, sender)
                      /\ sender # owner =>
                           \A conv \in Conv, mentioned \in BOOLEAN :
                             Comparable(conv) =>
                               GroupHandled(access, owner, conv, sender, mentioned)
                                 = PageAnswersGroup(shown, conv, sender, mentioned)
    BY DEF PageShowsWhatIsEnforced
  <2>1. access \in Block /\ TypeOK /\ (Adopted \/ Reports)
    BY DEF IInv, TypeOK, InLine
  <2>2. DmHandled(access, owner, sender, FALSE) = PageAnswersDm(shown, owner, sender)
    BY <2>1, GateReadsDm, PagesAgree
  <2>3. ASSUME sender # owner, NEW conv \in Conv, NEW mentioned \in BOOLEAN, Comparable(conv)
        PROVE  GroupHandled(access, owner, conv, sender, mentioned)
                 = PageAnswersGroup(shown, conv, sender, mentioned)
    <3>1. conv \in DOMAIN access.groups => access.groups[conv].mode \in ReportedModes \cup {Absent}
      BY <2>3 DEF Comparable, Expressible
    <3>2. GroupHandled(access, owner, conv, sender, mentioned)
            = PageAnswersGroup(BuildReportedPolicy(access), conv, sender, mentioned)
      BY <2>1, <2>3, <3>1, GateReadsGroup
    <3>3. PageAnswersGroup(BuildReportedPolicy(access), conv, sender, mentioned)
            = PageAnswersGroup(shown, conv, sender, mentioned)
      <4>1. \A d \in Conv, m \in BOOLEAN : \A s :
              Comparable(d) => PageAnswersGroup(BuildReportedPolicy(access), d, s, m)
                                 = PageAnswersGroup(shown, d, s, m)
        BY <2>1, PagesAgree
      <4> QED BY <2>3, <4>1
    <3> QED BY <3>2, <3>3
  <2> QED BY <2>2, <2>3
<1> QED BY <1>1, <1>2, <1>3, PTL DEF Spec
=============================================================================
