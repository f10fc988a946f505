----------------------------- MODULE OwnerSync -----------------------------
(***************************************************************************)
(* Who the agent's owner is: cws-core has it on record, the agent pulls it *)
(* (syncOwnerFromCore, src/src/config.js) every five minutes and when an   *)
(* owner_changed event says so (src/src/owner-sync.js), and until core has *)
(* one the first direct message binds its sender (decideInbound).          *)
(*                                                                         *)
(* A pass reads our own member record, then the owner's for its name, and  *)
(* then writes both; nothing keeps two passes from overlapping.  Names are *)
(* told apart by whose they are.                                           *)
(***************************************************************************)
EXTENDS Naturals

CONSTANTS
  Member,    \* who can be an owner, or write a direct message
  Nobody,    \* no owner, and an empty name
  Pass,      \* the passes that may overlap
  MaxMoves,  \* bound: changes of the owner in core
  MaxDMs     \* bound: direct messages

ASSUME ConstAssumption == Nobody \notin Member /\ MaxMoves \in Nat /\ MaxDMs \in Nat

\* Only what a direct message's fate depends on is kept of the access block.
Map == INSTANCE PolicyMap WITH Conv <- {}, Star <- "*", Absent <- "undefined"
Block(policy) == [dmPolicy |-> policy, dmAllowFrom |-> {}]

VARIABLES
  up,        \* does the agent run?
  dmPolicy,  \* the access block's
  selfKnown, \* has a token exchange brought our member id?
  core,      \* cws-core: our owner_member_id, or Nobody
  named,     \* cws-core: members with a display name
  owner,     \* org.owner, in memory and persisted: [id, name]
  signal,    \* an owner_changed event is on the WebSocket
  pass,      \* the passes under way
  hadOwner,  \* ghost: the owners core has had
  moves, dms

vars == <<up, dmPolicy, selfKnown, core, named, owner, signal, pass, hadOwner, moves, dms>>

MemberOrNone == Member \cup {Nobody}
Owner == [id : MemberOrNone, name : MemberOrNone]

\* "self": the own record is requested; "told": core has answered; "name": the
\* owner's record is requested.  read is core's answer; known is the local owner
\* as it was when that was looked at.
Idle == [pc |-> "idle", read |-> Nobody, known |-> [id |-> Nobody, name |-> Nobody]]
PassState == [pc : {"idle", "self", "told", "name"}, read : MemberOrNone, known : Owner]

TypeOK ==
  /\ up \in BOOLEAN /\ dmPolicy \in Map!DmPolicies /\ selfKnown \in BOOLEAN
  /\ core \in MemberOrNone /\ named \subseteq Member /\ owner \in Owner
  /\ signal \in BOOLEAN /\ pass \in [Pass -> PassState] /\ hadOwner \subseteq Member
  /\ moves \in 0 .. MaxMoves /\ dms \in 0 .. MaxDMs

\* A configured owner may be there already, from an earlier run or by hand.
Init ==
  /\ up = TRUE /\ selfKnown = FALSE
  /\ dmPolicy \in Map!DmPolicies
  /\ core \in MemberOrNone /\ hadOwner = {core} \ {Nobody}
  /\ named \in SUBSET Member
  /\ \E m \in MemberOrNone : owner \in {[id |-> m, name |-> n] : n \in {Nobody, m}}
  /\ signal = FALSE /\ pass = [r \in Pass |-> Idle]
  /\ moves = 0 /\ dms = 0

---------------------------------------------------------------------------
(* The workspace.                                                          *)

\* The agent is given to someone, or to nobody; a connected agent is told.
CoreChanges(m) ==
  /\ moves < MaxMoves /\ moves' = moves + 1
  /\ m # core /\ core' = m /\ hadOwner' = hadOwner \cup ({m} \ {Nobody})
  /\ signal' = up
  /\ UNCHANGED <<up, dmPolicy, selfKnown, named, owner, pass, dms>>

\* A member without a display name gets one.
GetsName(m) ==
  /\ m \notin named /\ named' = named \cup {m}
  /\ UNCHANGED <<up, dmPolicy, selfKnown, core, owner, signal, pass, hadOwner, moves, dms>>

\* The token exchange's answer names our own member record.
ApplyMemberId ==
  /\ up /\ ~selfKnown /\ selfKnown' = TRUE
  /\ UNCHANGED <<up, dmPolicy, core, named, owner, signal, pass, hadOwner, moves, dms>>

Disconnect ==
  /\ signal /\ signal' = FALSE
  /\ UNCHANGED <<up, dmPolicy, selfKnown, core, named, owner, pass, hadOwner, moves, dms>>

\* The passes and the event die with the process; the member id and the owner
\* are in config.json.
Crash ==
  /\ up /\ up' = FALSE
  /\ signal' = FALSE /\ pass' = [r \in Pass |-> Idle]
  /\ UNCHANGED <<dmPolicy, selfKnown, core, named, owner, hadOwner, moves, dms>>

Restart ==
  /\ ~up /\ up' = TRUE
  /\ UNCHANGED <<dmPolicy, selfKnown, core, named, owner, signal, pass, hadOwner, moves, dms>>

---------------------------------------------------------------------------
(* Direct messages.                                                        *)

\* onOwnerBind, or onOwnerNameHint for an owner who had no name.
OwnerBound(sender, name) == [id |-> sender, name |-> name]
OwnerNameHint(name) == [owner EXCEPT !.name = name]

\* decideInbound and what follows it.
DirectMessage(sender, name) ==
  /\ up /\ dms < MaxDMs /\ dms' = dms + 1
  /\ owner' = IF Map!BindsOwner(Block(dmPolicy), owner.id) THEN OwnerBound(sender, name)
              ELSE IF sender = owner.id /\ owner.name = Nobody THEN OwnerNameHint(name)
              ELSE owner
  /\ UNCHANGED <<up, dmPolicy, selfKnown, core, named, signal, pass, hadOwner, moves>>

---------------------------------------------------------------------------
(* syncOwnerFromCore.                                                      *)

Begin(r) ==
  /\ up /\ selfKnown /\ pass[r].pc = "idle"
  /\ pass' = [pass EXCEPT ![r].pc = "self"]
  /\ UNCHANGED <<up, dmPolicy, selfKnown, core, named, owner, hadOwner, moves, dms>>

Tick(r) == Begin(r) /\ UNCHANGED signal

\* The event is only a reason to pull.
OwnerChangedEvent(r) == signal /\ signal' = FALSE /\ Begin(r)

\* Core answers with the owner of that moment; the answer is under way.
CoreAnswers(r) ==
  /\ pass[r].pc = "self"
  /\ pass' = [pass EXCEPT ![r].pc = "told", ![r].read = core]
  /\ UNCHANGED <<up, dmPolicy, selfKnown, core, named, owner, signal, hadOwner, moves, dms>>

\* The request fails: the local owner stays.
ReadFails(r) ==
  /\ pass[r].pc = "self"
  /\ pass' = [pass EXCEPT ![r] = Idle]
  /\ UNCHANGED <<up, dmPolicy, selfKnown, core, named, owner, signal, hadOwner, moves, dms>>

\* The guarded fetch times out although core has answered, or the connection ends:
\* the request is aborted and the late answer is not seen.
AnswerLost(r) ==
  /\ pass[r].pc = "told"
  /\ pass' = [pass EXCEPT ![r] = Idle]
  /\ UNCHANGED <<up, dmPolicy, selfKnown, core, named, owner, signal, hadOwner, moves, dms>>

\* Mutant: an owner that core has dropped is dropped here.
NothingToDo_Clears(read) == read = owner.id /\ owner.name # Nobody

\* Mutant: a bound owner whose id matches is in sync, name or not.
NothingToDo_IdOnly(read) == read \in {Nobody, owner.id}

\* Core has no owner, or we have its id and a name.
NothingToDo(read) == read = Nobody \/ (read = owner.id /\ owner.name # Nobody)

ReadArrives(r) ==
  /\ pass[r].pc = "told"
  /\ pass' = [pass EXCEPT ![r] = IF NothingToDo(pass[r].read) THEN Idle
                                 ELSE [@ EXCEPT !.pc = "name", !.known = owner]]
  /\ UNCHANGED <<up, dmPolicy, selfKnown, core, named, owner, signal, hadOwner, moves, dms>>

\* Mutant: an owner of the same id only gets the name that was fetched.
SetOwner_NameOnly(r, name) ==
  IF pass[r].read = pass[r].known.id THEN [owner EXCEPT !.name = name]
  ELSE [id |-> pass[r].read, name |-> name]

\* Mutant: the owner is written only where none is bound.
SetOwner_FirstOnly(r, name) ==
  IF owner.id = Nobody THEN [id |-> pass[r].read, name |-> name] ELSE owner

\* Mutant: an empty name is left out of the record.
SetOwner_NoDefault(r, name) ==
  IF name = Nobody THEN [id |-> pass[r].read] ELSE [id |-> pass[r].read, name |-> name]

\* What a pass writes: the owner it read, with the name it got.
SetOwner(r, name) == [id |-> pass[r].read, name |-> name]

\* It writes when the id, or a name that is not empty, differs from what it knew.
NameArrives(r, name) ==
  /\ pass[r].pc = "name"
  /\ owner' = IF pass[r].read # pass[r].known.id \/ name \notin {Nobody, pass[r].known.name}
              THEN SetOwner(r, name) ELSE owner
  /\ pass' = [pass EXCEPT ![r] = Idle]
  /\ UNCHANGED <<up, dmPolicy, selfKnown, core, named, signal, hadOwner, moves, dms>>

NameFound(r) == pass[r].read \in named /\ NameArrives(r, pass[r].read)

\* No display name, or the request failed: the name is cosmetic.
NoName(r) == NameArrives(r, Nobody)

---------------------------------------------------------------------------
Next ==
  \/ \E m \in MemberOrNone : CoreChanges(m)
  \/ \E m \in Member : GetsName(m) \/ DirectMessage(m, m) \/ DirectMessage(m, Nobody)
  \/ ApplyMemberId \/ Disconnect \/ Crash \/ Restart
  \/ \E r \in Pass : \/ Tick(r) \/ OwnerChangedEvent(r) \/ CoreAnswers(r) \/ ReadFails(r)
                     \/ AnswerLost(r) \/ ReadArrives(r) \/ NameFound(r) \/ NoName(r)

Spec == Init /\ [][Next]_vars

\* The agent stays up in the end and gets a token; ticks recur; a request that is
\* made again and again is answered in the end.  No event has to arrive.
FairSpec ==
  /\ Spec /\ <>[]up
  /\ WF_vars(ApplyMemberId)
  /\ \A r \in Pass :
       /\ WF_vars(Tick(r)) /\ SF_vars(CoreAnswers(r)) /\ SF_vars(ReadArrives(r))
       /\ SF_vars(NameFound(r)) /\ WF_vars(NoName(r))

---------------------------------------------------------------------------
\* A name is only ever shown for its owner: however passes, messages and changes
\* of the owner interleave, the name in force is the owner's or empty.
NameBelongsToOwner == owner.name \in {Nobody, owner.id}

\* "We NEVER trust an owner value handed to us in a frame" and "we never CLEAR a
\* local owner here" (config.js): once bound, the owner changes only to one that
\* core has had on record, and never to nobody, so that no later direct message
\* can bind its sender.
OnlyCoreRebinds ==
  [][owner.id # Nobody => owner'.id \in {owner.id} \cup hadOwner]_vars

\* Whatever is lost (events, requests, the process) and however late answers
\* cross, the owner core settles on becomes the agent's, for good.
OwnerFollowsCore == <>[](core # Nobody => owner.id = core)

\* And with the name core has for it, also when the first lookup failed.
OwnerGetsItsName == <>[](core \in named => owner.name = core)
=============================================================================
