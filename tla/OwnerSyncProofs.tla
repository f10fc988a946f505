--------------------------- MODULE OwnerSyncProofs ---------------------------
(* Proofs about OwnerSync: for any members and any number of overlapping     *)
(* passes, the name is the owner's, and only core rebinds the owner.         *)
EXTENDS OwnerSync, TLAPS

Safe == TypeOK /\ NameBelongsToOwner

\* What a pass has read was core's owner at some time; it goes for a name only
\* with an owner in hand.
ReadsAreCores ==
  \A r \in Pass :
    /\ pass[r].read \in hadOwner \cup {Nobody}
    /\ pass[r].pc = "name" => pass[r].read # Nobody

CoreIsRecorded == core \in hadOwner \cup {Nobody}

IInv == Safe /\ ReadsAreCores /\ CoreIsRecorded

\* The steps that leave the owner and the passes alone.
Environment ==
  \/ \E m \in MemberOrNone : CoreChanges(m)
  \/ \E m \in Member : GetsName(m)
  \/ ApplyMemberId \/ Disconnect \/ Restart

LEMMA InitIInv == Init => IInv
<1> SUFFICES ASSUME Init PROVE IInv
  OBVIOUS
<1> USE DEF Init, MemberOrNone
<1>1. PICK m \in MemberOrNone : owner \in {[id |-> m, name |-> n] : n \in {Nobody, m}}
  OBVIOUS
<1>2. PICK n \in {Nobody, m} : owner = [id |-> m, name |-> n]
  BY <1>1
<1>3. owner \in Owner /\ NameBelongsToOwner
  BY <1>2 DEF Owner, NameBelongsToOwner
<1>4. Idle \in PassState
  BY DEF Idle, PassState, Owner
<1>5. TypeOK
  <2>1. pass \in [Pass -> PassState]
    BY <1>4
  <2>2. moves \in 0 .. MaxMoves /\ dms \in 0 .. MaxDMs
    BY ConstAssumption
  <2>3. hadOwner \subseteq Member /\ up \in BOOLEAN /\ selfKnown \in BOOLEAN /\ signal \in BOOLEAN
    OBVIOUS
  <2> QED BY <1>3, <2>1, <2>2, <2>3 DEF TypeOK
<1>6. ReadsAreCores /\ CoreIsRecorded
  BY DEF ReadsAreCores, CoreIsRecorded, Idle
<1> QED BY <1>3, <1>5, <1>6 DEF IInv, Safe

\* A pass that only goes on leaves the owner alone.
PassGoesOn(r) == Begin(r) \/ CoreAnswers(r) \/ ReadFails(r) \/ AnswerLost(r) \/ ReadArrives(r)

LEMMA PassKeepsIInv ==
  ASSUME IInv, NEW r \in Pass, PassGoesOn(r), signal' \in BOOLEAN
  PROVE  IInv'
<1> TypeOK /\ NameBelongsToOwner /\ ReadsAreCores /\ CoreIsRecorded
  BY DEF IInv, Safe
<1>1. PICK p \in PassState :
        /\ pass' = [pass EXCEPT ![r] = p]
        /\ p.read \in hadOwner \cup {Nobody}
        /\ p.pc = "name" => p.read # Nobody
  <2> pass \in [Pass -> PassState] /\ owner \in Owner /\ core \in MemberOrNone
    BY DEF TypeOK
  <2>1. CASE Begin(r)
    <3> DEFINE p == [pass[r] EXCEPT !.pc = "self"]
    <3>1. p \in PassState /\ p.pc = "self" /\ p.read = pass[r].read
      BY DEF PassState
    <3> QED BY <2>1, <3>1 DEF Begin, ReadsAreCores
  <2>2. CASE CoreAnswers(r)
    <3> DEFINE p == [pass[r] EXCEPT !.pc = "told", !.read = core]
    <3>1. p \in PassState /\ p.pc = "told" /\ p.read = core
      BY DEF PassState
    <3>2. pass' = [pass EXCEPT ![r] = p]
      BY <2>2 DEF CoreAnswers
    <3> QED BY <3>1, <3>2 DEF CoreIsRecorded
  <2>3. Idle \in PassState /\ Idle.pc = "idle" /\ Idle.read = Nobody
    BY DEF Idle, PassState, Owner, MemberOrNone
  <2>4. CASE ReadFails(r) \/ AnswerLost(r)
    BY <2>3, <2>4 DEF ReadFails, AnswerLost
  <2>5. CASE ReadArrives(r)
    <3> DEFINE p == [pass[r] EXCEPT !.pc = "name", !.known = owner]
    <3>1. p \in PassState /\ p.pc = "name" /\ p.read = pass[r].read
      BY DEF PassState
    <3>2. CASE NothingToDo(pass[r].read)
      BY <2>3, <2>5, <3>2 DEF ReadArrives
    <3>3. CASE ~NothingToDo(pass[r].read)
      <4>1. pass' = [pass EXCEPT ![r] = p]
        BY <2>5, <3>3 DEF ReadArrives
      <4>2. pass[r].read # Nobody
        BY <3>3 DEF NothingToDo
      <4> QED BY <3>1, <4>1, <4>2 DEF ReadsAreCores
    <3> QED BY <3>2, <3>3
  <2> QED BY <2>1, <2>2, <2>4, <2>5 DEF PassGoesOn
<1>2. /\ up' = up /\ dmPolicy' = dmPolicy /\ selfKnown' = selfKnown /\ core' = core
      /\ named' = named /\ owner' = owner /\ hadOwner' = hadOwner
      /\ moves' = moves /\ dms' = dms
  BY DEF PassGoesOn, Begin, CoreAnswers, ReadFails, AnswerLost, ReadArrives
<1>3. pass \in [Pass -> PassState]
  BY DEF TypeOK
<1>4. /\ pass' \in [Pass -> PassState]
      /\ \A q \in Pass : pass'[q] = IF q = r THEN p ELSE pass[q]
  BY <1>1, <1>3
<1>5. TypeOK'
  <2>1. TypeOK
    OBVIOUS
  <2> QED BY <1>2, <1>4, <2>1 DEF TypeOK
<1>6. ReadsAreCores'
  <2>1. ReadsAreCores
    OBVIOUS
  <2> SUFFICES ASSUME NEW q \in Pass
               PROVE  /\ pass'[q].read \in hadOwner \cup {Nobody}
                      /\ pass'[q].pc = "name" => pass'[q].read # Nobody
    BY <1>2 DEF ReadsAreCores
  <2> QED BY <1>1, <1>4, <2>1 DEF ReadsAreCores
<1>7. CoreIsRecorded' /\ NameBelongsToOwner'
  BY <1>2 DEF CoreIsRecorded, NameBelongsToOwner
<1> QED BY <1>5, <1>6, <1>7 DEF IInv, Safe

\* The pass that arrives with a name writes the owner it read, and his name.
LEMMA NameKeepsIInv ==
  ASSUME IInv, NEW r \in Pass, NameFound(r) \/ NoName(r)
  PROVE  IInv' /\ owner'.id \in {owner.id} \cup hadOwner
<1> USE DEF IInv, Safe
<1> pass \in [Pass -> PassState] /\ owner \in Owner
  BY DEF TypeOK
<1>1. PICK name \in {Nobody, pass[r].read} : NameArrives(r, name)
  BY DEF NameFound, NoName
<1>2. pass[r].read \in MemberOrNone /\ pass[r].read \in hadOwner
  BY <1>1 DEF PassState, ReadsAreCores, NameArrives
<1>3. SetOwner(r, name) \in Owner /\ SetOwner(r, name).id = pass[r].read
                                  /\ SetOwner(r, name).name = name
  BY <1>1, <1>2 DEF SetOwner, Owner, MemberOrNone
<1>4. owner' \in {owner, SetOwner(r, name)}
  BY <1>1 DEF NameArrives
<1>5. Idle \in PassState /\ Idle.pc = "idle" /\ Idle.read = Nobody
  BY DEF Idle, PassState, Owner, MemberOrNone
<1>6. /\ pass' = [pass EXCEPT ![r] = Idle]
      /\ UNCHANGED <<up, dmPolicy, selfKnown, core, named, signal, hadOwner, moves, dms>>
  BY <1>1 DEF NameArrives
<1>7. TypeOK'
  BY <1>3, <1>4, <1>5, <1>6 DEF TypeOK
<1>8. NameBelongsToOwner'
  BY <1>3, <1>4 DEF NameBelongsToOwner
<1>9. ReadsAreCores' /\ CoreIsRecorded'
  BY <1>5, <1>6 DEF ReadsAreCores, CoreIsRecorded
<1> QED BY <1>2, <1>3, <1>4, <1>7, <1>8, <1>9

\* A direct message binds its sender only where nobody is bound.
LEMMA MessageKeepsIInv ==
  ASSUME IInv, NEW m \in Member, NEW name \in {Nobody, m}, DirectMessage(m, name)
  PROVE  IInv' /\ (owner.id # Nobody => owner'.id = owner.id)
<1> USE DEF IInv, Safe
<1> owner \in Owner /\ dms \in 0 .. MaxDMs /\ dms' \in 0 .. MaxDMs
  BY ConstAssumption DEF TypeOK, DirectMessage
<1>1. UNCHANGED <<up, dmPolicy, selfKnown, core, named, signal, pass, hadOwner, moves>>
  BY DEF DirectMessage
<1>2. \/ owner' = owner
      \/ owner.id = Nobody /\ owner' = [id |-> m, name |-> name]
      \/ m = owner.id /\ owner' = [owner EXCEPT !.name = name]
  BY DEF DirectMessage, OwnerBound, OwnerNameHint, Map!BindsOwner
<1>3. owner' \in Owner /\ NameBelongsToOwner'
  BY <1>2 DEF Owner, MemberOrNone, NameBelongsToOwner
<1>4. owner.id # Nobody => owner'.id = owner.id
  BY <1>2 DEF Owner
<1>5. TypeOK'
  BY <1>1, <1>3 DEF TypeOK
<1>6. ReadsAreCores' /\ CoreIsRecorded'
  BY <1>1 DEF ReadsAreCores, CoreIsRecorded
<1> QED BY <1>3, <1>4, <1>5, <1>6

LEMMA EnvironmentKeepsIInv ==
  ASSUME IInv, Environment
  PROVE  IInv' /\ UNCHANGED owner
<1> USE DEF IInv, Safe
<1>1. UNCHANGED <<owner, pass, dms>>
  BY DEF Environment, CoreChanges, GetsName, ApplyMemberId, Disconnect, Restart
<1>2. TypeOK'
  <2>1. ASSUME NEW m \in MemberOrNone, CoreChanges(m) PROVE TypeOK'
    <3>1. moves' \in 0 .. MaxMoves
      BY <2>1, ConstAssumption DEF CoreChanges, TypeOK
    <3> QED BY <2>1, <3>1 DEF CoreChanges, TypeOK, MemberOrNone
  <2>2. ASSUME NEW m \in Member, GetsName(m) PROVE TypeOK'
    BY <2>2 DEF GetsName, TypeOK
  <2>3. CASE ApplyMemberId \/ Disconnect \/ Restart
    BY <2>3 DEF ApplyMemberId, Disconnect, Restart, TypeOK
  <2> QED BY <2>1, <2>2, <2>3 DEF Environment
<1>3. CoreIsRecorded' /\ hadOwner \subseteq hadOwner'
  BY DEF Environment, CoreChanges, GetsName, ApplyMemberId, Disconnect, Restart, CoreIsRecorded
<1>4. ReadsAreCores' /\ NameBelongsToOwner'
  BY <1>1, <1>3 DEF ReadsAreCores, NameBelongsToOwner
<1> QED BY <1>1, <1>2, <1>3, <1>4

LEMMA CrashKeepsIInv ==
  ASSUME IInv, Crash
  PROVE  IInv' /\ UNCHANGED owner
<1>1. Idle \in PassState /\ Idle.pc = "idle" /\ Idle.read = Nobody
  BY DEF Idle, PassState, Owner, MemberOrNone
<1> QED BY <1>1 DEF IInv, Safe, Crash, TypeOK, NameBelongsToOwner, ReadsAreCores, CoreIsRecorded

\* A bound owner changes only to one that core has had.
Rebind == owner.id # Nobody => owner'.id \in {owner.id} \cup hadOwner

LEMMA NextIInv == IInv /\ [Next]_vars => IInv' /\ Rebind
<1> SUFFICES ASSUME IInv, [Next]_vars PROVE IInv' /\ Rebind
  OBVIOUS
<1>1. CASE Environment
  BY <1>1, EnvironmentKeepsIInv DEF Rebind
<1>2. CASE Crash
  BY <1>2, CrashKeepsIInv DEF Rebind
<1>3. ASSUME NEW m \in Member, DirectMessage(m, m) \/ DirectMessage(m, Nobody)
      PROVE  IInv' /\ Rebind
  BY <1>3, MessageKeepsIInv DEF Rebind
<1>4. ASSUME NEW r \in Pass, \/ Tick(r) \/ OwnerChangedEvent(r) \/ CoreAnswers(r)
                             \/ ReadFails(r) \/ AnswerLost(r) \/ ReadArrives(r)
      PROVE  IInv' /\ Rebind
  <2>1. PassGoesOn(r) /\ UNCHANGED owner
    BY <1>4 DEF PassGoesOn, Tick, OwnerChangedEvent, Begin, CoreAnswers, ReadFails,
                AnswerLost, ReadArrives
  <2>2. signal' \in BOOLEAN
    BY <1>4 DEF IInv, Safe, TypeOK, Tick, OwnerChangedEvent, CoreAnswers, ReadFails,
                AnswerLost, ReadArrives
  <2> QED BY <2>1, <2>2, PassKeepsIInv DEF Rebind
<1>5. ASSUME NEW r \in Pass, NameFound(r) \/ NoName(r) PROVE IInv' /\ Rebind
  BY <1>5, NameKeepsIInv DEF Rebind
<1>6. CASE UNCHANGED vars
  BY <1>6 DEF vars, IInv, Safe, TypeOK, NameBelongsToOwner, ReadsAreCores, CoreIsRecorded, Rebind
<1> QED BY <1>1, <1>2, <1>3, <1>4, <1>5, <1>6 DEF Next, Environment

\* Every reachable state is well typed.
THEOREM OwnerTypeCorrect == Spec => []TypeOK
<1>1. IInv => TypeOK
  BY DEF IInv, Safe
<1> QED BY <1>1, InitIInv, NextIInv, PTL DEF Spec

\* The name in force is the owner's or empty (setOwner and onOwnerNameHint of
\* config.js), for any number of overlapping passes, messages and changes in core.
THEOREM NamesBelongToOwners == Spec => []NameBelongsToOwner
<1>1. IInv => NameBelongsToOwner
  BY DEF IInv, Safe
<1> QED BY <1>1, InitIInv, NextIInv, PTL DEF Spec

\* Once bound, the owner changes only to one that core has had on record
\* (syncOwnerFromCore), never to nobody.
THEOREM OwnersComeFromCore == Spec => OnlyCoreRebinds
<1>1. Rebind => [owner.id # Nobody => owner'.id \in {owner.id} \cup hadOwner]_vars
  BY DEF Rebind
<1> QED BY <1>1, InitIInv, NextIInv, PTL DEF Spec, OnlyCoreRebinds
=============================================================================
