---------------------------- MODULE IdentityProofs ----------------------------
(***************************************************************************)
(* Proofs about Identity.  No session works with a cursor of another       *)
(* identity, and one whose marker is in place catches up from the promise  *)
(* on, while no purge or start was cut short; a retired promise is not     *)
(* replayed; one run registers one identity; and the key of an ONBOARD OK  *)
(* stays in the config: for any keys, runs and starts.                     *)
(***************************************************************************)
EXTENDS Identity, TLAPS

OnbRec ==
  [at : {"idle", "merge", "register", "writeKey", "accept", "writeAccepted", "finish"},
   mem : Copy, new : BOOLEAN, made : SUBSET Key]

SessRec ==
  [at : {"off", "wait", "guard", "rmToken", "rmSession", "rmLedger", "hydrate", "load", "run"},
   key : Key \cup {None}, cursor : NoCursor .. MaxMessages, from : Key \cup {None},
   conn : BOOLEAN, marked : BOOLEAN, first : BOOLEAN,
   note : FirstSync \cup {None}]

\* What a session knows before it runs: nothing but its key.
RunsOnly ==
  sess.at # "run" =>
    ~sess.conn /\ ~sess.marked /\ ~sess.first /\ sess.note = None /\ sess.cursor = NoCursor

Typed == TypeOK /\ sess \in SessRec /\ RunsOnly

\* Every key on the machine is one the server issued.
KeysAreIssued ==
  /\ Readable => config.key \in issued \cup {None}
  /\ onb.mem.key \in issued \cup {None}
  /\ onb.at \notin {"idle", "merge", "register"} => onb.mem.key \in issued
  /\ hook.at # "idle" => hook.mem.key \in issued
  /\ tools \subseteq issued
  /\ sess.at \notin {"off", "wait"} => sess.key \in issued

\* Before its registration a run has registered nothing.
NothingMade ==
  /\ onb.at \in {"idle", "merge", "register"} => onb.made = {}
  /\ onb.at \in {"merge", "register"} => ~onb.new

\* Nobody is left who could put another key into the config.
NobodyElse ==
  onboarded # None /\ ~older =>
    /\ config = CopyOf(onboarded)
    /\ onb.at = "idle" /\ hook.at = "idle" /\ tools \subseteq {onboarded}
    /\ sess.at \notin {"off", "wait"} => sess.key = onboarded

\* The session file and the ledger are those of key k, or not there.
FilesOf(k) ==
  /\ session = None <=> ledger = None
  /\ session # None => session.key = k /\ ledger.key = k

\* Between sessions the files are the marker's, or a token without a marker gives them away.
AtRest ==
  /\ session = None <=> ledger = None
  /\ session # None =>
       /\ ledger.key = session.key
       /\ marker \in {session.key, None}
       /\ marker = None => token # None

DiskIsOurs ==
  ~cut =>
    /\ sess.at \in {"off", "wait", "guard", "rmToken"} => AtRest
    /\ sess.at = "rmLedger" => session = None
    /\ sess.at \in {"hydrate", "load"} =>
         FilesOf(sess.key) /\ (session # None => marker = sess.key)
    /\ sess.at = "run" =>
         FilesOf(sess.key) /\ sess.from = sess.key /\ (sess.marked => marker = sess.key)

\* An issued key had a cursor, or has its promise, or lost its marker, or is being onboarded.
Accounted ==
  \A k \in issued :
    \/ k \in hadCursor \cup mismarked
    \/ promised[k] # NoCursor
    \/ onb.at # "idle" /\ onb.new /\ onb.mem.key = k

\* The marker stands for a promise, a promise for the marker until the first cursor.
MarkerIsPromise ==
  \A k \in Key :
    /\ Pending(first, k) => promised[k] # NoCursor
    /\ promised[k] # NoCursor => Pending(first, k) \/ k \in hadCursor \cup mismarked

\* Whose cursor is saved and whose marker is there is about to retire it, or has not
\* come to.
Retires ==
  /\ session # None => session.key \in hadCursor
  /\ sess.note # None => sess.key \in hadCursor
  /\ \A k \in hadCursor \ (mismarked \cup unretired) :
       Pending(first, k) => sess.note # None /\ sess.key = k

CatchesUp ==
  /\ sess.first => promised[sess.key] # NoCursor
  /\ sess.first /\ sess.key \notin mismarked /\ ~cut =>
       sess.cursor # NoCursor /\ PassedOver = {}

IInv ==
  /\ Typed /\ KeysAreIssued /\ NothingMade /\ OneIdentityPerRun
  /\ NobodyElse
  /\ DiskIsOurs /\ Accounted /\ MarkerIsPromise /\ Retires /\ CatchesUp

---------------------------------------------------------------------------
USE DEF disk, server, memory, claims, lapses

\* The actions, by the part of the system that takes them.
LEMMA Steps ==
  ASSUME Next
  PROVE  \/ Onboarding \/ Hook \/ Channel
         \/ ToolsStart \/ \E k \in Key : ToolsExchange(k) \/ ToolsEnd(k)
         \/ \E k \in Key : UseKey(k) \/ Arrive(k)
BY DEF Next

\* What the onboarding, and the hook, leave alone.
LEMMA OnboardingFrame ==
  ASSUME Onboarding
  PROVE  UNCHANGED <<disk, inbox, hook, tools, sess, starts, memory, lapses>>
BY DEF Onboarding, OnboardBegins, OnboardWrites, Register, Accept, Finish, OnboardDies

LEMMA HookFrame ==
  ASSUME Hook
  PROVE  UNCHANGED <<disk, first, issued, inbox, onb, runs, tools, sess, starts, memory,
                     claims, mismarked, lapses>>
BY DEF Hook, HookReads, HookAccepts, HookWrites, HookDies

LEMMA ChannelFrame ==
  ASSUME Channel
  PROVE  UNCHANGED <<server, onb, runs, hook, tools, claims>>
BY DEF Channel, SessStep, Begin, KeyFound, Guard, Purge, Hydrate, Load, WriteMarkers, Open,
       Consume, Save, Retire, RetireFails, SessPersist, End

\* The one element of a set that has one.
LEMMA OnlyIsIn == \A S \in SUBSET Key : S # {} => Only(S) \in S
BY DEF Only

\* A written config is the run's copy or the readable one that is there.
LEMMA WrittenIs ==
  \A c : \A d \in Written(c) : d = c \/ (Readable /\ d = config)
BY DEF Written

\* Records and their fields; a file that is missing or torn is none of them.
LEMMA RecordForms ==
  /\ \A c \in Copy : c = [key |-> c.key, invite |-> c.invite]
  /\ \A c \in Copy : c.key \in Key \cup {None} /\ c.invite \in BOOLEAN
  /\ \A s \in Saved : s.key \in Key /\ s.seq \in 1 .. MaxMessages
  /\ \A s \in Saved : s # None
  /\ \A f \in FirstSync : f # None
  /\ \A c \in Copy : c # Torn
BY FilesAssumption DEF Copy, Saved, FirstSync

---------------------------------------------------------------------------
\* A machine as it is found.
LEMMA InitTyped == Init => Typed /\ KeysAreIssued /\ NothingMade
<1> SUFFICES ASSUME Init PROVE Typed /\ KeysAreIssued /\ NothingMade
  OBVIOUS
<1> PICK new \in SUBSET Key, worked \in SUBSET Key, away \in SUBSET Elsewhere :
       Init!(new, worked, away)
  BY DEF Init
<1>1. /\ issued \in SUBSET Key
      /\ Only(new \cup worked) \in issued \cup {None}
      /\ new # {} => Only(new) \in Key
      /\ Only(worked) \in Key \cup {None} /\ (worked # {} => Only(worked) \in Key)
  BY OnlyIsIn, ConstAssumption DEF Only
<1>2. config \in Copy /\ config.key \in issued \cup {None}
  BY <1>1 DEF CopyOf, Copy
<1>3. {session, ledger} \subseteq Saved \cup {None} /\ first \in FirstSync \cup {None}
  BY <1>1, ConstAssumption DEF Saved, FirstSync
<1>4. sess \in SessRec /\ RunsOnly
  BY ConstAssumption DEF Off, SessRec, RunsOnly, NoCursor
<1>5. /\ inbox \in [Key -> 0 .. MaxMessages]
      /\ got \in [Key -> SUBSET (1 .. MaxMessages)]
      /\ promised \in [Key -> NoCursor .. MaxMessages]
  BY ConstAssumption DEF NoCursor
<1>6. TypeOK
  <2>1. /\ onb \in OnbRec
        /\ hook \in [at : {"idle", "accept", "write"}, mem : Copy]
    BY DEF Blank, Copy, OnbRec
  <2>2. /\ {token, marker} \subseteq Key \cup {None}
        /\ member \subseteq issued /\ tools \subseteq Key
        /\ hadCursor \subseteq Key /\ mismarked \subseteq Key /\ unretired \subseteq Key
        /\ onboarded \in Key \cup {None} /\ older \in BOOLEAN /\ cut \in BOOLEAN
    BY <1>1, ConstAssumption
  <2>3. runs \in 0 .. MaxRuns /\ starts \in 0 .. MaxStarts
    BY ConstAssumption
  <2> QED BY <1>1, <1>2, <1>3, <1>4, <1>5, <2>1, <2>2, <2>3 DEF TypeOK, SessRec, OnbRec
<1>7. KeysAreIssued
  BY <1>1, <1>2 DEF KeysAreIssued, Blank, Off
<1> QED BY <1>4, <1>6, <1>7 DEF Typed, NothingMade

\* The copy that a run starts with has a key of this machine, or none.
LEMMA Begins ==
  ASSUME Typed, KeysAreIssued, OnboardBegins
  PROVE  \E c \in Copy, a \in {"merge", "register", "accept"} :
           /\ GoOn(a, c)
           /\ c.key \in issued \cup {None} /\ (a = "accept" => c.key # None)
<1>1. \A k \in Key \cup {None} : [key |-> k, invite |-> TRUE] \in Copy
  BY DEF Copy
<1>2. \A c \in MergeIncomingConfig : c \in Copy /\ c.key \in issued \cup {None}
  BY <1>1 DEF MergeIncomingConfig, HasKey, KeysAreIssued, Typed, TypeOK
<1>3. Readable => config \in Copy /\ config.key \in issued \cup {None}
  BY DEF Readable, KeysAreIssued, Typed, TypeOK
<1>4. ASSUME NEW c \in Copy
      PROVE  AfterConfig(c) \in {"register", "accept"} /\ (AfterConfig(c) = "accept" => c.key # None)
  BY DEF AfterConfig
<1>5. ASSUME NEW c \in MergeIncomingConfig,
             GoOn(IF c = config THEN AfterConfig(c) ELSE "merge", c)
      PROVE  GoOn("merge", c) \/ GoOn(AfterConfig(c), c)
  BY <1>5
<1> QED BY <1>2, <1>3, <1>4, <1>5 DEF OnboardBegins

\* A run goes on as a run.
LEMMA GoesOn ==
  ASSUME Typed, NEW a \in {"merge", "register", "writeKey", "accept", "writeAccepted", "finish"},
         NEW c \in Copy, GoOn(a, c)
  PROVE  /\ onb' = [at |-> a, mem |-> c, new |-> onb.new /\ onb.at # "idle", made |-> onb.made]
         /\ config' \in {config, Torn}
         /\ a \in {"merge", "writeKey", "writeAccepted"} => config' = Torn
BY DEF GoOn, Typed, TypeOK

\* A run that fails leaves what it registered without a marker.
LEMMA Fails ==
  ASSUME Typed, OnboardFails
  PROVE  /\ onb' = [at |-> "idle", mem |-> onb.mem, new |-> onb.new, made |-> {}]
         /\ mismarked' = mismarked \cup (IF onb.new THEN {onb.mem.key} ELSE {})
         /\ UNCHANGED <<config, first, claims>>
BY DEF OnboardFails, Typed, TypeOK

\* What became of a registration: nothing yet, the end of the run, or a key.
LEMMA Registers ==
  ASSUME Typed, Register
  PROVE  \/ UNCHANGED <<issued, onb, config, first, claims, mismarked>>
         \/ OnboardFails /\ UNCHANGED issued
         \/ \E k \in Key \ issued :
              /\ issued' = issued \cup {k} /\ config' = Torn
              /\ onb' = [at |-> "writeKey", mem |-> [key |-> k, invite |-> onb.mem.invite],
                         new |-> TRUE, made |-> onb.made \cup {k}]
              /\ UNCHANGED <<first, claims, mismarked>>
<1>1. \A k : [onb.mem EXCEPT !.key = k] = [key |-> k, invite |-> onb.mem.invite]
  BY DEF Typed, TypeOK, Copy
<1>2. ASSUME NEW k \in Key, AttemptFails("not-idempotent", "lost", onb.made \cup {k})
      PROVE  OnboardFails
  BY <1>2 DEF AttemptFails, IsRetryable
<1>3. ASSUME NEW o \in PostFailure, AttemptFails("not-idempotent", o, onb.made)
      PROVE  OnboardFails \/ UNCHANGED <<onb, config, first, claims, mismarked>>
  BY <1>3 DEF AttemptFails, Typed, TypeOK
<1> QED BY <1>1, <1>2, <1>3 DEF Register

\* What became of an invitation: none, accepted, to be tried again, or the end.
LEMMA Accepts ==
  ASSUME Typed, Accept
  PROVE  /\ \/ /\ onb' = [at |-> "finish", mem |-> onb.mem, new |-> onb.new, made |-> onb.made]
               /\ UNCHANGED <<config, first, claims, mismarked>>
            \/ /\ onb' = [at |-> "writeAccepted", mem |-> CopyOf(onb.mem.key),
                          new |-> onb.new, made |-> onb.made]
               /\ config' = Torn
               /\ UNCHANGED <<first, claims, mismarked>>
            \/ UNCHANGED <<onb, config, first, claims, mismarked>>
            \/ OnboardFails
         /\ member' \in {member, member \cup {onb.mem.key}}
         /\ UNCHANGED issued
<1>0. onb.at = "accept"
  BY DEF Accept
<1>1. [onb.mem EXCEPT !.invite = FALSE] = [key |-> onb.mem.key, invite |-> FALSE]
  <2>1. \A b : [onb.mem EXCEPT !.invite = b] = [key |-> onb.mem.key, invite |-> b]
    BY DEF Typed, TypeOK, Copy
  <2> QED BY <2>1
<1>5. CopyOf(onb.mem.key) \in Copy /\ onb.mem \in Copy
  BY DEF Typed, TypeOK, Copy, CopyOf
<1>2. ASSUME GoOn("finish", onb.mem)
      PROVE  /\ onb' = [at |-> "finish", mem |-> onb.mem, new |-> onb.new, made |-> onb.made]
             /\ UNCHANGED config
  BY <1>0, <1>2 DEF GoOn, Typed, TypeOK
<1>3. ASSUME GoOn("writeAccepted", CopyOf(onb.mem.key))
      PROVE  /\ onb' = [at |-> "writeAccepted", mem |-> CopyOf(onb.mem.key),
                        new |-> onb.new, made |-> onb.made]
             /\ config' = Torn
  BY <1>0, <1>3 DEF GoOn, Typed, TypeOK
<1>4. ASSUME NEW o \in PostFailure, AttemptFails("idempotent", o, onb.made)
      PROVE  OnboardFails \/ UNCHANGED <<onb, config, first, claims, mismarked>>
  BY <1>4 DEF AttemptFails, Typed, TypeOK
<1> QED BY <1>1, <1>5, <1>2, <1>3, <1>4 DEF Accept, CopyOf

\* A session takes its key from the config and writes that key back.
LEMMA ChannelKeys ==
  ASSUME Typed, Channel
  PROVE  /\ \/ config' = config
            \/ sess.at \notin {"off", "wait"} /\ config' = CopyOf(sess.key)
         /\ \/ sess'.at \in {"off", "wait"}
            \/ sess'.key = sess.key /\ sess.at \notin {"off", "wait"}
            \/ HasKey /\ sess'.key = config.key
<1> USE DEF SessStep, SessRec, Typed
<1>0. CASE Begin
  <2>1. /\ config' = config /\ sess'.key = config.key
        /\ sess'.at = IF HasKey THEN "guard" ELSE "wait"
    BY <1>0 DEF Begin, Off
  <2> QED BY <2>1
<1>1. CASE KeyFound
  BY <1>1 DEF KeyFound, WithKey
<1>6. CASE End
  BY <1>6 DEF End, Off
<1>2. CASE Guard \/ Purge \/ Hydrate
  BY <1>2 DEF Guard, Purge, Hydrate
<1>3. CASE Load
  BY <1>3 DEF Load
<1>4. CASE WriteMarkers \/ Open \/ Consume
  BY <1>4 DEF WriteMarkers, Open, Consume, RunsOnly
<1>5. CASE Save \/ Retire \/ RetireFails \/ SessPersist
  BY <1>5 DEF Save, Retire, RetireFails, SessPersist, RunsOnly
<1> QED BY <1>0, <1>1, <1>2, <1>3, <1>4, <1>5, <1>6 DEF Channel

\* Keys come from the server, and then go from file to memory and back.
LEMMA KeysStep ==
  ASSUME Typed, KeysAreIssued, [Next]_vars
  PROVE  KeysAreIssued'
<1> USE RecordForms DEF KeysAreIssued
<1>1. CASE OnboardBegins
  <2> PICK c \in Copy, a \in {"merge", "register", "accept"} :
             GoOn(a, c) /\ c.key \in issued \cup {None} /\ (a = "accept" => c.key # None)
    BY <1>1, Begins
  <2>1. /\ config' \in {config, Torn} /\ onb'.mem = c
        /\ onb'.at \notin {"idle", "merge", "register"} => c.key # None
    BY GoesOn
  <2> QED BY <1>1, <2>1 DEF OnboardBegins, Readable
<1>2. CASE OnboardWrites
  <2>1. config'.key \in issued \cup {None} /\ onb.mem.key \in issued \cup {None}
    BY <1>2, WrittenIs DEF OnboardWrites
  <2>2. CASE onb.at = "merge" /\ onb' = [onb EXCEPT !.at = AfterConfig(config'), !.mem = config']
    <3>1. /\ onb'.mem = config'
          /\ onb'.at \notin {"idle", "merge", "register"} => config'.key # None
      BY <2>2 DEF AfterConfig, Typed, TypeOK
    <3> QED BY <1>2, <2>1, <3>1 DEF OnboardWrites
  <2>3. CASE onb.at \in {"writeKey", "writeAccepted"} /\ onb'.mem = onb.mem
    BY <1>2, <2>1, <2>3 DEF OnboardWrites
  <2> QED BY <1>2, <2>2, <2>3 DEF OnboardWrites, Typed, TypeOK
<1>3. CASE Register
  <2>1. UNCHANGED <<hook, tools, sess>>
    BY <1>3 DEF Register
  <2>2. CASE UNCHANGED <<issued, onb, config, first, claims, mismarked>>
    BY <2>1, <2>2 DEF Readable
  <2>3. CASE OnboardFails /\ UNCHANGED issued
    BY <2>1, <2>3, Fails DEF Readable
  <2>4. ASSUME NEW k \in Key \ issued, issued' = issued \cup {k}, config' = Torn,
               onb' = [at |-> "writeKey", mem |-> [key |-> k, invite |-> onb.mem.invite],
                       new |-> TRUE, made |-> onb.made \cup {k}]
        PROVE  KeysAreIssued'
    BY <2>1, <2>4 DEF Readable
  <2> QED BY <1>3, <2>2, <2>3, <2>4, Registers
<1>4. CASE Accept
  BY <1>4, Accepts, Fails DEF Accept, CopyOf, Readable
<1>5. CASE Finish
  BY <1>5 DEF Finish, OnboardFails, Readable, Typed, TypeOK
<1>6. CASE OnboardDies
  BY <1>6 DEF OnboardDies, OnboardFails, Readable, Typed, TypeOK
<1>7. CASE Hook
  BY <1>7, WrittenIs DEF Hook, HookReads, HookAccepts, HookWrites, HookDies, HasKey, Readable, Typed, TypeOK
<1>8. CASE Channel
  BY <1>8, ChannelKeys, ChannelFrame DEF CopyOf, HasKey, Readable
<1>9. CASE ToolsStart \/ \E k \in Key : ToolsExchange(k) \/ ToolsEnd(k)
  BY <1>9 DEF ToolsStart, ToolsExchange, ToolsEnd, CopyOf, HasKey, Readable
<1>10. CASE \E k \in Key : UseKey(k) \/ Arrive(k)
  BY <1>10 DEF UseKey, Arrive, CopyOf, Readable
<1>11. CASE UNCHANGED vars
  BY <1>11 DEF vars, Readable
<1> QED BY <1>1, <1>2, <1>3, <1>4, <1>5, <1>6, <1>7, <1>8, <1>9, <1>10, <1>11, Steps DEF Onboarding

---------------------------------------------------------------------------
\* What the onboarding may change.
OnboardingTyped ==
  /\ config \in Copy \cup {Torn} /\ first \in FirstSync \cup {None}
  /\ issued \subseteq Key /\ member \subseteq issued
  /\ onb \in OnbRec
  /\ runs \in 0 .. MaxRuns /\ mismarked \subseteq Key
  /\ promised \in [Key -> NoCursor .. MaxMessages]
  /\ onboarded \in Key \cup {None} /\ older \in BOOLEAN

\* What a channel session may change.
ChannelTyped ==
  /\ config \in Copy \cup {Torn} /\ first \in FirstSync \cup {None}
  /\ {token, marker} \subseteq Key \cup {None}
  /\ {session, ledger} \subseteq Saved \cup {None}
  /\ starts \in 0 .. MaxStarts
  /\ sess \in SessRec /\ RunsOnly
  /\ got \in [Key -> SUBSET (1 .. MaxMessages)]
  /\ hadCursor \subseteq Key /\ mismarked \subseteq Key
  /\ unretired \subseteq Key /\ cut \in BOOLEAN

\* What a failed run leaves has its type.
LEMMA FailsTyped ==
  ASSUME Typed, KeysAreIssued, NothingMade, OnboardFails, onb.at # "idle",
         issued' \subseteq Key, member' \subseteq issued', runs' = runs
  PROVE  OnboardingTyped'
<1> USE DEF OnbRec
<1>1. onb.new => onb.mem.key \in Key
  BY DEF NothingMade, KeysAreIssued, Typed, TypeOK
<1>2. onb.mem \in Copy /\ onb.new \in BOOLEAN
  BY DEF Typed, TypeOK
<1>3. onb' \in OnbRec
  BY <1>2, Fails
<1>4. mismarked' \subseteq Key
  BY <1>1, Fails DEF Typed, TypeOK
<1> QED BY <1>3, <1>4, Fails DEF OnboardingTyped, Typed, TypeOK

\* The onboarding keeps the types of what it may change, and so does the session.
LEMMA OnboardingStaysTyped ==
  ASSUME Typed, KeysAreIssued, NothingMade, Onboarding
  PROVE  OnboardingTyped'
<1> USE DEF Typed, OnboardingTyped, OnbRec
<1>0. OnboardingTyped /\ onb.mem \in Copy /\ onb.new \in BOOLEAN /\ onb.made \in SUBSET Key
      /\ onb.mem.key \in Key \cup {None} /\ onb.mem.invite \in BOOLEAN
  BY RecordForms DEF TypeOK
<1>1. CASE OnboardBegins
  <2> PICK c \in Copy, a \in {"merge", "register", "accept"} : GoOn(a, c)
    BY <1>1, Begins
  <2>1. onb' \in OnbRec
        /\ config' \in {config, Torn}
    <3>1. onb' = [at |-> a, mem |-> c, new |-> onb.new /\ onb.at # "idle", made |-> onb.made]
          /\ config' \in {config, Torn}
      BY GoesOn
    <3>2. (onb.new /\ onb.at # "idle") \in BOOLEAN
      OBVIOUS
    <3> QED BY <1>0, <3>1, <3>2
  <2>2. runs' \in 0 .. MaxRuns
    BY <1>1, ConstAssumption DEF OnboardBegins, TypeOK
  <2> QED BY <1>0, <1>1, <2>1, <2>2 DEF OnboardBegins
<1>2. CASE OnboardWrites
  <2>1. config' \in Copy
    BY <1>0, <1>2, WrittenIs DEF OnboardWrites, Readable
  <2>2. onb' \in OnbRec
    BY <1>2, <2>1 DEF OnboardWrites, AfterConfig, TypeOK
  <2> QED BY <1>0, <1>2, <2>1, <2>2 DEF OnboardWrites
<1>3. CASE Register
  <2>1. UNCHANGED <<member, runs>> /\ onb.at # "idle"
    BY <1>3 DEF Register
  <2>2. CASE UNCHANGED <<issued, onb, config, first, claims, mismarked>>
    BY <1>0, <2>1, <2>2
  <2>3. CASE OnboardFails /\ UNCHANGED issued
    BY <1>0, <2>1, <2>3, FailsTyped
  <2>4. ASSUME NEW k \in Key \ issued, issued' = issued \cup {k}, config' = Torn,
               onb' = [at |-> "writeKey", mem |-> [key |-> k, invite |-> onb.mem.invite],
                       new |-> TRUE, made |-> onb.made \cup {k}],
               UNCHANGED <<first, claims, mismarked>>
        PROVE  OnboardingTyped'
    <3>1. [key |-> k, invite |-> onb.mem.invite] \in Copy
      BY <1>0 DEF Copy
    <3>2. onb' \in OnbRec
      BY <1>0, <2>4, <3>1
    <3> QED BY <1>0, <2>1, <2>4, <3>2
  <2> QED BY <1>3, <2>2, <2>3, <2>4, Registers
<1>4. CASE Accept
  <2>1. onb.mem.key \in issued /\ onb.at # "idle" /\ runs' = runs
    BY <1>4 DEF Accept, KeysAreIssued
  <2>2. issued' = issued /\ member' \subseteq issued
    BY <1>0, <1>4, <2>1, Accepts
  <2>3. CASE OnboardFails
    BY <1>0, <2>1, <2>2, <2>3, FailsTyped
  <2>4. CASE UNCHANGED <<onb, config, first, claims, mismarked>>
    BY <1>0, <2>1, <2>2, <2>4
  <2>5. ASSUME onb' = [at |-> "finish", mem |-> onb.mem, new |-> onb.new, made |-> onb.made],
               UNCHANGED <<config, first, claims, mismarked>>
        PROVE  OnboardingTyped'
    BY <1>0, <2>1, <2>2, <2>5
  <2>6. ASSUME onb' = [at |-> "writeAccepted", mem |-> CopyOf(onb.mem.key),
                       new |-> onb.new, made |-> onb.made],
               config' = Torn, UNCHANGED <<first, claims, mismarked>>
        PROVE  OnboardingTyped'
    <3>1. CopyOf(onb.mem.key) \in Copy
      BY <1>0 DEF CopyOf, Copy
    <3>2. onb' \in OnbRec
      BY <1>0, <2>6, <3>1
    <3> QED BY <1>0, <2>1, <2>2, <2>6, <3>2
  <2> QED BY <1>4, <2>3, <2>4, <2>5, <2>6, Accepts
<1>5. CASE Finish
  <2>1. onb.at # "idle" /\ UNCHANGED <<issued, member, runs>>
    BY <1>5 DEF Finish
  <2>2. CASE ~Complete
    BY <1>0, <1>5, <2>1, <2>2, FailsTyped DEF Finish
  <2>3. CASE Complete
    <3> DEFINE k == config.key
    <3>1. k \in Key /\ config' = config
      BY <1>0, <1>5, <2>3, RecordForms DEF Finish, Complete, HasKey, Readable
    <3>2. first' \in FirstSync \cup {None}
      <4>1. [fp |-> k, done |-> FALSE] \in FirstSync
        BY <3>1 DEF FirstSync
      <4> QED BY <1>0, <1>5, <2>3, <4>1 DEF Finish
    <3>3. onb.new => onb.mem.key \in Key
      BY <1>0, <1>5 DEF Finish, KeysAreIssued
    <3>4. mismarked' \subseteq Key
      BY <1>0, <1>5, <2>3, <3>1, <3>3 DEF Finish
    <3>5. promised' \in [Key -> NoCursor .. MaxMessages]
      <4>1. inbox[k] \in NoCursor .. MaxMessages
        BY <3>1, ConstAssumption DEF TypeOK, NoCursor
      <4> QED BY <1>0, <1>5, <2>3, <3>1, <4>1 DEF Finish
    <3>6. onboarded' \in Key \cup {None} /\ older' \in BOOLEAN
      BY <1>5, <2>3, <3>1 DEF Finish, OlderCopy
    <3>7. onb' \in OnbRec
      BY <1>5, <2>3 DEF Finish, TypeOK
    <3> QED BY <1>0, <2>1, <3>1, <3>2, <3>4, <3>5, <3>6, <3>7
  <2> QED BY <2>2, <2>3
<1>6. CASE OnboardDies
  BY <1>0, <1>6, FailsTyped DEF OnboardDies
<1> QED BY <1>1, <1>2, <1>3, <1>4, <1>5, <1>6 DEF Onboarding

LEMMA ChannelStaysTyped ==
  ASSUME Typed, KeysAreIssued, Channel
  PROVE  ChannelTyped'
<1> USE DEF ChannelTyped, SessStep
<1>0. /\ ChannelTyped
      /\ sess.at \notin {"off", "wait"} => sess.key \in Key /\ CopyOf(sess.key) \in Copy
      /\ inbox \in [Key -> 0 .. MaxMessages]
  BY DEF KeysAreIssued, Typed, TypeOK, SessRec, CopyOf, Copy
<1>1. CASE Begin
  <2>1. config.key \in Key \cup {None}
    BY <1>1, RecordForms DEF Begin, Readable, Typed, TypeOK
  <2>2. starts' \in 0 .. MaxStarts
    BY <1>0, <1>1, ConstAssumption DEF Begin
  <2>3. sess' \in SessRec /\ RunsOnly'
    <3>1. Off \in SessRec
      BY ConstAssumption DEF Off, SessRec, NoCursor
    <3>2. ~Off.conn /\ ~Off.marked /\ ~Off.first /\ Off.note = None /\ Off.cursor = NoCursor
      BY DEF Off
    <3> QED BY <1>1, <2>1, <3>1, <3>2 DEF Begin, SessRec, RunsOnly
  <2> QED BY <1>0, <1>1, <2>2, <2>3 DEF Begin
<1>2. CASE KeyFound
  <2>1. config.key \in Key \cup {None}
    BY <1>2, RecordForms DEF KeyFound, HasKey, Readable, Typed, TypeOK
  <2>2. sess' \in SessRec /\ RunsOnly'
    BY <1>0, <1>2, <2>1 DEF KeyFound, WithKey, SessRec, RunsOnly
  <2> QED BY <1>0, <1>2, <2>2 DEF KeyFound
<1>3. CASE Guard
  <2>1. sess' \in SessRec /\ RunsOnly'
    BY <1>0, <1>3 DEF Guard, SessRec, RunsOnly
  <2> QED BY <1>0, <1>3, <2>1 DEF Guard
<1>4. CASE Purge
  <2>1. sess' \in SessRec /\ RunsOnly'
    BY <1>0, <1>4 DEF Purge, SessRec, RunsOnly
  <2> QED BY <1>0, <1>4, <2>1 DEF Purge, Removed
<1>5. CASE Hydrate
  <2>1. sess' \in SessRec /\ RunsOnly'
    BY <1>0, <1>5 DEF Hydrate, SessRec, RunsOnly
  <2> QED BY <1>0, <1>5, <2>1 DEF Hydrate
<1>6. CASE Load
  <2> DEFINE k == sess.key
             c == IF session # None THEN session.seq ELSE InitialCursor(k)
             lifted == ledger # None /\ ledger.seq > Num(c)
             f == k \in {j \in Key \ hadCursor : promised[j] # NoCursor}
             cur == IF lifted THEN ledger.seq ELSE c
             from == IF lifted THEN ledger.key ELSE IF session # None THEN session.key ELSE k
  <2>1. sess' = [sess EXCEPT !.at = "run", !.cursor = cur, !.from = from, !.first = f]
    BY <1>6 DEF Load
  <2>2. cur \in NoCursor .. MaxMessages /\ from \in Key \cup {None}
    BY <1>0, <1>6, RecordForms, ConstAssumption DEF Load, InitialCursor, NoCursor
  <2>3. f \in BOOLEAN
    OBVIOUS
  <2> HIDE DEF cur, from, f
  <2>4. sess' \in SessRec /\ RunsOnly'
    BY <1>0, <2>1, <2>2, <2>3 DEF SessRec, RunsOnly
  <2> QED BY <1>0, <1>6, <2>4 DEF Load
<1>7. CASE WriteMarkers
  <2>1. sess' \in SessRec /\ RunsOnly'
    BY <1>0, <1>7 DEF WriteMarkers, SessRec, RunsOnly
  <2> QED BY <1>0, <1>7, <2>1 DEF WriteMarkers
<1>8. CASE Open
  <2>1. InboxEnd(sess.key) \in NoCursor .. MaxMessages
    BY <1>0, <1>8, ConstAssumption DEF Open, InboxEnd, NoCursor
  <2>2. sess' \in SessRec /\ RunsOnly'
    BY <1>0, <1>8, <2>1 DEF Open, SessRec, RunsOnly
  <2> QED BY <1>0, <1>8, <2>2 DEF Open
<1>9. CASE Consume
  <2> DEFINE m == Num(sess.cursor) + 1
  <2>0. sess.at = "run" /\ sess.key \in Key
    BY <1>0, <1>9 DEF Consume, RunsOnly
  <2>1. m \in 1 .. MaxMessages
    BY <1>0, <1>9, <2>0, ConstAssumption DEF Consume, SessRec, Num, NoCursor
  <2>2. m \in NoCursor .. MaxMessages
    BY <2>1, ConstAssumption DEF NoCursor
  <2>3. sess' = [sess EXCEPT !.cursor = m] /\ got' = [got EXCEPT ![sess.key] = @ \cup {m}]
    BY <1>9 DEF Consume
  <2> HIDE DEF m
  <2>4. sess' \in SessRec /\ RunsOnly'
    BY <1>0, <2>0, <2>2, <2>3 DEF SessRec, RunsOnly
  <2>5. got' \in [Key -> SUBSET (1 .. MaxMessages)]
    BY <1>0, <2>0, <2>1, <2>3
  <2> QED BY <1>0, <1>9, <2>4, <2>5 DEF Consume
<1>10. CASE Save
  <2>0. sess.at = "run" /\ sess.key \in Key
    BY <1>0, <1>10 DEF Save, RunsOnly
  <2>1. session' \in Saved /\ ledger' \in Saved
    BY <1>0, <1>10, <2>0, ConstAssumption DEF Save, Saved, SessRec, NoCursor
  <2>2. sess' \in SessRec /\ RunsOnly'
    BY <1>0, <1>10, <2>0 DEF Save, SessRec, RunsOnly
  <2> QED BY <1>0, <1>10, <2>0, <2>1, <2>2 DEF Save
<1>11. CASE Retire
  <2>1. first' \in FirstSync
    <3>1. sess.note \in FirstSync
      BY <1>0, <1>11 DEF Retire, SessRec
    <3> QED BY <1>11, <3>1 DEF Retire, Retired, FirstSync
  <2>2. sess' \in SessRec /\ RunsOnly'
    BY <1>0, <1>11 DEF Retire, SessRec, RunsOnly
  <2>3. mismarked' \subseteq Key /\ unretired' \subseteq Key
    BY <1>0, <1>11 DEF Retire
  <2> QED BY <1>0, <1>11, <2>1, <2>2, <2>3 DEF Retire
<1>12. CASE SessPersist
  BY <1>0, <1>12 DEF SessPersist, RunsOnly
<1>13. CASE End
  <2>1. sess' \in SessRec /\ RunsOnly'
    BY <1>13, ConstAssumption DEF End, Off, SessRec, RunsOnly, NoCursor
  <2>2. cut' \in BOOLEAN /\ unretired' \subseteq Key
    BY <1>0, <1>13 DEF End, RunsOnly
  <2> QED BY <1>0, <1>13, <2>1, <2>2 DEF End
<1>14. CASE RetireFails
  <2>1. sess.key \in Key
    BY <1>0, <1>14 DEF RetireFails, RunsOnly
  <2>2. sess' \in SessRec /\ RunsOnly'
    BY <1>0, <1>14 DEF RetireFails, SessRec, RunsOnly
  <2> QED BY <1>0, <1>14, <2>1, <2>2 DEF RetireFails
<1> QED BY <1>1, <1>2, <1>3, <1>4, <1>5, <1>6, <1>7, <1>8, <1>9, <1>10, <1>11, <1>12, <1>13,
           <1>14 DEF Channel

\* Every step keeps the types.
LEMMA TypedStep ==
  ASSUME Typed, KeysAreIssued, NothingMade, [Next]_vars
  PROVE  Typed'
<1>0. sess \in SessRec /\ RunsOnly /\ TypeOK
  BY DEF Typed
<1>1. CASE Onboarding
  <2>1. UNCHANGED <<token, session, ledger, marker, inbox, hook, tools, sess, starts, got,
                    hadCursor, unretired, cut>>
    BY <1>1, OnboardingFrame
  <2>2. OnboardingTyped'
    BY <1>1, OnboardingStaysTyped
  <2> QED BY <1>0, <2>1, <2>2 DEF OnboardingTyped, OnbRec, Typed, TypeOK, RunsOnly
<1>2. CASE Hook
  <2>1. UNCHANGED <<token, session, ledger, marker, first, issued, inbox, onb, runs, tools, sess,
                    starts, got, hadCursor, promised, onboarded, older, mismarked, unretired,
                    cut>>
    BY <1>2, HookFrame
  <2>2. config' \in Copy \cup {Torn}
        /\ hook' \in [at : {"idle", "accept", "write"}, mem : Copy]
        /\ member' \subseteq issued'
    <3>1. hook.mem \in Copy /\ config \in Copy \cup {Torn} /\ member \subseteq issued
      BY <1>0 DEF TypeOK
    <3>2. CASE HookReads
      BY <1>0, <3>1, <3>2 DEF HookReads, HasKey, Readable, TypeOK
    <3>3. CASE HookAccepts
      BY <1>0, <2>1, <3>1, <3>3 DEF HookAccepts, KeysAreIssued, TypeOK
    <3>4. CASE HookWrites
      <4>1. [hook.mem EXCEPT !.invite = FALSE] \in Copy
        BY <3>1 DEF Copy
      <4> QED BY <1>0, <2>1, <3>1, <3>4, <4>1, WrittenIs DEF HookWrites, TypeOK
    <3>5. CASE HookDies
      BY <1>0, <3>1, <3>5 DEF HookDies, TypeOK
    <3> QED BY <1>2, <3>2, <3>3, <3>4, <3>5 DEF Hook
  <2> QED BY <1>0, <2>1, <2>2 DEF Typed, TypeOK, RunsOnly
<1>3. CASE Channel
  <2>1. UNCHANGED <<issued, member, inbox, onb, runs, hook, tools, promised, onboarded, older>>
    BY <1>3, ChannelFrame
  <2>2. ChannelTyped'
    BY <1>3, ChannelStaysTyped
  <2>3. TypeOK'
    <3>1. sess'.at \in {"off", "wait", "guard", "rmToken", "rmSession", "rmLedger", "hydrate",
                        "load", "run"}
          /\ {sess'.key, sess'.from} \subseteq Key \cup {None}
          /\ sess'.cursor \in NoCursor .. MaxMessages
          /\ {sess'.conn, sess'.marked, sess'.first} \subseteq BOOLEAN
          /\ sess'.note \in FirstSync \cup {None}
      BY <2>2 DEF ChannelTyped, SessRec
    <3> QED BY <1>0, <2>1, <2>2, <3>1 DEF ChannelTyped, TypeOK
  <2> QED BY <2>2, <2>3 DEF ChannelTyped, Typed
<1>4. CASE ToolsStart
  <2>1. config.key \in Key
    BY <1>0, <1>4, RecordForms DEF ToolsStart, HasKey, Readable, TypeOK
  <2> QED BY <1>0, <1>4, <2>1 DEF ToolsStart, Typed, TypeOK, RunsOnly
<1>5. ASSUME NEW k \in Key, ToolsExchange(k) PROVE Typed'
  <2>1. CopyOf(k) \in Copy
    BY DEF CopyOf, Copy
  <2> QED BY <1>0, <1>5, <2>1 DEF ToolsExchange, Typed, TypeOK, RunsOnly
<1>6. ASSUME NEW k \in Key, ToolsEnd(k) PROVE Typed'
  BY <1>0, <1>6 DEF ToolsEnd, Typed, TypeOK, RunsOnly
<1>7. ASSUME NEW k \in Key, UseKey(k) PROVE Typed'
  <2>1. CopyOf(k) \in Copy
    BY DEF CopyOf, Copy
  <2> QED BY <1>0, <1>7, <2>1 DEF UseKey, Typed, TypeOK, RunsOnly
<1>8. ASSUME NEW k \in Key, Arrive(k) PROVE Typed'
  <2>1. inbox' \in [Key -> 0 .. MaxMessages]
    BY <1>0, <1>8, ConstAssumption DEF Arrive, TypeOK
  <2> QED BY <1>0, <1>8, <2>1 DEF Arrive, Typed, TypeOK, RunsOnly
<1>9. CASE UNCHANGED vars
  BY <1>0, <1>9 DEF vars, Typed, TypeOK, RunsOnly
<1> QED BY <1>1, <1>2, <1>3, <1>4, <1>5, <1>6, <1>7, <1>8, <1>9, Steps

---------------------------------------------------------------------------
(* One run registers one identity: only a registration whose answer came,  *)
(* or was lost with the run, adds to what the server made for it.          *)
LEMMA MadeStep ==
  ASSUME Typed, KeysAreIssued, NothingMade, OneIdentityPerRun, [Next]_vars
  PROVE  NothingMade' /\ OneIdentityPerRun'
<1> USE DEF NothingMade, OneIdentityPerRun
<1>1. CASE OnboardBegins
  <2> PICK c \in Copy, a \in {"merge", "register", "accept"} : GoOn(a, c)
    BY <1>1, Begins
  <2>1. onb' = [at |-> a, mem |-> c, new |-> onb.new /\ onb.at # "idle", made |-> onb.made]
    BY GoesOn
  <2> QED BY <1>1, <2>1 DEF OnboardBegins
<1>2. CASE OnboardWrites
  BY <1>2 DEF OnboardWrites, AfterConfig, Typed, TypeOK
<1>3. CASE Register
  <2>1. onb.made = {}
    BY <1>3 DEF Register
  <2> QED BY <1>3, <2>1, Registers, Fails
<1>4. CASE Accept
  <2>1. onb.at = "accept"
    BY <1>4 DEF Accept
  <2> QED BY <1>4, <2>1, Accepts, Fails
<1>5. CASE Finish
  <2>1. onb'.at = "idle" /\ onb'.made = {}
    <3>1. CASE OnboardFails
      BY <3>1, Fails
    <3>2. CASE onb' = [onb EXCEPT !.at = "idle", !.made = {}]
      BY <3>2 DEF Typed, TypeOK
    <3> QED BY <1>5, <3>1, <3>2 DEF Finish
  <2> QED BY <2>1
<1>6. CASE OnboardDies
  BY <1>6, Fails DEF OnboardDies
<1>7. CASE UNCHANGED onb
  BY <1>7
<1> QED
  BY <1>1, <1>2, <1>3, <1>4, <1>5, <1>6, <1>7, Steps, HookFrame, ChannelFrame
  DEF Onboarding, ToolsStart, ToolsExchange, ToolsEnd, UseKey, Arrive, vars

---------------------------------------------------------------------------
(* After an ONBOARD OK with nobody left that holds an older config, every  *)
(* process that starts reads the new key, and writes it back.              *)
LEMMA NobodyElseStep ==
  ASSUME Typed, NobodyElse, [Next]_vars
  PROVE  NobodyElse'
<1> SUFFICES ASSUME onboarded' # None, ~older' PROVE NobodyElse'
  BY DEF NobodyElse
<1> DEFINE o == onboarded
           Alone == /\ config = CopyOf(o) /\ onb.at = "idle" /\ hook.at = "idle"
                    /\ tools \subseteq {o}
                    /\ sess.at \notin {"off", "wait"} => sess.key = o
<1>0. o' = o /\ older' = older => Alone
  BY DEF NobodyElse
<1>1. CopyOf(o).key = o /\ CopyOf(o).invite = FALSE
  BY DEF CopyOf
<1>2. CASE OnboardBegins
  BY <1>2 DEF OnboardBegins
<1>3. CASE OnboardWrites \/ Register \/ Accept \/ OnboardDies
  <2>1. onb.at # "idle" /\ UNCHANGED <<onboarded, older>>
    BY <1>3, Fails, Registers, Accepts DEF OnboardWrites, Register, Accept, OnboardDies
  <2> QED BY <1>0, <2>1
<1>4. CASE Finish
  <2>1. Complete
    <3>1. CASE ~Complete
      <4>1. onb.at # "idle" /\ UNCHANGED <<onboarded, older>>
        BY <1>4, <3>1, Fails DEF Finish
      <4> QED BY <1>0, <4>1
    <3> QED BY <3>1
  <2>2. /\ onboarded' = config.key /\ ~OlderCopy(config.key)
        /\ onb'.at = "idle" /\ UNCHANGED <<config, hook, tools, sess>>
    BY <1>4, <2>1 DEF Finish, Typed, TypeOK
  <2>3. config = CopyOf(config.key)
    BY <2>1, RecordForms DEF Complete, HasKey, Readable, CopyOf, Typed, TypeOK
  <2> QED BY <2>2, <2>3 DEF NobodyElse, OlderCopy
<1>5. CASE Hook
  <2>1. UNCHANGED <<onb, tools, sess, onboarded, older>> /\ Alone
    BY <1>0, <1>5, HookFrame
  <2>2. FALSE
    BY <1>1, <1>5, <2>1 DEF Hook, HookReads, HookAccepts, HookWrites, HookDies
  <2> QED BY <2>2
<1>6. CASE Channel
  <2>1. UNCHANGED <<onb, hook, tools, onboarded, older>> /\ Alone
    BY <1>0, <1>6, ChannelFrame
  <2>2. config' = config
    BY <1>6, <2>1, ChannelKeys
  <2>3. sess'.at \notin {"off", "wait"} => sess'.key = o
    BY <1>1, <1>6, <2>1, ChannelKeys
  <2> QED BY <2>1, <2>2, <2>3 DEF NobodyElse
<1>7. CASE ToolsStart
  <2>1. UNCHANGED <<config, onb, hook, sess, onboarded, older>> /\ Alone
    BY <1>0, <1>7 DEF ToolsStart
  <2>2. tools' \subseteq {o}
    BY <1>1, <1>7, <2>1 DEF ToolsStart
  <2> QED BY <2>1, <2>2 DEF NobodyElse
<1>8. ASSUME NEW k \in Key, ToolsExchange(k) \/ ToolsEnd(k) PROVE NobodyElse'
  <2>1. UNCHANGED <<onb, hook, sess, onboarded, older>> /\ Alone
    BY <1>0, <1>8 DEF ToolsExchange, ToolsEnd
  <2>2. k = o /\ tools' \subseteq {o} /\ config' = CopyOf(o)
    BY <1>8, <2>1 DEF ToolsExchange, ToolsEnd
  <2> QED BY <2>1, <2>2 DEF NobodyElse
<1>9. ASSUME NEW k \in Key, UseKey(k) PROVE NobodyElse'
  BY <1>9 DEF UseKey
<1>10. ASSUME NEW k \in Key, Arrive(k) PROVE NobodyElse'
  BY <1>10 DEF Arrive, NobodyElse
<1>11. CASE UNCHANGED vars
  BY <1>11 DEF vars, NobodyElse
<1> QED BY <1>2, <1>3, <1>4, <1>5, <1>6, <1>7, <1>8, <1>9, <1>10, <1>11, Steps DEF Onboarding

---------------------------------------------------------------------------
(* The files of the disk belong to one identity from the guard's decision  *)
(* to the end of the session, or the session's end is counted as cut.      *)
LEMMA DiskStep ==
  ASSUME Typed, KeysAreIssued, DiskIsOurs, [Next]_vars
  PROVE  DiskIsOurs'
<1> SUFFICES ASSUME ~cut' PROVE DiskIsOurs'
  BY DEF DiskIsOurs
<1>0. CASE UNCHANGED <<session, ledger, marker, sess, cut>> /\ (token' = token \/ token' # None)
  BY <1>0 DEF DiskIsOurs, AtRest, FilesOf
<1>1. CASE Onboarding \/ Hook \/ ToolsStart \/ UNCHANGED vars
  BY <1>0, <1>1, OnboardingFrame, HookFrame DEF ToolsStart, vars
<1>2. ASSUME NEW k \in Key, ToolsExchange(k) \/ ToolsEnd(k) \/ UseKey(k) \/ Arrive(k)
      PROVE  DiskIsOurs'
  BY <1>0, <1>2, ConstAssumption DEF ToolsExchange, ToolsEnd, UseKey, Arrive
<1>3. CASE Channel
  <2> USE DEF SessStep
  <2>0. sess \in SessRec /\ RunsOnly
    BY DEF Typed
  <2>1. CASE Begin
    <3>1. AtRest /\ AtRest' /\ sess'.at \in {"guard", "wait"}
      BY <2>1 DEF Begin, DiskIsOurs, AtRest, Off
    <3> QED BY <3>1 DEF DiskIsOurs
  <2>2. CASE KeyFound
    <3>1. AtRest /\ AtRest' /\ sess'.at = "guard"
      BY <2>0, <2>2 DEF KeyFound, WithKey, DiskIsOurs, AtRest, SessRec
    <3> QED BY <3>1 DEF DiskIsOurs
  <2>3. CASE Guard
    <3>1. AtRest /\ sess'.key = sess.key /\ UNCHANGED disk
          /\ sess'.at = IF MustPurge THEN "rmToken" ELSE "hydrate"
      BY <2>0, <2>3 DEF Guard, DiskIsOurs, SessRec
    <3>2. CASE MustPurge
      BY <3>1, <3>2 DEF DiskIsOurs, AtRest
    <3>3. CASE ~MustPurge
      <4>1. FilesOf(sess.key) /\ (session # None => marker = sess.key)
        BY <3>1, <3>3 DEF MustPurge, AtRest, FilesOf
      <4> QED BY <3>1, <3>3, <4>1 DEF DiskIsOurs, FilesOf
    <3> QED BY <3>2, <3>3
  <2>4. CASE Purge
    <3>1. CASE sess.at = "rmToken"
      <4>1. sess'.at = "rmSession"
        BY <2>0, <2>4, <3>1 DEF Purge, SessRec
      <4> QED BY <4>1 DEF DiskIsOurs
    <3>2. CASE sess.at = "rmSession"
      <4>1. sess'.at = "rmLedger" /\ session' = None
        BY <2>0, <2>4, <3>2 DEF Purge, SessRec
      <4> QED BY <4>1 DEF DiskIsOurs
    <3>3. CASE sess.at = "rmLedger"
      <4>1. sess'.at = "hydrate" /\ session' = None /\ ledger' = None
        BY <2>0, <2>4, <3>3 DEF Purge, SessRec, DiskIsOurs
      <4> QED BY <4>1 DEF DiskIsOurs, FilesOf
    <3> QED BY <2>4, <3>1, <3>2, <3>3 DEF Purge
  <2>5. CASE Hydrate
    <3>1. sess'.at = "load" /\ sess'.key = sess.key /\ UNCHANGED <<session, ledger, marker, cut>>
          /\ sess.at = "hydrate"
      BY <2>0, <2>5 DEF Hydrate, SessRec
    <3> QED BY <3>1 DEF DiskIsOurs, FilesOf
  <2>6. CASE Load
    <3>1. FilesOf(sess.key)
      BY <2>6 DEF Load, DiskIsOurs
    <3>2. /\ sess'.at = "run" /\ sess'.key = sess.key /\ sess'.marked = sess.marked
          /\ sess.at = "load" /\ UNCHANGED <<session, ledger, marker>>
          /\ \/ ledger # None /\ sess'.from = ledger.key
             \/ session # None /\ sess'.from = session.key
             \/ sess'.from = sess.key
      BY <2>0, <2>6 DEF Load, SessRec
    <3>3. sess'.from = sess.key /\ ~sess'.marked
      BY <2>0, <3>1, <3>2 DEF FilesOf, RunsOnly
    <3> QED BY <3>1, <3>2, <3>3 DEF DiskIsOurs, FilesOf
  <2>7. CASE WriteMarkers
    <3>1. /\ sess.at = "run" /\ sess'.at = "run" /\ sess'.key = sess.key /\ sess'.from = sess.from
          /\ marker' = sess.key /\ UNCHANGED <<session, ledger>> /\ ~cut
      BY <2>0, <2>7 DEF WriteMarkers, SessRec
    <3> QED BY <3>1 DEF DiskIsOurs, FilesOf
  <2>8. CASE Open \/ Consume \/ SessPersist
    <3>1. /\ sess.at = "run" /\ sess'.at = "run" /\ sess'.key = sess.key /\ sess'.from = sess.from
          /\ sess'.marked = sess.marked /\ UNCHANGED <<session, ledger, marker, cut>>
      BY <2>0, <2>8 DEF Open, Consume, SessPersist, SessRec, RunsOnly
    <3> QED BY <3>1 DEF DiskIsOurs, FilesOf
  <2>9. CASE Save
    <3>1. /\ sess.at = "run" /\ sess'.at = "run" /\ sess'.key = sess.key /\ sess'.from = sess.from
          /\ sess'.marked = sess.marked /\ UNCHANGED <<marker, cut>>
          /\ session' = ledger' /\ session'.key = sess.key
      BY <2>0, <2>9 DEF Save, SessRec, RunsOnly
    <3> QED BY <3>1 DEF DiskIsOurs, FilesOf
  <2>10. CASE Retire \/ RetireFails
    <3>1. /\ sess.at = "run" /\ sess'.at = "run" /\ sess'.key = sess.key /\ sess'.from = sess.from
          /\ sess'.marked = sess.marked /\ UNCHANGED <<session, ledger, marker, cut>>
      BY <2>0, <2>10 DEF Retire, RetireFails, SessRec, RunsOnly
    <3> QED BY <3>1 DEF DiskIsOurs, FilesOf
  <2>11. CASE End
    <3>1. sess'.at = "off" /\ UNCHANGED disk /\ ~cut
          /\ sess.at \notin {"off", "rmSession", "rmLedger"}
          /\ ~(sess.at = "run" /\ ~sess.marked /\ marker # sess.key /\ session # None)
      BY <2>11 DEF End, Off
    <3>2. AtRest
      <4>1. CASE sess.at \in {"off", "wait", "guard", "rmToken"}
        BY <3>1, <4>1 DEF DiskIsOurs
      <4>2. CASE sess.at \in {"hydrate", "load", "run"}
        <5>1. FilesOf(sess.key) /\ (session # None => marker = sess.key)
          BY <3>1, <4>2 DEF DiskIsOurs
        <5>2. session # None => session.key # None
          BY RecordForms, ConstAssumption DEF Typed, TypeOK
        <5> QED BY <5>1, <5>2 DEF FilesOf, AtRest
      <4> QED BY <2>0, <3>1, <4>1, <4>2 DEF SessRec
    <3> QED BY <3>1, <3>2 DEF DiskIsOurs, AtRest
  <2> QED BY <1>3, <2>1, <2>2, <2>3, <2>4, <2>5, <2>6, <2>7, <2>8, <2>9, <2>10, <2>11 DEF Channel
<1> QED BY <1>1, <1>2, <1>3, Steps

---------------------------------------------------------------------------
(* The marker of the first sync and the promise it stands for.             *)

\* A fresh marker is pending for its own key and no other.
LEMMA PendingOf ==
  \A j, k \in Key : Pending([fp |-> k, done |-> FALSE], j) <=> j = k
<1>1. \A k \in Key : [fp |-> k, done |-> FALSE] \in FirstSync
  BY DEF FirstSync
<1> QED BY <1>1, FilesAssumption DEF Pending

\* What a completed run does to marker and promise.
LEMMA Finishes ==
  ASSUME Typed, Finish, Complete
  PROVE  /\ config.key \in Key /\ onb'.at = "idle"
         /\ \/ first' = first
            \/ onb.new /\ first' = [fp |-> config.key, done |-> FALSE]
         /\ mismarked \subseteq mismarked'
         /\ onb.new /\ (first' = first \/ config.key # onb.mem.key \/ config.key \in hadCursor)
              => config.key \in mismarked' /\ onb.mem.key \in mismarked'
         /\ \A j \in Key : Pending(first, j) /\ ~Pending(first', j) => j \in mismarked'
         /\ \A j \in Key : promised[j] # NoCursor => promised'[j] = promised[j]
         /\ \A j \in Key : j # config.key => promised'[j] = promised[j]
         /\ (onb.new => first' # first) => promised'[config.key] # NoCursor
         /\ promised'[config.key] # promised[config.key] => (onb.new => first' # first)
         /\ UNCHANGED <<disk, server, sess, memory, lapses>>
<1> DEFINE k == config.key
<1>1. k \in Key
  BY RecordForms DEF Complete, HasKey, Readable, Typed, TypeOK
<1>2. /\ first' \in IF onb.new THEN {[fp |-> k, done |-> FALSE], first} ELSE {first}
      /\ mismarked' = mismarked
           \cup (IF onb.new /\ (first' = first \/ k # onb.mem.key \/ k \in hadCursor)
                 THEN {k, onb.mem.key} ELSE {})
           \cup {j \in Key : Pending(first, j) /\ ~Pending(first', j)}
      /\ promised' = IF promised[k] = NoCursor /\ (onb.new => first' # first)
                     THEN [promised EXCEPT ![k] = inbox[k]] ELSE promised
      /\ UNCHANGED <<disk, server, sess, memory, lapses>>
  BY DEF Finish
<1>3. onb'.at = "idle"
  BY DEF Finish, Typed, TypeOK
<1>4. promised \in [Key -> NoCursor .. MaxMessages] /\ inbox[k] \in 0 .. MaxMessages
  BY <1>1 DEF Typed, TypeOK
<1>5. inbox[k] # NoCursor
  BY <1>4, ConstAssumption DEF NoCursor
<1>6. promised'[k] = IF promised[k] = NoCursor /\ (onb.new => first' # first)
                     THEN inbox[k] ELSE promised[k]
  BY <1>1, <1>2, <1>4
<1>7. \A j \in Key : j # k => promised'[j] = promised[j]
  BY <1>1, <1>2, <1>4
<1>8. \A j \in Key : promised[j] # NoCursor => promised'[j] = promised[j]
  BY <1>6, <1>7
<1>9. (onb.new => first' # first) => promised'[k] # NoCursor
  BY <1>5, <1>6
<1>10. promised'[k] # promised[k] => (onb.new => first' # first)
  BY <1>6
<1> HIDE DEF k
<1>11. /\ first' = first \/ (onb.new /\ first' = [fp |-> k, done |-> FALSE])
       /\ mismarked \subseteq mismarked'
       /\ onb.new /\ (first' = first \/ k # onb.mem.key \/ k \in hadCursor)
            => k \in mismarked' /\ onb.mem.key \in mismarked'
       /\ \A j \in Key : Pending(first, j) /\ ~Pending(first', j) => j \in mismarked'
  BY <1>2
<1> QED BY <1>1, <1>2, <1>3, <1>7, <1>8, <1>9, <1>10, <1>11 DEF k

\* What a session does to them, to its cursor and to the key it works for.
LEMMA Runs ==
  ASSUME Typed, Channel
  PROVE  /\ first' = first \/ Retire
         /\ mismarked' = mismarked \/ Retire
         /\ hadCursor' = hadCursor \/ Save
         /\ got' = got \/ Consume
         /\ session' \in {session, None} \/ Save
         /\ unretired' = unretired \/ Retire \/ RetireFails \/ End
         /\ cut => cut'
         /\ sess'.at = "run" =>
              \/ Load
              \/ /\ sess.at = "run"
                 /\ sess'.key = sess.key /\ sess'.first = sess.first
                 /\ sess'.cursor = sess.cursor \/ Open \/ Consume
                 /\ sess'.note = sess.note \/ Save \/ Retire \/ RetireFails
         /\ sess'.at # "run" => sess.at # "run" \/ End
<1> USE DEF SessStep, SessRec, Typed
<1>1. CASE Begin
  BY <1>1 DEF Begin, Off
<1>2. CASE KeyFound
  BY <1>2 DEF KeyFound, WithKey
<1>12. CASE Guard
  <2>1. sess.at # "run" /\ sess'.at # "run"
    BY <1>12 DEF Guard
  <2> QED BY <1>12, <2>1 DEF Guard
<1>3. CASE Purge
  <2>1. sess.at # "run" /\ sess'.at # "run"
    BY <1>3 DEF Purge
  <2>2. session' \in {session, None} /\ (cut => cut')
    <3>1. CASE sess.at = "rmToken"
      BY <1>3, <3>1 DEF Purge
    <3>2. CASE sess.at = "rmSession"
      BY <1>3, <3>2 DEF Purge, Removed
    <3>3. CASE sess.at = "rmLedger"
      BY <1>3, <3>3 DEF Purge
    <3> QED BY <1>3, <3>1, <3>2, <3>3 DEF Purge
  <2>3. UNCHANGED <<first, mismarked, hadCursor, got, unretired>>
    BY <1>3 DEF Purge
  <2> QED BY <2>1, <2>2, <2>3
<1>4. CASE Hydrate \/ Load
  BY <1>4 DEF Hydrate, Load
<1>5. CASE WriteMarkers
  BY <1>5 DEF WriteMarkers
<1>6. CASE Open
  BY <1>6 DEF Open
<1>7. CASE Consume
  BY <1>7 DEF Consume, RunsOnly
<1>8. CASE Save
  BY <1>8 DEF Save, RunsOnly
<1>9. CASE Retire \/ RetireFails
  BY <1>9 DEF Retire, RetireFails, RunsOnly
<1>10. CASE SessPersist
  BY <1>10 DEF SessPersist
<1>11. CASE End
  BY <1>11 DEF End, Off
<1> QED BY <1>1, <1>2, <1>3, <1>4, <1>5, <1>6, <1>7, <1>8, <1>9, <1>10, <1>11, <1>12 DEF Channel

\* The others leave them alone.
LEMMA OthersLeave ==
  ASSUME Next, ~Onboarding, ~Channel
  PROVE  UNCHANGED <<session, ledger, first, issued, onb, sess, memory, promised, mismarked,
                     lapses>>
BY Steps, HookFrame DEF ToolsStart, ToolsExchange, ToolsEnd, UseKey, Arrive

\* The steps of the onboarding, by what they mean for marker and promise.
LEMMA OnboardingIs ==
  ASSUME Typed, NothingMade, Onboarding
  PROVE  \/ /\ UNCHANGED <<first, issued, promised, mismarked>>
            /\ \/ onb.at = "idle" \/ (onb.at \in {"merge", "register"} /\ ~onb.new)
               \/ onb'.at # "idle" /\ onb'.new = onb.new /\ onb'.mem.key = onb.mem.key
         \/ \E k \in Key : /\ issued' = issued \cup {k} /\ onb'.at # "idle" /\ onb'.new
                           /\ onb'.mem.key = k /\ ~onb.new
                           /\ UNCHANGED <<first, promised, mismarked>>
         \/ OnboardFails /\ issued' = issued
         \/ Finish /\ Complete
<1>1. CASE OnboardBegins
  <2>1. onb.at = "idle"
    BY <1>1 DEF OnboardBegins
  <2>2. UNCHANGED <<first, issued, promised, mismarked>>
    BY <1>1 DEF OnboardBegins
  <2> QED BY <2>1, <2>2
<1>2. CASE OnboardWrites
  BY <1>2 DEF OnboardWrites, NothingMade, Typed, TypeOK
<1>3. CASE Register
  <2>1. ~onb.new /\ onb.at = "register"
    BY <1>3 DEF Register, NothingMade
  <2> QED BY <1>3, <2>1, Registers
<1>4. CASE Accept
  <2>1. onb.at = "accept"
    BY <1>4 DEF Accept
  <2> QED BY <1>4, <2>1, Accepts DEF CopyOf
<1>5. CASE Finish
  BY <1>5 DEF Finish
<1>6. CASE OnboardDies
  BY <1>6 DEF OnboardDies
<1> QED BY <1>1, <1>2, <1>3, <1>4, <1>5, <1>6 DEF Onboarding

\* Nothing of this is ever taken back.
LEMMA Grows ==
  ASSUME Typed, NothingMade, [Next]_vars
  PROVE  /\ hadCursor \subseteq hadCursor' /\ mismarked \subseteq mismarked'
         /\ cut => cut'
         /\ \A j \in Key : promised[j] # NoCursor => promised'[j] = promised[j]
<1>1. CASE Onboarding
  BY <1>1, OnboardingFrame, OnboardingIs, Fails, Finishes
<1>2. CASE Channel
  <2>1. Save => hadCursor \subseteq hadCursor'
    BY DEF Save
  <2>2. Retire => mismarked \subseteq mismarked'
    BY DEF Retire
  <2> QED BY <1>2, <2>1, <2>2, Runs, ChannelFrame
<1>3. CASE Next /\ ~Onboarding /\ ~Channel
  BY <1>3, OthersLeave
<1>4. CASE UNCHANGED vars
  BY <1>4 DEF vars
<1> QED BY <1>1, <1>2, <1>3, <1>4

\* A key gets its promise with its marker, or is counted as mismarked when the run ends.
LEMMA AccountedStep ==
  ASSUME Typed, NothingMade, Accounted, [Next]_vars
  PROVE  Accounted'
<1>0. /\ hadCursor \subseteq hadCursor' /\ mismarked \subseteq mismarked'
      /\ \A j \in Key : promised[j] # NoCursor => promised'[j] = promised[j]
      /\ issued \subseteq Key
  BY Grows DEF Typed, TypeOK
<1>1. CASE Onboarding
  <2>1. CASE OnboardFails /\ issued' = issued
    BY <1>0, <2>1, Fails DEF Accounted
  <2>2. CASE Finish /\ Complete
    <3> SUFFICES ASSUME NEW k \in issued, k \notin hadCursor', k \notin mismarked'
                 PROVE  promised'[k] # NoCursor
      BY <2>2, Finishes DEF Accounted
    <3>1. CASE promised[k] # NoCursor
      BY <1>0, <3>1
    <3>2. CASE onb.at # "idle" /\ onb.new /\ onb.mem.key = k
      BY <2>2, <3>2, Finishes
    <3> QED BY <1>0, <3>1, <3>2 DEF Accounted
  <2> QED BY <1>0, <1>1, <2>1, <2>2, OnboardingIs DEF Accounted
<1>2. CASE Channel
  BY <1>0, <1>2, ChannelFrame DEF Accounted
<1>3. CASE Next /\ ~Onboarding /\ ~Channel
  BY <1>3, OthersLeave DEF Accounted
<1>4. CASE UNCHANGED vars
  BY <1>4 DEF vars, Accounted
<1> QED BY <1>1, <1>2, <1>3, <1>4

\* The marker is written with the promise, and goes with the first cursor.
LEMMA MarkerStep ==
  ASSUME Typed, KeysAreIssued, NothingMade, Accounted, Retires, MarkerIsPromise, [Next]_vars
  PROVE  MarkerIsPromise'
<1>0. /\ hadCursor \subseteq hadCursor' /\ mismarked \subseteq mismarked'
      /\ \A j \in Key : promised[j] # NoCursor => promised'[j] = promised[j]
  BY Grows
<1>1. CASE UNCHANGED <<first, promised>>
  BY <1>0, <1>1 DEF MarkerIsPromise, Pending
<1>2. CASE Finish /\ Complete
  <2> DEFINE k == config.key
  <2>1. k \in issued /\ k \in Key
    BY <1>2, Finishes DEF KeysAreIssued, Complete, HasKey, Readable, Typed, TypeOK
  <2>2. ASSUME NEW j \in Key, Pending(first', j) PROVE promised'[j] # NoCursor
    <3>1. CASE first' = first
      BY <1>0, <2>2, <3>1 DEF MarkerIsPromise
    <3>2. CASE first' # first
      BY <1>2, <2>2, <3>2, Finishes, PendingOf
    <3> QED BY <3>1, <3>2
  <2>3. ASSUME NEW j \in Key, promised'[j] # NoCursor
        PROVE  Pending(first', j) \/ j \in hadCursor' \cup mismarked'
    <3>1. CASE promised[j] # NoCursor
      <4>1. Pending(first, j) \/ j \in hadCursor \cup mismarked
        BY <3>1 DEF MarkerIsPromise
      <4> QED BY <1>0, <1>2, <4>1, Finishes
    <3>2. CASE promised[j] = NoCursor
      <4>1. j = k /\ (onb.new => first' # first)
        BY <1>2, <2>3, <3>2, Finishes
      <4>2. CASE onb.new
        BY <1>2, <2>1, <4>1, <4>2, Finishes, PendingOf
      <4>3. CASE ~onb.new
        BY <1>0, <2>1, <3>2, <4>1, <4>3 DEF Accounted
      <4> QED BY <4>2, <4>3
    <3> QED BY <3>1, <3>2
  <2> QED BY <2>2, <2>3 DEF MarkerIsPromise, Pending
<1>3. CASE Retire
  <2>1. \A j \in Key : ~Pending(first', j)
    <3>1. sess.note \in FirstSync
      BY <1>3 DEF Retire, Typed, SessRec
    <3>2. first'.done
      BY <1>3, <3>1 DEF Retire, Retired, FirstSync
    <3> QED BY <3>2 DEF Pending
  <2>2. /\ \A j \in Key : Pending(first, j) => j \in mismarked' \/ j = sess.key
        /\ promised' = promised /\ sess.key \in hadCursor
    BY <1>3 DEF Retire, SessStep, Retires
  <2>3. \A j \in Key : promised[j] # NoCursor => j \in hadCursor' \cup mismarked'
    BY <1>0, <2>2 DEF MarkerIsPromise
  <2> QED BY <2>1, <2>2, <2>3 DEF MarkerIsPromise, Pending
<1>4. CASE Onboarding
  BY <1>1, <1>2, <1>4, OnboardingIs, Fails
<1>5. CASE Channel
  BY <1>1, <1>3, <1>5, Runs, ChannelFrame
<1>6. CASE Next /\ ~Onboarding /\ ~Channel
  BY <1>1, <1>6, OthersLeave
<1> QED BY <1>1, <1>4, <1>5, <1>6 DEF vars

\* The first cursor that is saved while the marker is there retires the marker.
LEMMA RetiresStep ==
  ASSUME Typed, KeysAreIssued, NothingMade, Retires, [Next]_vars, Typed'
  PROVE  Retires'
<1>0. /\ hadCursor \subseteq hadCursor' /\ mismarked \subseteq mismarked'
      /\ hadCursor \subseteq Key
  BY Grows DEF Typed, TypeOK
<1>1. CASE UNCHANGED <<session, first, hadCursor, sess, unretired>>
  BY <1>0, <1>1 DEF Retires, Pending
<1>2. CASE Finish /\ Complete
  <2>1. UNCHANGED <<session, hadCursor, sess, unretired>>
    BY <1>2, Finishes
  <2>2. ASSUME NEW j \in hadCursor' \ (mismarked' \cup unretired'), Pending(first', j)
        PROVE  sess'.note # None /\ sess'.key = j
    <3>1. first' = first
      BY <1>0, <1>2, <2>1, <2>2, Finishes, PendingOf
    <3> QED BY <1>0, <2>1, <2>2, <3>1 DEF Retires
  <2> QED BY <2>1, <2>2 DEF Retires, Pending
<1>3. CASE Save
  <2>1. /\ sess.note = None /\ sess'.key = sess.key /\ session'.key = sess.key
        /\ hadCursor' = hadCursor \cup {sess.key} /\ UNCHANGED <<first, mismarked, unretired>>
        /\ sess'.note = IF Pending(first, sess.key) THEN first ELSE None
    BY <1>3 DEF Save, SessStep, Typed, SessRec
  <2>2. ASSUME NEW j \in hadCursor' \ (mismarked' \cup unretired'), Pending(first', j)
        PROVE  sess'.note # None /\ sess'.key = j
    <3>1. j = sess.key
      BY <2>1, <2>2 DEF Retires
    <3> QED BY <2>1, <2>2, <3>1 DEF Pending
  <2> QED BY <2>1, <2>2 DEF Retires, Pending
<1>4. CASE Retire
  <2>1. sess.note \in FirstSync
    BY <1>4 DEF Retire, Typed, SessRec
  <2>2. first'.done
    BY <1>4, <2>1 DEF Retire, Retired, FirstSync
  <2>3. UNCHANGED <<session, hadCursor>> /\ sess'.note = None
    BY <1>4 DEF Retire, SessStep, Typed, SessRec
  <2> QED BY <2>2, <2>3 DEF Retires, Pending
<1>5. CASE Channel /\ ~Save /\ ~Retire /\ ~RetireFails /\ ~End
  <2>1. first' = first /\ hadCursor' = hadCursor /\ mismarked' = mismarked
        /\ session' \in {session, None} /\ unretired' = unretired
    BY <1>5, Runs
  <2>2. (sess'.note = sess.note /\ sess'.key = sess.key) \/ (sess.note = None /\ sess'.note = None)
    <3>1. CASE sess'.at = "run" /\ ~Load
      BY <1>5, <3>1, Runs
    <3>2. CASE Load
      BY <3>2 DEF Load, SessStep, Typed, SessRec
    <3>3. CASE sess'.at # "run"
      BY <1>5, <3>3, Runs DEF Typed, RunsOnly
    <3> QED BY <3>1, <3>2, <3>3
  <2> QED BY <1>0, <2>1, <2>2 DEF Retires, Pending
<1>6. CASE RetireFails \/ End
  <2>1. /\ sess'.note = None /\ UNCHANGED <<session, first, hadCursor, mismarked>>
        /\ unretired' = unretired \cup (IF sess.note # None THEN {sess.key} ELSE {})
    <3>1. CASE RetireFails
      BY <3>1 DEF RetireFails, SessStep, Typed, SessRec
    <3>2. CASE End
      BY <3>2 DEF End, SessStep, Off
    <3> QED BY <1>6, <3>1, <3>2
  <2>2. ASSUME NEW j \in hadCursor' \ (mismarked' \cup unretired'), Pending(first', j)
        PROVE  FALSE
    BY <2>1, <2>2 DEF Retires, Pending
  <2> QED BY <2>1, <2>2 DEF Retires
<1>7. CASE Onboarding
  BY <1>1, <1>2, <1>7, OnboardingIs, OnboardingFrame, Fails
<1>8. CASE Next /\ ~Onboarding /\ ~Channel
  BY <1>1, <1>8, OthersLeave
<1> QED BY <1>1, <1>3, <1>4, <1>5, <1>6, <1>7, <1>8 DEF vars

---------------------------------------------------------------------------
(* A first session starts at 0 and its cursor then follows what it consumes. *)

\* The first session of a marked identity loads the start of the inbox.
LEMMA LoadsAtZero ==
  ASSUME Typed, KeysAreIssued, DiskIsOurs, MarkerIsPromise, Retires, Load, ~cut,
         sess'.first, sess.key \notin mismarked
  PROVE  sess'.cursor = 0
<1> DEFINE k == sess.key
<1>1. k \in Key /\ (session = None <=> ledger = None) /\ (session # None => session.key = k)
  BY DEF Load, KeysAreIssued, DiskIsOurs, FilesOf, Typed, TypeOK
<1>2. k \notin hadCursor /\ promised[k] # NoCursor
  BY DEF Load, SessStep, Typed, SessRec
<1>3. session = None /\ ledger = None
  BY <1>1, <1>2 DEF Retires
<1>4. Pending(first, k)
  BY <1>1, <1>2 DEF MarkerIsPromise
<1> QED BY <1>3, <1>4 DEF Load, SessStep, Typed, SessRec, InitialCursor

\* Only the start of the inbox is a cursor of zero, and only a session of an identity
\* without a cursor is promised that, unless its marker came too late or stayed.
LEMMA ZeroIsPromised ==
  ASSUME Typed, KeysAreIssued, MarkerIsPromise, Retires, Load, sess'.cursor = 0, ~sess'.first
  PROVE  sess.key \in mismarked \cup unretired
<1> DEFINE k == sess.key
           c == IF session # None THEN session.seq ELSE InitialCursor(k)
<1>1. k \in Key /\ sess.note = None
  BY DEF Load, KeysAreIssued, Typed, TypeOK, RunsOnly
<1>2. /\ sess'.first = (k \in {j \in Key \ hadCursor : promised[j] # NoCursor})
      /\ sess'.cursor = IF ledger # None /\ ledger.seq > Num(c) THEN ledger.seq ELSE c
  BY DEF Load, SessStep, Typed, SessRec
<1>3. /\ session # None => session.seq > 0
      /\ ledger # None => ledger.seq > 0
  BY RecordForms, ConstAssumption DEF Typed, TypeOK
<1>4. Pending(first, k)
  BY <1>2, <1>3 DEF InitialCursor, NoCursor
<1>5. k \in hadCursor
  BY <1>1, <1>2, <1>4 DEF MarkerIsPromise
<1> QED BY <1>1, <1>4, <1>5 DEF Retires

\* The cursor of a first session starts at 0 and only Consume moves it.
LEMMA CatchUpStep ==
  ASSUME Typed, KeysAreIssued, NothingMade, DiskIsOurs, MarkerIsPromise, Retires, CatchesUp,
         [Next]_vars, Typed'
  PROVE  CatchesUp'
<1>0. /\ mismarked \subseteq mismarked' /\ (cut => cut')
      /\ \A j \in Key : promised[j] # NoCursor => promised'[j] = promised[j]
  BY Grows
<1>1. CASE sess'.at # "run"
  BY <1>1 DEF Typed, RunsOnly, CatchesUp
<1>2. CASE Load
  <2>1. sess'.key = sess.key /\ promised' = promised
    BY <1>2 DEF Load, SessStep, Typed, SessRec
  <2>2. sess'.first => promised[sess.key] # NoCursor
    BY <1>2 DEF Load, SessStep, Typed, SessRec
  <2>3. sess'.first /\ sess'.key \notin mismarked' /\ ~cut' => sess'.cursor = 0
    BY <1>0, <1>2, <2>1, LoadsAtZero
  <2>4. sess'.cursor = 0 => sess'.cursor # NoCursor /\ PassedOver' = {}
    BY DEF PassedOver, Num, NoCursor
  <2> QED BY <2>1, <2>2, <2>3, <2>4 DEF CatchesUp
<1>3. CASE /\ sess.at = "run" /\ sess'.key = sess.key /\ sess'.first = sess.first
           /\ sess'.cursor = sess.cursor \/ Open \/ Consume
           /\ got' = got \/ Consume
  <2> SUFFICES ASSUME sess.first
               PROVE  /\ promised'[sess.key] # NoCursor
                      /\ sess.key \notin mismarked' /\ ~cut' =>
                           sess'.cursor # NoCursor /\ PassedOver' = {}
    BY <1>3 DEF CatchesUp
  <2>1. sess.key \in Key /\ promised[sess.key] # NoCursor
    BY <1>3 DEF CatchesUp, KeysAreIssued, Typed, TypeOK
  <2>2. promised'[sess.key] = promised[sess.key]
    BY <1>0, <2>1
  <2>3. ASSUME sess.key \notin mismarked', ~cut'
        PROVE  sess'.cursor # NoCursor /\ PassedOver' = {}
    <3>1. sess.cursor # NoCursor /\ PassedOver = {}
      BY <1>0, <2>3 DEF CatchesUp
    <3>2. CASE Consume
      <4> DEFINE m == Num(sess.cursor) + 1
      <4>1. sess'.cursor = m /\ got'[sess.key] = got[sess.key] \cup {m}
        BY <2>1, <3>2 DEF Consume, SessStep, Typed, TypeOK, SessRec
      <4>2. Num(sess.cursor) = sess.cursor /\ sess.cursor \in Nat /\ m \in Nat /\ Num(m) = m
        BY <3>1, ConstAssumption DEF Num, NoCursor, Typed, SessRec
      <4>3. PassedOver' \subseteq PassedOver
        BY <1>3, <2>2, <4>1, <4>2 DEF PassedOver
      <4> QED BY <3>1, <4>1, <4>2, <4>3 DEF NoCursor
    <3>3. CASE ~Consume
      <4>1. sess'.cursor = sess.cursor /\ got' = got
        BY <1>3, <3>1, <3>3 DEF Open, SessStep, Typed, SessRec
      <4> QED BY <1>3, <2>2, <3>1, <4>1 DEF PassedOver
    <3> QED BY <3>2, <3>3
  <2> QED BY <2>1, <2>2, <2>3
<1>4. CASE UNCHANGED <<sess, got>>
  BY <1>0, <1>1, <1>3, <1>4
<1>5. CASE Channel
  BY <1>1, <1>2, <1>3, <1>5, Runs
<1>6. CASE ~Channel
  BY <1>4, <1>6, OnboardingFrame, OthersLeave DEF vars
<1> QED BY <1>5, <1>6

---------------------------------------------------------------------------
\* The invariant of all this, from the start and over every step.
LEMMA InitIInv == Init => IInv
<1> SUFFICES ASSUME Init PROVE IInv
  OBVIOUS
<1> PICK new \in SUBSET Key, worked \in SUBSET Key, away \in SUBSET Elsewhere :
       Init!(new, worked, away)
  BY DEF Init
<1> DEFINE n == Only(new)
           w == Only(worked)
<1>1. /\ new # {} => n \in Key /\ new = {n}
      /\ worked # {} => w \in Key /\ worked = {w}
      /\ issued = new \cup worked \cup away /\ mismarked = away
      /\ new = {} \/ worked = {}
  BY OnlyIsIn
<1>2. Typed /\ KeysAreIssued /\ NothingMade
  BY InitTyped
<1>3. OneIdentityPerRun /\ NobodyElse
  BY DEF OneIdentityPerRun, NobodyElse
<1>4. /\ worked = {} => w = None
      /\ sess.at = "off" /\ ~sess.first /\ sess.note = None
  BY DEF Only, Off
<1>5. DiskIsOurs
  <2>1. AtRest
    <3>1. CASE worked = {}
      BY <3>1 DEF AtRest
    <3>2. CASE worked # {}
      BY <1>1, <3>2, ConstAssumption DEF AtRest
    <3> QED BY <3>1, <3>2
  <2> QED BY <1>4, <2>1 DEF DiskIsOurs
<1>6. \A k \in Key : promised[k] # NoCursor <=> k \in new
  <2>1. \A k \in Key : promised[k] = IF k \in new THEN 0 ELSE NoCursor
    OBVIOUS
  <2>2. 0 # NoCursor
    BY DEF NoCursor
  <2> QED BY <2>1, <2>2
<1>7. Accounted
  <2>1. hadCursor = worked /\ issued \subseteq Key
    BY ConstAssumption
  <2> QED BY <1>1, <1>6, <2>1 DEF Accounted
<1>8. MarkerIsPromise
  <2>1. CASE new = {}
    BY <1>6, <2>1 DEF MarkerIsPromise, Pending
  <2>2. CASE new # {}
    <3>1. first = [fp |-> n, done |-> FALSE]
      BY <2>2
    <3>2. \A k \in Key : Pending(first, k) <=> k \in new
      <4>1. n \in Key /\ \A k \in Key : k \in new <=> k = n
        BY <1>1, <2>2
      <4> HIDE DEF n
      <4>2. ASSUME NEW k \in Key PROVE Pending(first, k) <=> k \in new
        <5>1. Pending([fp |-> n, done |-> FALSE], k) <=> k = n
          BY <4>1, PendingOf
        <5>2. Pending(first, k) <=> k = n
          BY <3>1, <5>1 DEF Pending
        <5> QED BY <4>1, <5>2
      <4> QED BY <4>2
    <3> QED BY <1>6, <3>2 DEF MarkerIsPromise
  <2> QED BY <2>1, <2>2
<1>9. Retires
  <2>1. session # None => session.key \in hadCursor
    BY <1>1
  <2>2. \A k \in hadCursor : ~Pending(first, k)
    <3>1. CASE new = {}
      BY <3>1 DEF Pending
    <3>2. CASE new # {}
      BY <1>1, <3>2
    <3> QED BY <3>1, <3>2
  <2> QED BY <1>4, <2>1, <2>2 DEF Retires
<1>10. CatchesUp
  BY <1>4 DEF CatchesUp
<1> QED BY <1>2, <1>3, <1>5, <1>7, <1>8, <1>9, <1>10 DEF IInv

LEMMA Inductive == IInv /\ [Next]_vars => IInv'
<1> SUFFICES ASSUME IInv, [Next]_vars PROVE IInv'
  OBVIOUS
<1> USE DEF IInv
<1>1. Typed'
  BY TypedStep
<1>2. KeysAreIssued'
  BY KeysStep
<1>3. NothingMade' /\ OneIdentityPerRun'
  BY MadeStep
<1>4. NobodyElse'
  BY NobodyElseStep
<1>5. DiskIsOurs'
  BY DiskStep
<1>6. Accounted' /\ MarkerIsPromise'
  BY AccountedStep, MarkerStep
<1>7. Retires'
  BY <1>1, RetiresStep
<1>8. CatchesUp'
  BY <1>1, CatchUpStep
<1> QED BY <1>1, <1>2, <1>3, <1>4, <1>5, <1>6, <1>7, <1>8

LEMMA Invariance == Spec => []IInv
<1>1. IInv /\ UNCHANGED vars => IInv'
  BY Inductive
<1> QED BY InitIInv, Inductive, <1>1, PTL DEF Spec

\* The state of every process and file has its type: a cursor names a message that
\* was there, and what a cached file says it was saved under is a key.
THEOREM IdentityTypeCorrect == Spec => []TypeOK
<1>1. IInv => TypeOK
  BY DEF IInv, Typed
<1> QED BY Invariance, <1>1, PTL

\* token-guard.js: no session works with the cursor or the watermark that another
\* identity left, unless an earlier purge, or a start before its api_key markers, was
\* cut short or left a file.
THEOREM CursorBelongs == Spec => []CursorIsOurs
<1>1. IInv => CursorIsOurs
  BY DEF IInv, DiskIsOurs, CursorIsOurs
<1> QED BY Invariance, <1>1, PTL

\* onboard.js and first-sync.js: the first session of an identity whose marker was
\* written, and not replaced, passes over no message that came after ONBOARD OK, unless
\* an earlier purge, or a start before its api_key markers, was cut short or left a file.
THEOREM MarkerCatchesUp == Spec => []MarkedSessionCatchesUp
<1>1. IInv => MarkedSessionCatchesUp
  BY DEF IInv, CatchesUp, MarkedSessionCatchesUp
<1> QED BY Invariance, <1>1, PTL

\* first-sync.js: once an identity had a cursor, no purge makes a later session start
\* from the beginning of its inbox, unless its marker came after the cursor or, when
\* the cursor was saved, the process ended before the marker was retired, or that
\* write failed.
THEOREM RetiredIsNotReplayed == Spec => NoReplay
<1>1. IInv /\ [Next]_vars
        => [sess.at = "load" /\ sess'.cursor = 0 /\ ~sess'.first
              => sess.key \in mismarked \cup unretired]_vars
  <2> SUFFICES ASSUME IInv, [Next]_vars, sess.at = "load", sess'.cursor = 0, ~sess'.first
               PROVE  sess.key \in mismarked \cup unretired
    OBVIOUS
  <2> USE DEF IInv
  <2>1. Typed'
    BY TypedStep
  <2>2. CASE Load
    BY <2>2, ZeroIsPromised
  <2>3. CASE Channel /\ ~Load
    <3>1. sess'.at # "run"
      BY <2>3, Runs
    <3> QED BY <2>1, <3>1 DEF Typed, RunsOnly, NoCursor
  <2>4. CASE ~Channel
    <3>1. sess' = sess
      BY <2>4, OnboardingFrame, OthersLeave DEF vars
    <3> QED BY <3>1 DEF Typed, RunsOnly, NoCursor
  <2> QED BY <2>2, <2>3, <2>4
<1> QED BY Invariance, <1>1, PTL DEF Spec, NoReplay

\* auto-register.js: a run never registers twice, since an answer that may have been
\* a success ends the run instead of being tried again.
THEOREM RegistersOnce == Spec => []OneIdentityPerRun
<1>1. IInv => OneIdentityPerRun
  BY DEF IInv
<1> QED BY Invariance, <1>1, PTL

\* index.js and onboard.js: with no process left that read the config before, the
\* onboarded key stays in it, whatever the sessions, the hook and the tools rewrite.
THEOREM OnboardedStays == Spec => []OnboardedKeyStays
<1>1. IInv => OnboardedKeyStays
  <2>1. ASSUME IInv, onboarded # None, ~older PROVE Readable /\ config.key = onboarded
    <3>1. config = CopyOf(onboarded) /\ onboarded \in Key
      BY <2>1 DEF IInv, NobodyElse, Typed, TypeOK
    <3>2. CopyOf(onboarded) \in Copy /\ CopyOf(onboarded).key = onboarded
      BY <3>1 DEF CopyOf, Copy
    <3> QED BY <3>1, <3>2, RecordForms DEF Readable
  <2> QED BY <2>1 DEF OnboardedKeyStays
<1> QED BY Invariance, <1>1, PTL
=============================================================================
