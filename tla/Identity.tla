------------------------------ MODULE Identity ------------------------------
(***************************************************************************)
(* The agent's identity on one machine, from registration to the first     *)
(* message: the onboarding (scripts/onboard.js, hooks/auto-register.js),   *)
(* the SessionStart hook, sessions that start while it runs (index.js,     *)
(* waitForApiKey, token-guard.js), the first-sync marker (first-sync.js),  *)
(* and config.json, which all of them rewrite as a whole.                  *)
(*                                                                         *)
(* An api_key stands for the identity it was issued for.  One org; one     *)
(* channel session at a time, as ChannelLock shows; any number of sessions *)
(* with tools only.  What happens to a message between server and          *)
(* consumption is InboxDelivery's subject: here they are consumed in order.*)
(***************************************************************************)
EXTENDS Integers

CONSTANTS
  Key,          \* the api_keys the server may issue
  Elsewhere,    \* those that may be of identities of other machines, whose config
                \* somebody brings along
  None,         \* a blank key, an absent file
  Torn,         \* a config.json truncated and not yet rewritten
  MaxMessages,  \* bound: messages per inbox
  MaxRuns,      \* bound: how often the onboarding is run
  MaxStarts     \* bound: how many channel sessions start

ASSUME ConstAssumption ==
  /\ Elsewhere \subseteq Key /\ None \notin Key /\ Torn \notin Key \cup {None}
  /\ MaxMessages \in Nat \ {0} /\ {MaxRuns, MaxStarts} \subseteq Nat

NoCursor == -1   \* falsy: the bridge seeks to the end; 0 is inboxStartCursor()
Num(c) == IF c = NoCursor THEN 0 ELSE c

Copy == [key : Key \cup {None}, invite : BOOLEAN]
Saved == [key : Key, seq : 1 .. MaxMessages]
FirstSync == [fp : Key, done : BOOLEAN]

\* A missing file and a truncated one are told from every other.
ASSUME FilesAssumption == None \notin Saved \cup FirstSync /\ Torn \notin Copy

VARIABLES
  config,     \* disk: config.json
  token,      \* disk: the key that tokens/<org>.json was exchanged for
  session,    \* disk: sessions/<org>.json, with the key it was saved under
  ledger,     \* disk: inbox-<org>.json, likewise
  marker,     \* disk: apikey-fp/<org>.json
  first,      \* disk: first-sync.json
  issued,     \* server: registered identities whose key reached a machine
  member,     \* server: those that accepted the invitation
  inbox,      \* server: how many messages each has
  onb,        \* the onboarding: the copy of the config it works on, whether it
              \* registered, and what the server registered for it, told or not
  runs,       \* how often it ran
  hook,       \* the SessionStart hook, likewise
  tools,      \* the keys that sessions with tools only hold in memory
  sess,       \* the channel session
  starts,     \* how many there were
  got,        \* messages consumed, per identity
  hadCursor,  \* identities that ever had a saved cursor
  promised,   \* length of the inbox when ONBOARD OK was first printed for an identity
  mismarked,  \* identities whose first-sync marker is missing, replaced or a mistake:
              \* another identity's, or that of one which has a cursor already
  onboarded,  \* the key of the latest ONBOARD OK, while nobody chose another
  older,      \* did some process then hold a copy of an older config?
  unretired,  \* identities whose cursor was saved, but then the process ended, or the
              \* write failed, that retires their first-sync marker
  cut         \* was a purge cut short, or did it leave a file; or did a start that has
              \* a session end before its api_key marker, or fail to write it?

disk == <<token, session, ledger, marker>>
server == <<issued, member, inbox>>
memory == <<got, hadCursor>>
claims == <<promised, onboarded, older>>
lapses == <<unretired, cut>>
vars == <<config, disk, first, server, onb, runs, hook, tools, sess, starts, memory,
          claims, mismarked, lapses>>

Off == [at |-> "off", key |-> None, cursor |-> NoCursor, from |-> None, conn |-> FALSE,
        marked |-> FALSE, first |-> FALSE, note |-> None]

Blank == [key |-> None, invite |-> FALSE]

TypeOK ==
  /\ config \in Copy \cup {Torn}
  /\ {token, marker} \subseteq Key \cup {None}
  /\ {session, ledger} \subseteq Saved \cup {None}
  /\ first \in FirstSync \cup {None}
  /\ issued \subseteq Key /\ member \subseteq issued
  /\ inbox \in [Key -> 0 .. MaxMessages]
  /\ onb \in [at : {"idle", "merge", "register", "writeKey", "accept", "writeAccepted",
                    "finish"}, mem : Copy, new : BOOLEAN, made : SUBSET Key]
  /\ hook \in [at : {"idle", "accept", "write"}, mem : Copy]
  /\ runs \in 0 .. MaxRuns /\ starts \in 0 .. MaxStarts
  /\ tools \subseteq Key
  /\ sess.at \in {"off", "wait", "guard", "rmToken", "rmSession", "rmLedger", "hydrate",
                  "load", "run"}
  /\ {sess.key, sess.from} \subseteq Key \cup {None}
  /\ sess.cursor \in NoCursor .. MaxMessages
  /\ {sess.conn, sess.marked, sess.first} \subseteq BOOLEAN
  /\ sess.note \in FirstSync \cup {None}
  /\ got \in [Key -> SUBSET (1 .. MaxMessages)]
  /\ hadCursor \subseteq Key /\ mismarked \subseteq Key /\ unretired \subseteq Key
  /\ promised \in [Key -> NoCursor .. MaxMessages]
  /\ onboarded \in Key \cup {None} /\ older \in BOOLEAN /\ cut \in BOOLEAN

CopyOf(k) == [key |-> k, invite |-> FALSE]
Only(S) == IF S = {} THEN None ELSE CHOOSE k \in S : TRUE

\* A new machine; one that was onboarded and has had no session; one that worked
\* before, perhaps without api_key markers.
Init ==
  \E new, worked \in SUBSET Key, away \in SUBSET Elsewhere :
    /\ new \cap worked = {} /\ (new \cup worked) \cap away = {}
    /\ \A j, k \in new \cup worked : j = k
    /\ issued = new \cup worked \cup away /\ member = issued
    /\ config = CopyOf(Only(new \cup worked))
    /\ first = IF new = {} THEN None ELSE [fp |-> Only(new), done |-> FALSE]
    /\ token = Only(worked) /\ marker \in {token, None}
    /\ session = IF worked = {} THEN None ELSE [key |-> Only(worked), seq |-> 1]
    /\ ledger = session
    /\ inbox = [k \in Key |-> IF k \in worked THEN 1 ELSE 0]
    /\ got = [k \in Key |-> 1 .. inbox[k]] /\ hadCursor = worked
    /\ promised = [k \in Key |-> IF k \in new THEN 0 ELSE NoCursor]
    /\ onb = [at |-> "idle", mem |-> Blank, new |-> FALSE, made |-> {}] /\ runs = 0
    /\ hook = [at |-> "idle", mem |-> Blank]
    /\ tools = {} /\ sess = Off /\ starts = 0
    /\ mismarked = away /\ onboarded = None /\ older = FALSE
    /\ unretired = {} /\ cut = FALSE

Readable == config # Torn
HasKey == Readable /\ config.key # None

\* pendingFor.
Pending(m, k) == m # None /\ m.fp = k /\ ~m.done

---------------------------------------------------------------------------
(* The onboarding.  writeConfig0600 truncates the file before it writes.   *)

\* The run goes on at a with its copy c and, at a write, the file is truncated.
GoOn(a, c) ==
  /\ onb' = [onb EXCEPT !.at = a, !.mem = c, !.new = @ /\ onb.at # "idle"]
  /\ config' = IF a \in {"merge", "writeKey", "writeAccepted"} THEN Torn ELSE config

\* The run ends without ONBOARD OK: what it registered stays without a marker.
OnboardFails ==
  /\ onb' = [onb EXCEPT !.at = "idle", !.made = {}]
  /\ mismarked' = mismarked \cup (IF onb.new THEN {onb.mem.key} ELSE {})
  /\ UNCHANGED <<config, first, claims>>

\* registerAndAccept registers only when its copy has no key.
AfterConfig(c) == IF c.key = None THEN "register" ELSE "accept"

\* The new file, on its own or with the registration of the file there: kept if it
\* is for the same server and orgs, dropped otherwise or if the new file has a key.
MergeIncomingConfig ==
  {[key |-> None, invite |-> TRUE]}
    \cup {[key |-> k, invite |-> TRUE] : k \in IF HasKey THEN {config.key} ELSE {}}

\* With a config on its stdin, or --no-stdin.
OnboardBegins ==
  /\ onb.at = "idle" /\ runs < MaxRuns
  /\ runs' = runs + 1 /\ onboarded' = None
  /\ \/ \E c \in MergeIncomingConfig :
          GoOn(IF c = config THEN AfterConfig(c) ELSE "merge", c)
     \/ Readable /\ GoOn(AfterConfig(config), config)
  /\ UNCHANGED <<disk, first, server, hook, tools, sess, starts, memory, promised, older,
                 mismarked, lapses>>

\* What a write leaves: its text, or, if another process meanwhile put a new file
\* in place of the truncated one, that.  After the merge the run reads it again.
Written(c) == {c} \cup (IF Readable THEN {config} ELSE {})

OnboardWrites ==
  /\ config' \in Written(onb.mem)
  /\ \/ onb.at = "merge" /\ onb' = [onb EXCEPT !.at = AfterConfig(config'), !.mem = config']
     \/ onb.at = "writeKey" /\ onb' = [onb EXCEPT !.at = "accept"]
     \/ onb.at = "writeAccepted" /\ onb' = [onb EXCEPT !.at = "finish"]
  /\ UNCHANGED <<disk, first, server, runs, hook, tools, sess, starts, memory, claims,
                 mismarked, lapses>>

\* How a POST fails: "notSent" (no connection), "refused" (503), "throttled" (429),
\* "rejected" (another 4xx, an answer that makes no sense), or "lost": a timeout, a
\* reset, another 5xx, the budget used up; then the server may have done its part.
PostFailure == {"notSent", "refused", "throttled", "rejected", "lost"}

\* Mutant: a lost answer is a reason to register again.
IsRetryable_AnyError(kind, o) == o # "rejected"

\* isRetryable.
IsRetryable(kind, o) ==
  \/ o \in {"notSent", "refused"}
  \/ o = "lost" /\ kind = "idempotent"
  \/ o = "throttled" /\ kind = "not-idempotent"

\* postWithRetry after a failed attempt: another one (retries are left), or the end.
AttemptFails(kind, o, made) ==
  \/ /\ IsRetryable(kind, o)
     /\ onb' = [onb EXCEPT !.made = made]
     /\ UNCHANGED <<config, first, claims, mismarked>>
  \/ OnboardFails

\* A registration whose answer is lost leaves an identity nobody has the key of
\* (its model value may be issued again in a later run).
Register ==
  /\ onb.at = "register"
  /\ \/ \E k \in Key \ (issued \cup onb.made) :
          \/ /\ issued' = issued \cup {k}
             /\ onb' = [at |-> "writeKey", mem |-> [onb.mem EXCEPT !.key = k],
                        new |-> TRUE, made |-> onb.made \cup {k}]
             /\ config' = Torn
             /\ UNCHANGED <<first, claims, mismarked>>
          \/ /\ AttemptFails("not-idempotent", "lost", onb.made \cup {k})
             /\ UNCHANGED issued
     \/ /\ \E o \in PostFailure : AttemptFails("not-idempotent", o, onb.made)
        /\ UNCHANGED issued
  /\ UNCHANGED <<disk, member, inbox, runs, hook, tools, sess, starts, memory, lapses>>

\* maybeAcceptInvite; a lost answer may stand for an accepted invitation.
Accept ==
  /\ onb.at = "accept"
  /\ \/ /\ ~onb.mem.invite
        /\ GoOn("finish", onb.mem)
        /\ UNCHANGED <<member, first, claims, mismarked>>
     \/ /\ onb.mem.invite
        /\ member' = member \cup {onb.mem.key}
        /\ GoOn("writeAccepted", [onb.mem EXCEPT !.invite = FALSE])
        /\ UNCHANGED <<first, claims, mismarked>>
     \/ /\ onb.mem.invite
        /\ \E o \in PostFailure :
             /\ member' \in {member} \cup (IF o = "lost" THEN {member \cup {onb.mem.key}} ELSE {})
             /\ AttemptFails("idempotent", o, onb.made)
  /\ UNCHANGED <<disk, issued, inbox, runs, hook, tools, sess, starts, memory, lapses>>

\* Does a process other than the onboarding hold a config without key k?
OlderCopy(k) ==
  \/ tools \ {k} # {}
  \/ sess.at \notin {"off", "wait"} /\ sess.key # k
  \/ hook.at # "idle"

Complete == HasKey /\ ~config.invite

\* The last part of runOnboard reads the config once more and, after a new
\* registration, writes the first-sync marker or warns that it could not.
Finish ==
  /\ onb.at = "finish"
  /\ \/ /\ ~Complete
        /\ OnboardFails
     \/ /\ Complete
        /\ LET k == config.key
           IN  /\ first' \in IF onb.new THEN {[fp |-> k, done |-> FALSE], first} ELSE {first}
               /\ mismarked' = mismarked
                    \cup (IF onb.new /\ (first' = first \/ k # onb.mem.key \/ k \in hadCursor)
                          THEN {k, onb.mem.key} ELSE {})
                    \cup {j \in Key : Pending(first, j) /\ ~Pending(first', j)}
               /\ promised' = IF promised[k] = NoCursor /\ (onb.new => first' # first)
                              THEN [promised EXCEPT ![k] = inbox[k]] ELSE promised
               /\ onboarded' = k /\ older' = OlderCopy(k)
        /\ onb' = [onb EXCEPT !.at = "idle", !.made = {}]
        /\ UNCHANGED config
  /\ UNCHANGED <<disk, server, runs, hook, tools, sess, starts, memory, lapses>>

OnboardDies ==
  /\ onb.at # "idle"
  /\ OnboardFails
  /\ UNCHANGED <<disk, server, runs, hook, tools, sess, starts, memory, lapses>>

\* Somebody restores the config of another identity.
UseKey(k) ==
  /\ k \in issued
  /\ config' = CopyOf(k) /\ onboarded' = None
  /\ UNCHANGED <<disk, first, server, onb, runs, hook, tools, sess, starts, memory,
                 promised, older, mismarked, lapses>>

---------------------------------------------------------------------------
(* The SessionStart hook: accepts a pending invitation, never registers.   *)

HookReads ==
  /\ hook.at = "idle" /\ HasKey /\ config.invite
  /\ hook' = [at |-> "accept", mem |-> config]
  /\ UNCHANGED <<config, disk, first, server, onb, runs, tools, sess, starts, memory,
                 claims, mismarked, lapses>>

HookAccepts ==
  /\ hook.at = "accept"
  /\ member' = member \cup {hook.mem.key}
  /\ hook' = [hook EXCEPT !.at = "write"] /\ config' = Torn
  /\ UNCHANGED <<disk, first, issued, inbox, onb, runs, tools, sess, starts, memory,
                 claims, mismarked, lapses>>

HookWrites ==
  /\ hook.at = "write"
  /\ config' \in Written([hook.mem EXCEPT !.invite = FALSE])
  /\ hook' = [hook EXCEPT !.at = "idle"]
  /\ UNCHANGED <<disk, first, server, onb, runs, tools, sess, starts, memory, claims,
                 mismarked, lapses>>

\* Refused, timed out or killed.
HookDies ==
  /\ hook.at # "idle"
  /\ hook' = [hook EXCEPT !.at = "idle"]
  /\ UNCHANGED <<config, disk, first, server, onb, runs, tools, sess, starts, memory,
                 claims, mismarked, lapses>>

---------------------------------------------------------------------------
(* A session with tools only exchanges a token, neither guarded nor        *)
(* marked, and may rewrite the config with its copy: the member_id of a    *)
(* new token, a policy, a name.                                            *)

\* (Bound: one such session at a time.)
ToolsStart ==
  /\ HasKey /\ tools = {}
  /\ tools' = tools \cup {config.key}
  /\ UNCHANGED <<config, disk, first, server, onb, runs, hook, sess, starts, memory,
                 claims, mismarked, lapses>>

ToolsExchange(k) ==
  /\ k \in tools
  /\ token' = k
  /\ config' \in {config, CopyOf(k)}
  /\ UNCHANGED <<session, ledger, marker, first, server, onb, runs, hook, tools, sess, starts,
                 memory, claims, mismarked, lapses>>

ToolsEnd(k) ==
  /\ k \in tools
  /\ tools' = tools \ {k}
  /\ UNCHANGED <<config, disk, first, server, onb, runs, hook, sess, starts, memory,
                 claims, mismarked, lapses>>

---------------------------------------------------------------------------
(* The channel session: main() of index.js.                                *)

SessStep(r) ==
  /\ sess' = r
  /\ UNCHANGED <<server, onb, runs, hook, tools, claims>>

\* loadAdapterConfig; a file that does not parse ends the process at once.
Begin ==
  /\ sess.at = "off" /\ starts < MaxStarts /\ Readable
  /\ starts' = starts + 1
  /\ SessStep([Off EXCEPT !.at = IF HasKey THEN "guard" ELSE "wait", !.key = config.key])
  /\ UNCHANGED <<config, disk, first, memory, mismarked, lapses>>

\* Mutant: the runtime is built from the config loaded first.
WithKey_Initial == sess

WithKey == [sess EXCEPT !.key = config.key]

\* waitForApiKey polls; a file that does not parse is read again.
KeyFound ==
  /\ sess.at = "wait" /\ HasKey
  /\ SessStep([WithKey EXCEPT !.at = "guard"])
  /\ UNCHANGED <<config, disk, first, starts, memory, mismarked, lapses>>

\* Mutant: without a marker the cache is kept.
MustPurge_Trusting == marker # None /\ marker # sess.key

\* guardStaleTokenCache's decision.
MustPurge == IF marker # None THEN marker # sess.key ELSE token # None

Guard ==
  /\ sess.at = "guard"
  /\ SessStep([sess EXCEPT !.at = IF MustPurge THEN "rmToken" ELSE "hydrate"])
  /\ UNCHANGED <<config, disk, first, starts, memory, mismarked, lapses>>

\* remove: the file goes, or stays if it cannot be deleted; it never throws.
Removed(file) == {None, file}

\* purgeOrgTokenCache, one file after the other.
Purge ==
  /\ \/ /\ sess.at = "rmToken" /\ token' \in Removed(token) /\ UNCHANGED cut
        /\ SessStep([sess EXCEPT !.at = "rmSession"]) /\ UNCHANGED <<session, ledger>>
     \/ /\ sess.at = "rmSession" /\ session' \in Removed(session)
        /\ cut' = (cut \/ session' # None)
        /\ SessStep([sess EXCEPT !.at = "rmLedger"]) /\ UNCHANGED <<token, ledger>>
     \/ /\ sess.at = "rmLedger" /\ ledger' \in Removed(ledger)
        /\ cut' = (cut \/ ledger' # None)
        /\ SessStep([sess EXCEPT !.at = "hydrate"]) /\ UNCHANGED <<token, session>>
  /\ UNCHANGED <<config, marker, first, starts, memory, mismarked, unretired>>

\* bridge.start() first exchanges a token and asks /me, whose answer syncSelf
\* persists with the config, or does without.  The SDK takes a cached token only
\* for the key it was exchanged for, so syncSelf's comparison with the identity
\* in the config, both of one registration, finds no mismatch.
Hydrate ==
  /\ sess.at = "hydrate"
  /\ \/ sess.key \in member /\ token' = sess.key /\ config' = CopyOf(sess.key)
     \/ UNCHANGED <<token, config>>
  /\ SessStep([sess EXCEPT !.at = "load"])
  /\ UNCHANGED <<session, ledger, marker, first, starts, memory, mismarked, lapses>>

\* Mutant: the start of the inbox is a plain, falsy zero.
InitialCursor_Plain(k) == NoCursor

\* loadSession's cursor for an org without a session.
InitialCursor(k) == IF Pending(first, k) THEN 0 ELSE NoCursor

\* startOrgWs: the session's cursor, lifted by the ledger's watermark.
Load ==
  /\ sess.at = "load"
  /\ LET k == sess.key
         c == IF session # None THEN session.seq ELSE InitialCursor(k)
         lifted == ledger # None /\ ledger.seq > Num(c)
     IN  /\ SessStep([sess EXCEPT !.at = "run",
              !.cursor = IF lifted THEN ledger.seq ELSE c,
              !.from = IF lifted THEN ledger.key ELSE IF session # None THEN session.key ELSE k,
              !.first = k \in {j \in Key \ hadCursor : promised[j] # NoCursor}])
  /\ UNCHANGED <<config, disk, first, starts, memory, mismarked, lapses>>

\* writeApiKeyMarkers, after bridge.start(), or a warning.
WriteMarkers ==
  /\ sess.at = "run" /\ ~sess.marked
  /\ marker' \in {sess.key, marker}
  /\ cut' = (cut \/ marker' # sess.key)
  /\ SessStep([sess EXCEPT !.marked = TRUE])
  /\ UNCHANGED <<config, token, session, ledger, first, starts, memory, mismarked,
                 unretired>>

\* Mutant: the seek ends one past the last event.
InboxEnd_Past(k) == inbox[k] + 1

InboxEnd(k) == inbox[k]

\* The WebSocket opens: without a cursor, seek to the end of the inbox.
Open ==
  /\ sess.at = "run" /\ ~sess.conn /\ sess.key \in member
  /\ SessStep([sess EXCEPT !.conn = TRUE,
       !.cursor = IF @ = NoCursor /\ inbox[sess.key] > 0 THEN InboxEnd(sess.key) ELSE @])
  /\ UNCHANGED <<config, disk, first, starts, memory, mismarked, lapses>>

\* The next message is swept or comes live, and is consumed.
Consume ==
  /\ sess.conn /\ Num(sess.cursor) < inbox[sess.key]
  /\ LET m == Num(sess.cursor) + 1
     IN  /\ got' = [got EXCEPT ![sess.key] = @ \cup {m}]
         /\ SessStep([sess EXCEPT !.cursor = m])
  /\ UNCHANGED <<config, disk, first, starts, hadCursor, mismarked, lapses>>

\* saveSession and the ledger's write, up to cursorSaved's reading of the marker.
Save ==
  /\ sess.conn /\ sess.cursor > 0 /\ sess.note = None
  /\ session' = [key |-> sess.key, seq |-> sess.cursor] /\ ledger' = session'
  /\ hadCursor' = hadCursor \cup {sess.key}
  /\ SessStep([sess EXCEPT !.note = IF Pending(first, sess.key) THEN first ELSE None])
  /\ UNCHANGED <<config, token, marker, first, starts, got, mismarked, lapses>>

\* Mutant: the org does not get into the done list.
Retired_NotDone(m) == m

Retired(m) == [m EXCEPT !.done = TRUE]

\* cursorSaved writes the marker back, with the org in its done list.
Retire ==
  /\ sess.note # None
  /\ first' = Retired(sess.note)
  /\ mismarked' = mismarked \cup {j \in Key \ {sess.key} : Pending(first, j)}
  /\ unretired' = unretired \ {sess.key}
  /\ SessStep([sess EXCEPT !.note = None])
  /\ UNCHANGED <<config, disk, starts, memory, cut>>

\* A failure of that is only logged.
RetireFails ==
  /\ sess.note # None
  /\ unretired' = unretired \cup {sess.key}
  /\ SessStep([sess EXCEPT !.note = None])
  /\ UNCHANGED <<config, disk, first, starts, memory, mismarked, cut>>

SessPersist ==
  /\ sess.at = "run"
  /\ config' = CopyOf(sess.key)
  /\ SessStep(sess)
  /\ UNCHANGED <<disk, first, starts, memory, mismarked, lapses>>

\* The wait for a key times out, or the process exits or is killed.
End ==
  /\ sess.at # "off"
  /\ SessStep(Off)
  /\ unretired' = unretired \cup (IF sess.note # None THEN {sess.key} ELSE {})
  /\ cut' = \/ cut \/ sess.at \in {"rmSession", "rmLedger"}
            \/ sess.at = "run" /\ ~sess.marked /\ marker # sess.key /\ session # None
  /\ UNCHANGED <<config, disk, first, starts, memory, mismarked>>

---------------------------------------------------------------------------
Arrive(k) ==
  /\ k \in member /\ inbox[k] < MaxMessages
  /\ inbox' = [inbox EXCEPT ![k] = @ + 1]
  /\ UNCHANGED <<config, disk, first, issued, member, onb, runs, hook, tools, sess, starts,
                 memory, claims, mismarked, lapses>>

Onboarding == OnboardBegins \/ OnboardWrites \/ Register \/ Accept \/ Finish \/ OnboardDies
Hook == HookReads \/ HookAccepts \/ HookWrites \/ HookDies
Channel ==
  \/ Begin \/ KeyFound \/ Guard \/ Purge \/ Hydrate \/ Load \/ WriteMarkers \/ Open
  \/ Consume \/ Save \/ Retire \/ RetireFails \/ SessPersist \/ End

Next ==
  \/ Onboarding \/ Hook \/ ToolsStart \/ Channel
  \/ \E k \in Key : UseKey(k) \/ ToolsExchange(k) \/ ToolsEnd(k) \/ Arrive(k)

Spec == Init /\ [][Next]_vars

---------------------------------------------------------------------------
\* "we purge that org's cached token/session/inbox BEFORE connecting"
\* (token-guard.js): no session works with a cursor or a watermark of another
\* identity, however keys, sessions and registrations alternate, unless an
\* earlier purge, or a start before its markers, was cut short or left a file.
CursorIsOurs == sess.at = "run" /\ sess.from # sess.key => cut

\* In the first channel session that starts after ONBOARD OK (sess.first), promised
\* messages below the cursor.
PassedOver ==
  {m \in 1 .. Num(sess.cursor) : m > promised[sess.key] /\ m \notin got[sess.key]}

\* "the first channel session catches up messages sent from then on" (onboard.js,
\* of a new registration): what arrives after ONBOARD OK reaches the session.
FirstSessionCatchesUp == sess.first => PassedOver = {}

\* What of it holds: if the run that registered the identity also wrote its marker
\* and nobody replaced that, unless an earlier purge was cut short or left a file, or
\* a start ended before its markers: then the session may go on at a foreign cursor.
MarkedSessionCatchesUp ==
  sess.first /\ sess.key \notin mismarked /\ ~cut => PassedOver = {}

\* "so a later purge of the local session state never replays the whole inbox"
\* (first-sync.js): an identity that had a cursor does not start from 0 again, if its
\* marker was there before its first cursor and was retired since; which it is unless,
\* right after the cursor was saved, the process ended or the marker's write failed.
NoReplay ==
  [][sess.at = "load" /\ sess'.cursor = 0 /\ ~sess'.first
       => sess.key \in mismarked \cup unretired]_vars

\* "reported instead of risking an orphan identity" (auto-register.js): however the
\* attempts of one run fail, the server registers at most one identity for it.
OneIdentityPerRun == \A j, k \in onb.made : j = k

\* The key of an ONBOARD OK stays in the config if no process then held an older
\* copy, whoever starts, waits or accepts meanwhile.
OnboardedKeyStays ==
  onboarded # None /\ ~older => Readable /\ config.key = onboarded
=============================================================================
