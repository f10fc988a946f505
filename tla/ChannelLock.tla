---------------------------- MODULE ChannelLock ----------------------------
(***************************************************************************)
(* The single-instance channel lock of src/src/channel-gate.js: every      *)
(* Claude Code session of one machine starts the plugin, and only the      *)
(* process that holds <dataDir>/channel.lock may open the workspace        *)
(* WebSocket and accept deliveries.                                        *)
(*                                                                         *)
(* The lock is a protocol over three files: the lock itself, the takeover  *)
(* mutex channel.lock.takeover, and a private file (unique name) where a   *)
(* taker moves a lock it judged stale.  One action is one file system call *)
(* on a shared file, with the local computation that follows it; calls on  *)
(* private files are merged into the next shared one.                      *)
(***************************************************************************)
EXTENDS Naturals

CONSTANTS
  Proc,          \* process incarnations: each starts at most once
  PidOf,         \* the pid the OS gives an incarnation; pids are reused
  StartOf,       \* the start time others read for it, Unknown if unreadable
  Unknown,       \* an unreadable start time or boot id (an empty field)
  Nobody,        \* stands for "no such file" of the takeover mutex
  NoPid,         \* what parseLock finds in a file without a pid
  KnowsBoot,     \* does the platform have a boot id (Linux)?
  MaxBoot,       \* bound: how often the machine reboots
  MaxAttempts,   \* acquireChannelLock's loop bound, 3 in the code
  MutexAges      \* may a takeover mutex get older than TAKEOVER_STALE_MS?

Record == [pid : {PidOf[p] : p \in Proc} \cup {NoPid},
           start : {StartOf[p] : p \in Proc} \cup {Unknown},
           boot : (0 .. MaxBoot) \cup {Unknown}]

\* A lock file that names no pid: an older build's, a crash's, a manual touch.
Debris == [pid |-> NoPid, start |-> Unknown, boot |-> Unknown]
NoFile == [pid |-> Unknown, start |-> Unknown, boot |-> Unknown]

ASSUME ConstAssumption ==
  /\ MaxBoot \in Nat /\ MaxAttempts \in Nat \ {0}
  /\ KnowsBoot \in BOOLEAN /\ MutexAges \in BOOLEAN
  /\ Nobody \notin Proc
  /\ NoPid # Unknown /\ Unknown \notin Nat
  /\ \A p \in Proc : PidOf[p] \notin {NoPid, Unknown}

\* What mutual exclusion needs of the platform: a takeover mutex is never
\* taken for debris, that is, no process stops for TAKEOVER_STALE_MS, or dies,
\* between creating and removing it; and start times can be read.
OrderlyTakeovers == ~MutexAges /\ \A p \in Proc : StartOf[p] # Unknown

VARIABLES
  lock,       \* contents of channel.lock, or NoFile
  lockOld,    \* has a pid-less lock reached LOCK_GRACE_MS?
  mutex,      \* who created channel.lock.takeover (its contents are empty)
  mutexOld,   \* has that file reached TAKEOVER_STALE_MS?
  aside,      \* contents of each process's private channel.lock.stale-<uniq>
  boot,       \* the current boot
  bootOf,     \* the boot in which an incarnation started
  pc,         \* where an incarnation stands in acquireChannelLock / release
  attempt,    \* its iteration of the main loop
  observed,   \* the lock contents it read and judged
  mutexTry    \* its iteration of takeMutex's loop

vars == <<lock, lockOld, mutex, mutexOld, aside, boot, bootOf, pc, attempt,
          observed, mutexTry>>

PcStates == {"off", "stranger", "link", "check", "hold", "read", "statLock",
             "judge", "openMutex", "statMutex", "rmMutex", "reread", "rename",
             "moved", "unlockRetry", "unlockBusy", "rmLock", "released",
             "busy", "error", "dead"}

\* Steps taken while the process believes it owns the takeover mutex.
InTakeover == {"reread", "rename", "moved", "unlockRetry", "unlockBusy"}
\* Steps between starting acquireChannelLock and its result.
Acquiring == {"link", "check", "read", "statLock", "judge", "openMutex",
              "statMutex", "rmMutex"} \cup InTakeover

TypeOK ==
  /\ lock \in Record \cup {NoFile}
  /\ lockOld \in BOOLEAN /\ mutexOld \in BOOLEAN
  /\ mutex \in Proc \cup {Nobody}
  /\ aside \in [Proc -> Record \cup {NoFile}]
  /\ boot \in 0 .. MaxBoot
  /\ bootOf \in [Proc -> 0 .. MaxBoot]
  /\ pc \in [Proc -> PcStates]
  /\ attempt \in [Proc -> 0 .. MaxAttempts - 1]
  /\ observed \in [Proc -> Record \cup {NoFile}]
  /\ mutexTry \in [Proc -> 0 .. 1]

Init ==
  /\ lock \in {NoFile, Debris}
  /\ lockOld = FALSE
  /\ mutex = Nobody /\ mutexOld = FALSE
  /\ aside = [p \in Proc |-> NoFile]
  /\ boot = 0 /\ bootOf = [p \in Proc |-> 0]
  /\ pc = [p \in Proc |-> "off"]
  /\ attempt = [p \in Proc |-> 0]
  /\ observed = [p \in Proc |-> NoFile]
  /\ mutexTry = [p \in Proc |-> 0]

---------------------------------------------------------------------------
(* What a process knows of itself and of the others.                       *)

Running(p) == pc[p] \notin {"off", "dead"}

CurrentBootId == IF KnowsBoot THEN boot ELSE Unknown

\* ownRecord: pid, start time and boot id, unreadable ones left empty.
RecordAt(p, b) == [pid |-> PidOf[p], start |-> StartOf[p],
                   boot |-> IF KnowsBoot THEN b ELSE Unknown]
OwnRecord(p) == RecordAt(p, bootOf[p])

PidAlive(pid) == \E q \in Proc : Running(q) /\ PidOf[q] = pid

\* Mutant: a running pid is taken for the process that wrote the record.
HolderIsLive_PidOnly(r) == r.pid # NoPid /\ PidAlive(r.pid)

\* Is the process recorded in r still the one that wrote it?  What cannot be
\* determined never makes a lock stale.
HolderIsLive(r) ==
  /\ r.pid # NoPid
  /\ (r.boot # Unknown /\ CurrentBootId # Unknown) => r.boot = CurrentBootId
  /\ PidAlive(r.pid)
  /\ r.start # Unknown =>
       \E q \in Proc : /\ Running(q) /\ PidOf[q] = r.pid
                       /\ StartOf[q] \in {Unknown, r.start}

\* Mutant: the loop runs once more than it should.
RetryOrGiveUp_OffByOne(p) ==
  /\ attempt[p] < MaxAttempts
  /\ pc' = [pc EXCEPT ![p] = "link"]
  /\ attempt' = [attempt EXCEPT ![p] = @ + 1]

\* A takeover that lost, or a lock that vanished: next attempt, or give up.
RetryOrGiveUp(p) ==
  IF attempt[p] < MaxAttempts - 1
  THEN /\ pc' = [pc EXCEPT ![p] = "link"]
       /\ attempt' = [attempt EXCEPT ![p] = @ + 1]
  ELSE /\ pc' = [pc EXCEPT ![p] = "busy"]
       /\ UNCHANGED attempt

GoTo(p, label) == pc' = [pc EXCEPT ![p] = label] /\ UNCHANGED attempt

---------------------------------------------------------------------------
(* Processes come and go.  The OS never runs two processes with one pid,   *)
(* and a known start time tells two incarnations of a pid apart.           *)

MayStart(p) ==
  /\ pc[p] = "off"
  /\ ~PidAlive(PidOf[p])
  /\ \A q \in Proc : (pc[q] # "off" /\ StartOf[p] # Unknown)
                        => OwnRecord(q) # RecordAt(p, boot)

\* A channel-active session: the record is written to a private file, or not.
Begin(p) ==
  /\ MayStart(p)
  /\ bootOf' = [bootOf EXCEPT ![p] = boot]
  /\ \E label \in {"link", "error"} : GoTo(p, label)
  /\ UNCHANGED <<lock, lockOld, mutex, mutexOld, aside, boot, observed, mutexTry>>

\* Any other process: a session without the channel, or a foreign program.
BeginStranger(p) ==
  /\ MayStart(p)
  /\ bootOf' = [bootOf EXCEPT ![p] = boot]
  /\ GoTo(p, "stranger")
  /\ UNCHANGED <<lock, lockOld, mutex, mutexOld, aside, boot, observed, mutexTry>>

\* A process ends at any point: killed, crashed, or finished.  Its memory goes,
\* its files stay.
Die(p) ==
  /\ Running(p)
  /\ pc' = [pc EXCEPT ![p] = "dead"]
  /\ attempt' = [attempt EXCEPT ![p] = 0]
  /\ observed' = [observed EXCEPT ![p] = NoFile]
  /\ mutexTry' = [mutexTry EXCEPT ![p] = 0]
  /\ UNCHANGED <<lock, lockOld, mutex, mutexOld, aside, boot, bootOf>>

Reboot ==
  /\ boot < MaxBoot
  /\ boot' = boot + 1
  /\ pc' = [p \in Proc |-> IF Running(p) THEN "dead" ELSE pc[p]]
  /\ attempt' = [p \in Proc |-> 0]
  /\ observed' = [p \in Proc |-> NoFile]
  /\ mutexTry' = [p \in Proc |-> 0]
  /\ UNCHANGED <<lock, lockOld, mutex, mutexOld, aside, bootOf>>

\* Five seconds pass since the file was created.
AgeLock ==
  /\ lock = Debris /\ ~lockOld
  /\ lockOld' = TRUE
  /\ UNCHANGED <<lock, mutex, mutexOld, aside, boot, bootOf, pc, attempt,
                 observed, mutexTry>>

AgeMutex ==
  /\ MutexAges /\ mutex # Nobody /\ ~mutexOld
  /\ mutexOld' = TRUE
  /\ UNCHANGED <<lock, lockOld, mutex, aside, boot, bootOf, pc, attempt,
                 observed, mutexTry>>

---------------------------------------------------------------------------
(* acquireChannelLock: the main loop.                                      *)

\* link(tmp, channel.lock): fails if the file exists; any other error is a
\* failed acquisition.
TryLink(p) ==
  /\ pc[p] = "link"
  /\ \/ /\ lock = NoFile
        /\ lock' = OwnRecord(p)
        /\ GoTo(p, "check")
     \/ /\ lock # NoFile
        /\ GoTo(p, "read")
        /\ UNCHANGED lock
     \/ /\ GoTo(p, "error")
        /\ UNCHANGED lock
  /\ UNCHANGED <<lockOld, mutex, mutexOld, aside, boot, bootOf, observed, mutexTry>>

\* The file just linked is read back and must hold our record.
CheckLinked(p) ==
  /\ pc[p] = "check"
  /\ GoTo(p, IF lock = OwnRecord(p) THEN "hold" ELSE "busy")
  /\ UNCHANGED <<lock, lockOld, mutex, mutexOld, aside, boot, bootOf, observed,
                 mutexTry>>

ReadLock(p) ==
  /\ pc[p] = "read"
  /\ observed' = [observed EXCEPT ![p] = lock]
  /\ IF lock = NoFile THEN RetryOrGiveUp(p)
     ELSE GoTo(p, IF lock.pid = NoPid THEN "statLock" ELSE "judge")
  /\ UNCHANGED <<lock, lockOld, mutex, mutexOld, aside, boot, bootOf, mutexTry>>

\* A lock without a pid is left alone until it is LOCK_GRACE_MS old.  The age
\* is that of the file now at the path, which a record may have replaced.
StatLock(p) ==
  /\ pc[p] = "statLock"
  /\ IF lock = NoFile THEN RetryOrGiveUp(p) /\ UNCHANGED mutexTry
     ELSE \E old \in (IF lock = Debris THEN {lockOld} ELSE BOOLEAN) :
            /\ GoTo(p, IF old THEN "openMutex" ELSE "busy")
            /\ mutexTry' = [mutexTry EXCEPT ![p] = 0]
  /\ UNCHANGED <<lock, lockOld, mutex, mutexOld, aside, boot, bootOf, observed>>

\* A record with our own pid is a dead predecessor's.
Judge(p) ==
  /\ pc[p] = "judge"
  /\ IF observed[p].pid # PidOf[p] /\ HolderIsLive(observed[p])
     THEN GoTo(p, "busy")
     ELSE GoTo(p, "openMutex")
  /\ mutexTry' = [mutexTry EXCEPT ![p] = 0]
  /\ UNCHANGED <<lock, lockOld, mutex, mutexOld, aside, boot, bootOf, observed>>

---------------------------------------------------------------------------
(* takeMutex: O_EXCL creation; a mutex older than TAKEOVER_STALE_MS is     *)
(* removed, by name, and creation tried once more.                         *)

\* Mutant: the mutex file is created without O_EXCL.
OpenMutex_NotExclusive(p) ==
  /\ pc[p] = "openMutex"
  /\ mutex' = p /\ mutexOld' = FALSE
  /\ GoTo(p, "reread")
  /\ UNCHANGED <<lock, lockOld, aside, boot, bootOf, observed, mutexTry>>

OpenMutex(p) ==
  /\ pc[p] = "openMutex"
  /\ IF mutex = Nobody
     THEN /\ mutex' = p /\ mutexOld' = FALSE
          /\ GoTo(p, "reread")
     ELSE /\ GoTo(p, "statMutex")
          /\ UNCHANGED <<mutex, mutexOld>>
  /\ UNCHANGED <<lock, lockOld, aside, boot, bootOf, observed, mutexTry>>

NextMutexTry(p) ==
  IF mutexTry[p] = 0
  THEN GoTo(p, "openMutex") /\ mutexTry' = [mutexTry EXCEPT ![p] = 1]
  ELSE GoTo(p, "busy") /\ UNCHANGED mutexTry

\* Mutant: any mutex is taken for debris of a crashed process.
StatMutex_NoAge(p) ==
  /\ pc[p] = "statMutex"
  /\ GoTo(p, "rmMutex")
  /\ UNCHANGED <<lock, lockOld, mutex, mutexOld, aside, boot, bootOf, observed,
                 mutexTry>>

\* Mutant: waits for another process's takeover to end.
StatMutex_Waits(p) ==
  /\ pc[p] = "statMutex"
  /\ IF mutexOld THEN GoTo(p, "rmMutex") ELSE GoTo(p, "openMutex")
  /\ UNCHANGED <<lock, lockOld, mutex, mutexOld, aside, boot, bootOf, observed,
                 mutexTry>>

StatMutex(p) ==
  /\ pc[p] = "statMutex"
  /\ \/ mutex = Nobody /\ NextMutexTry(p)
     \/ mutex # Nobody /\ mutexOld /\ GoTo(p, "rmMutex") /\ UNCHANGED mutexTry
     \/ mutex # Nobody /\ ~mutexOld /\ GoTo(p, "busy") /\ UNCHANGED mutexTry
  /\ UNCHANGED <<lock, lockOld, mutex, mutexOld, aside, boot, bootOf, observed>>

RmMutex(p) ==
  /\ pc[p] = "rmMutex"
  /\ mutex' = Nobody /\ mutexOld' = FALSE
  /\ NextMutexTry(p)
  /\ UNCHANGED <<lock, lockOld, aside, boot, bootOf, observed>>

---------------------------------------------------------------------------
(* takeOver, under the mutex.                                              *)

\* Mutant: the lock is not compared with the record that was judged.
Reread_NoCompare(p) ==
  /\ pc[p] = "reread"
  /\ GoTo(p, "rename")
  /\ UNCHANGED <<lock, lockOld, mutex, mutexOld, aside, boot, bootOf, observed,
                 mutexTry>>

\* The lock must still be exactly what was judged stale.
Reread(p) ==
  /\ pc[p] = "reread"
  /\ GoTo(p, IF lock = observed[p] THEN "rename" ELSE "unlockRetry")
  /\ UNCHANGED <<lock, lockOld, mutex, mutexOld, aside, boot, bootOf, observed,
                 mutexTry>>

Rename(p) ==
  /\ pc[p] = "rename"
  /\ IF lock = NoFile
     THEN GoTo(p, "unlockRetry") /\ UNCHANGED <<lock, aside>>
     ELSE /\ aside' = [aside EXCEPT ![p] = lock]
          /\ lock' = NoFile
          /\ GoTo(p, "moved")
  /\ UNCHANGED <<lockOld, mutex, mutexOld, boot, bootOf, observed, mutexTry>>

\* What was moved is compared again: the stale record is deleted, anything
\* else is linked back, or left aside when a new lock is already in place.
ExamineMoved(p) ==
  /\ pc[p] = "moved"
  /\ IF aside[p] = observed[p]
     THEN /\ aside' = [aside EXCEPT ![p] = NoFile]
          /\ GoTo(p, "unlockRetry")
          /\ UNCHANGED lock
     ELSE /\ IF lock = NoFile
             THEN lock' = aside[p] /\ aside' = [aside EXCEPT ![p] = NoFile]
             ELSE UNCHANGED <<lock, aside>>
          /\ GoTo(p, "unlockBusy")
  /\ UNCHANGED <<lockOld, mutex, mutexOld, boot, bootOf, observed, mutexTry>>

\* finally: the mutex file is removed, whoever created it.
Unlock(p) ==
  /\ mutex' = Nobody /\ mutexOld' = FALSE
  /\ \/ pc[p] = "unlockRetry" /\ RetryOrGiveUp(p)
     \/ pc[p] = "unlockBusy" /\ GoTo(p, "busy")
  /\ UNCHANGED <<lock, lockOld, aside, boot, bootOf, observed, mutexTry>>

---------------------------------------------------------------------------
(* release(): the file is read, then removed by name if it held our record.*)

ReleaseRead(p) ==
  /\ pc[p] = "hold"
  /\ GoTo(p, IF lock = OwnRecord(p) THEN "rmLock" ELSE "released")
  /\ UNCHANGED <<lock, lockOld, mutex, mutexOld, aside, boot, bootOf, observed,
                 mutexTry>>

ReleaseRm(p) ==
  /\ pc[p] = "rmLock"
  /\ lock' = NoFile
  /\ GoTo(p, "released")
  /\ UNCHANGED <<lockOld, mutex, mutexOld, aside, boot, bootOf, observed, mutexTry>>

---------------------------------------------------------------------------
AcquireStep(p) ==
  \/ TryLink(p) \/ CheckLinked(p) \/ ReadLock(p) \/ StatLock(p) \/ Judge(p)
  \/ OpenMutex(p) \/ StatMutex(p) \/ RmMutex(p)
  \/ Reread(p) \/ Rename(p) \/ ExamineMoved(p) \/ Unlock(p)

ReleaseStep(p) == ReleaseRead(p) \/ ReleaseRm(p)

Next ==
  \/ \E p \in Proc : \/ AcquireStep(p) \/ ReleaseStep(p)
                     \/ Begin(p) \/ BeginStranger(p) \/ Die(p)
  \/ Reboot \/ AgeLock \/ AgeMutex

Spec == Init /\ [][Next]_vars

\* acquireChannelLock is one synchronous call: once started it runs on unless
\* the process dies.  Releasing, dying and rebooting are never required.
FairSpec == Spec /\ \A p \in Proc : WF_vars(AcquireStep(p))
---------------------------------------------------------------------------
(* decideChannelRole: the lock is what opens the WebSocket and enables     *)
(* deliveries; shutdown closes both before it releases.                    *)
DeliveryEnabled(p) == pc[p] = "hold"

\* "Only by ONE process at a time" (channel-gate.js, header comment): no two
\* live processes both came out of acquireChannelLock with the lock.
MutualExclusion ==
  \A p, q \in Proc : DeliveryEnabled(p) /\ DeliveryEnabled(q) => p = q

\* A lock that names a live process is one that process holds, has just linked
\* or is about to remove.  Were it the lock of a live session that had reported
\* busy, every later session would be turned away by a holder that delivers
\* nothing, until that session ends.
NoAbandonedLiveLock ==
  \A p \in Proc : Running(p) /\ lock = OwnRecord(p)
                    => pc[p] \in {"check", "hold", "rmLock"}

\* Takeover and release race on a path, not on a file: a lock that names a live
\* process is never moved, replaced or deleted by anybody but that process,
\* not even to be put back later (takeOver's promise not to delete a lock it
\* did not judge stale, release's not to delete a successor's).
LiveLockUntouched ==
  [][\A p \in Proc : Running(p) /\ lock = OwnRecord(p) /\ lock' # lock
                       => pc[p] = "rmLock" /\ pc'[p] = "released"]_vars

\* Every call of acquireChannelLock comes to a result: no interleaving with
\* other takers or with files left by crashes makes it spin.
AcquireEnds == \A p \in Proc : pc[p] \in Acquiring ~> pc[p] \notin Acquiring

\* No state a crash leaves behind locks the agent out: a process that enters
\* its first attempt when no other session is running, and finds no young
\* debris, comes out with the lock (or dies, or meets an I/O error).  The dead
\* holder's pid may by then belong to a foreign process.
Unopposed(p) == \A q \in Proc \ {p} : pc[q] \in {"off", "dead", "stranger"}
Unobstructed(p) ==
  /\ pc[p] = "link" /\ attempt[p] = 0
  /\ mutex # Nobody => mutexOld
  /\ lock = Debris => lockOld
LoneAcquirerSucceeds ==
  \A p \in Proc :
    [](Unobstructed(p) /\ []Unopposed(p)
         => <>(pc[p] \in {"hold", "error", "dead"}))
============================================================================
