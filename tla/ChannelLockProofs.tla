------------------------- MODULE ChannelLockProofs -------------------------
(***************************************************************************)
(* Proofs about ChannelLock: its types for every value of the constants,   *)
(* and, when takeovers are orderly, mutual exclusion, the absence of       *)
(* abandoned live locks, and that nobody touches another's live lock.      *)
(*                                                                         *)
(* The argument: a record judged stale belongs to no running process, and  *)
(* none will ever write it again (ObservedStale); under the mutex the file *)
(* at the path is that record until it is moved (RenameMatches); so a lock *)
(* that names a running process is only linked and removed by that process,*)
(* and whoever is past the link still has it (HolderHasLock).              *)
(***************************************************************************)
EXTENDS ChannelLock, TLAPS

\* One running process per pid.
DistinctPids ==
  \A p, q \in Proc : Running(p) /\ Running(q) /\ PidOf[p] = PidOf[q] => p = q

\* One incarnation per record.
DistinctRecords ==
  \A p, q \in Proc : pc[p] # "off" /\ pc[q] # "off" /\ OwnRecord(p) = OwnRecord(q)
                       => p = q

RunningInBoot == \A p \in Proc : Running(p) => bootOf[p] = boot

\* The mutex excludes, because nobody removes another's.
MutexOwned ==
  /\ mutexOld = FALSE
  /\ \A p \in Proc : /\ pc[p] \in InTakeover => mutex = p
                     /\ pc[p] # "rmMutex"

\* Whatever is read in a lock file was written by an incarnation that started.
Written(r) ==
  r \in {NoFile, Debris} \/ \E q \in Proc : pc[q] # "off" /\ r = OwnRecord(q)
FilesWritten == Written(lock) /\ \A p \in Proc : Written(observed[p])

\* Past the link, the lock is in place and ours.
HolderHasLock ==
  \A p \in Proc : pc[p] \in {"check", "hold", "rmLock"} => lock = OwnRecord(p)

ObservedNotOwn ==
  \A p \in Proc : pc[p] \in {"statLock", "judge"} =>
    /\ observed[p] \notin {NoFile, OwnRecord(p)}
    /\ pc[p] = "statLock" => observed[p].pid = NoPid

\* From the judgement to the end of the takeover, the judged record stays
\* stale: it is the record of no running process.
ObservedStale ==
  \A p \in Proc : pc[p] \in {"openMutex", "statMutex"} \cup InTakeover =>
    /\ observed[p] # NoFile
    /\ \A q \in Proc : Running(q) => observed[p] # OwnRecord(q)

RenameMatches ==
  \A p \in Proc : /\ pc[p] = "rename" => lock = observed[p]
                  /\ pc[p] = "moved" => aside[p] = observed[p]

IInv ==
  /\ TypeOK
  /\ DistinctPids /\ DistinctRecords /\ RunningInBoot
  /\ MutexOwned /\ FilesWritten
  /\ HolderHasLock /\ NoAbandonedLiveLock
  /\ ObservedNotOwn /\ ObservedStale /\ RenameMatches

---------------------------------------------------------------------------

(* Types.  They hold whatever OrderlyTakeovers says.                       *)

LEMMA RetryTyped ==
  ASSUME TypeOK, NEW p \in Proc, RetryOrGiveUp(p)
  PROVE  pc' \in [Proc -> PcStates] /\ attempt' \in [Proc -> 0 .. MaxAttempts - 1]
<1>1. attempt[p] < MaxAttempts - 1 => attempt[p] + 1 \in 0 .. MaxAttempts - 1
  BY ConstAssumption DEF TypeOK
<1> QED BY <1>1 DEF TypeOK, PcStates, RetryOrGiveUp

LEMMA NextMutexTryTyped ==
  ASSUME TypeOK, NEW p \in Proc, NextMutexTry(p)
  PROVE  /\ pc' \in [Proc -> PcStates] /\ attempt' = attempt
         /\ mutexTry' \in [Proc -> 0 .. 1]
BY DEF TypeOK, PcStates, NextMutexTry, GoTo

LEMMA TypePreserved == ASSUME TypeOK, [Next]_vars PROVE TypeOK'
<1> USE ConstAssumption
<1>1. ASSUME NEW p \in Proc, Begin(p) PROVE TypeOK'
  BY <1>1 DEF Begin, GoTo, TypeOK, PcStates
<1>2. ASSUME NEW p \in Proc, BeginStranger(p) PROVE TypeOK'
  BY <1>2 DEF BeginStranger, GoTo, TypeOK, PcStates
<1>3. ASSUME NEW p \in Proc, Die(p) PROVE TypeOK'
  BY <1>3 DEF Die, TypeOK, PcStates
<1>4. CASE Reboot
  BY <1>4 DEF Reboot, TypeOK, PcStates
<1>5. CASE AgeLock
  BY <1>5 DEF AgeLock, TypeOK
<1>6. CASE AgeMutex
  BY <1>6 DEF AgeMutex, TypeOK
<1>7. ASSUME NEW p \in Proc, TryLink(p) PROVE TypeOK'
  BY <1>7 DEF TryLink, GoTo, TypeOK, PcStates, Record, OwnRecord, RecordAt
<1>8. ASSUME NEW p \in Proc, CheckLinked(p) PROVE TypeOK'
  BY <1>8 DEF CheckLinked, GoTo, TypeOK, PcStates
<1>9. ASSUME NEW p \in Proc, ReadLock(p) PROVE TypeOK'
  BY <1>9, RetryTyped DEF TypeOK, PcStates, ReadLock, GoTo
<1>10. ASSUME NEW p \in Proc, StatLock(p) PROVE TypeOK'
  BY <1>10, RetryTyped DEF TypeOK, PcStates, StatLock, GoTo
<1>11. ASSUME NEW p \in Proc, Judge(p) PROVE TypeOK'
  BY <1>11 DEF Judge, GoTo, TypeOK, PcStates
<1>12. ASSUME NEW p \in Proc, OpenMutex(p) PROVE TypeOK'
  BY <1>12 DEF OpenMutex, GoTo, TypeOK, PcStates
<1>13. ASSUME NEW p \in Proc, StatMutex(p) PROVE TypeOK'
  BY <1>13, NextMutexTryTyped DEF TypeOK, PcStates, StatMutex, GoTo
<1>14. ASSUME NEW p \in Proc, RmMutex(p) PROVE TypeOK'
  BY <1>14, NextMutexTryTyped DEF TypeOK, PcStates, RmMutex, GoTo
<1>15. ASSUME NEW p \in Proc, Reread(p) PROVE TypeOK'
  BY <1>15 DEF Reread, GoTo, TypeOK, PcStates
<1>16. ASSUME NEW p \in Proc, Rename(p) PROVE TypeOK'
  BY <1>16 DEF Rename, GoTo, TypeOK, PcStates
<1>17. ASSUME NEW p \in Proc, ExamineMoved(p) PROVE TypeOK'
  BY <1>17 DEF ExamineMoved, GoTo, TypeOK, PcStates
<1>18. ASSUME NEW p \in Proc, Unlock(p) PROVE TypeOK'
  BY <1>18, RetryTyped DEF TypeOK, PcStates, Unlock, GoTo
<1>19. ASSUME NEW p \in Proc, ReleaseRead(p) PROVE TypeOK'
  BY <1>19 DEF ReleaseRead, GoTo, TypeOK, PcStates
<1>20. ASSUME NEW p \in Proc, ReleaseRm(p) PROVE TypeOK'
  BY <1>20 DEF ReleaseRm, GoTo, TypeOK, PcStates
<1>21. CASE UNCHANGED vars
  BY <1>21 DEF vars, TypeOK
<1> QED
  BY <1>1, <1>2, <1>3, <1>4, <1>5, <1>6, <1>7, <1>8, <1>9, <1>10, <1>11, <1>12, <1>13, <1>14, <1>15, <1>16, <1>17, <1>18, <1>19, <1>20, <1>21
     DEF Next, AcquireStep, ReleaseStep

(***************************************************************************)
(* Each action preserves IInv.                                             *)
(***************************************************************************)

\* A new process takes a pid no running process has, and a record nobody ever wrote.
LEMMA BeginPreserves ==
  ASSUME OrderlyTakeovers, IInv, NEW p \in Proc, Begin(p), TypeOK'
  PROVE  IInv'
<1> USE ConstAssumption DEF OrderlyTakeovers, IInv
<1>1. DistinctPids'
  BY DEF Begin, GoTo, DistinctPids, Running, PidAlive, MayStart
<1>2. DistinctRecords'
  BY DEF Begin, GoTo, TypeOK, DistinctRecords, OwnRecord, MayStart
<1>3. RunningInBoot'
  BY DEF Begin, GoTo, TypeOK, RunningInBoot, Running
<1>4. MutexOwned'
  BY DEF Begin, GoTo, MutexOwned, InTakeover
<1>5. FilesWritten'
  BY DEF Begin, GoTo, FilesWritten, Written, OwnRecord, MayStart
<1>6. HolderHasLock'
  BY DEF Begin, GoTo, TypeOK, HolderHasLock, OwnRecord
<1>7. NoAbandonedLiveLock'
  <2> SUFFICES ASSUME NEW q \in Proc, Running(q)', lock = OwnRecord(q)'
               PROVE  pc'[q] \in {"check", "hold", "rmLock"}
    BY DEF NoAbandonedLiveLock, Begin
  <2>1. CASE q = p
    <3>1. OwnRecord(q)' = RecordAt(p, boot) /\ pc[p] = "off"
      BY <2>1 DEF Begin, MayStart, GoTo, TypeOK, OwnRecord, RecordAt
    <3>2. lock \notin {NoFile, Debris}
      BY <3>1 DEF RecordAt, NoFile, Debris
    <3>3. PICK w \in Proc : pc[w] # "off" /\ lock = OwnRecord(w)
      BY <3>2 DEF FilesWritten, Written
    <3> QED BY <3>1, <3>3 DEF Begin, MayStart
  <2>2. CASE q # p
    BY <2>2 DEF Begin, GoTo, TypeOK, NoAbandonedLiveLock, Running, OwnRecord, RecordAt
  <2> QED BY <2>1, <2>2
<1>8. ObservedNotOwn'
  BY DEF Begin, GoTo, TypeOK, ObservedNotOwn, OwnRecord
<1>9. ObservedStale'
  BY DEF Begin, GoTo, TypeOK, PcStates, ObservedStale, ObservedNotOwn,
         FilesWritten, Written, DistinctPids, RunningInBoot, InTakeover,
         OwnRecord, RecordAt, Debris, Running, MayStart
<1>10. RenameMatches'
  BY DEF Begin, GoTo, RenameMatches
<1> QED BY <1>1, <1>2, <1>3, <1>4, <1>5, <1>6, <1>7, <1>8, <1>9, <1>10

\* So does a process that will never ask for the lock.
LEMMA BeginStrangerPreserves ==
  ASSUME OrderlyTakeovers, IInv, NEW p \in Proc, BeginStranger(p), TypeOK'
  PROVE  IInv'
<1> USE ConstAssumption DEF OrderlyTakeovers, IInv
<1>1. DistinctPids'
  BY DEF BeginStranger, GoTo, DistinctPids, Running, PidAlive, MayStart
<1>2. DistinctRecords'
  BY DEF BeginStranger, GoTo, TypeOK, DistinctRecords, OwnRecord, MayStart
<1>3. RunningInBoot'
  BY DEF BeginStranger, GoTo, TypeOK, RunningInBoot, Running
<1>4. MutexOwned'
  BY DEF BeginStranger, GoTo, MutexOwned, InTakeover
<1>5. FilesWritten'
  BY DEF BeginStranger, GoTo, FilesWritten, Written, OwnRecord, MayStart
<1>6. HolderHasLock'
  BY DEF BeginStranger, GoTo, TypeOK, HolderHasLock, OwnRecord
<1>7. NoAbandonedLiveLock'
  <2> SUFFICES ASSUME NEW q \in Proc, Running(q)', lock = OwnRecord(q)'
               PROVE  pc'[q] \in {"check", "hold", "rmLock"}
    BY DEF NoAbandonedLiveLock, BeginStranger
  <2>1. CASE q = p
    <3>1. OwnRecord(q)' = RecordAt(p, boot) /\ pc[p] = "off"
      BY <2>1 DEF BeginStranger, MayStart, GoTo, TypeOK, OwnRecord, RecordAt
    <3>2. lock \notin {NoFile, Debris}
      BY <3>1 DEF RecordAt, NoFile, Debris
    <3>3. PICK w \in Proc : pc[w] # "off" /\ lock = OwnRecord(w)
      BY <3>2 DEF FilesWritten, Written
    <3> QED BY <3>1, <3>3 DEF BeginStranger, MayStart
  <2>2. CASE q # p
    BY <2>2 DEF BeginStranger, GoTo, TypeOK, NoAbandonedLiveLock, Running, OwnRecord, RecordAt
  <2> QED BY <2>1, <2>2
<1>8. ObservedNotOwn'
  BY DEF BeginStranger, GoTo, TypeOK, ObservedNotOwn, OwnRecord
<1>9. ObservedStale'
  BY DEF BeginStranger, GoTo, TypeOK, PcStates, ObservedStale,
         ObservedNotOwn, FilesWritten, Written, DistinctPids, InTakeover,
         OwnRecord, RecordAt, Debris, Running, MayStart
<1>10. RenameMatches'
  BY DEF BeginStranger, GoTo, TypeOK, RenameMatches
<1> QED BY <1>1, <1>2, <1>3, <1>4, <1>5, <1>6, <1>7, <1>8, <1>9, <1>10

\* A death leaves files alone and only shrinks the set of running processes.
LEMMA DiePreserves ==
  ASSUME OrderlyTakeovers, IInv, NEW p \in Proc, Die(p), TypeOK'
  PROVE  IInv'
<1> USE ConstAssumption DEF IInv
<1>1. DistinctPids'
  BY DEF Die, DistinctPids, Running
<1>2. DistinctRecords'
  BY DEF Die, DistinctRecords, Running, OwnRecord
<1>3. RunningInBoot'
  BY DEF Die, RunningInBoot, Running
<1>4. MutexOwned'
  BY DEF Die, MutexOwned, InTakeover
<1>5. FilesWritten'
  <2>1. Written(lock)' /\ \A q \in Proc : Written(observed[q])'
    <3>1. \A r : Written(r) => Written(r)'
      BY DEF Die, Running, TypeOK, Written, OwnRecord, RecordAt
    <3>2. \A q \in Proc : observed'[q] \in {observed[q], NoFile}
      BY DEF Die, TypeOK
    <3> QED BY <3>1, <3>2 DEF FilesWritten, Written, Die
  <2> QED BY <2>1 DEF FilesWritten
<1>6. HolderHasLock'
  BY DEF Die, HolderHasLock, OwnRecord
<1>7. NoAbandonedLiveLock'
  BY DEF Die, TypeOK, PcStates, NoAbandonedLiveLock, DistinctPids,
         DistinctRecords, OwnRecord, Running
<1>8. ObservedNotOwn'
  BY DEF Die, TypeOK, ObservedNotOwn, OwnRecord
<1>9. ObservedStale'
  BY DEF Die, TypeOK, PcStates, ObservedStale, ObservedNotOwn, FilesWritten,
         Written, DistinctPids, InTakeover, OwnRecord, Running
<1>10. RenameMatches'
  BY DEF Die, TypeOK, RenameMatches
<1> QED BY <1>1, <1>2, <1>3, <1>4, <1>5, <1>6, <1>7, <1>8, <1>9, <1>10

\* After a reboot nothing runs.
LEMMA RebootPreserves ==
  ASSUME OrderlyTakeovers, IInv, Reboot, TypeOK'
  PROVE  IInv'
<1> USE ConstAssumption DEF IInv
<1>1. DistinctPids'
  BY DEF Reboot, DistinctPids, Running
<1>2. DistinctRecords'
  BY DEF Reboot, DistinctRecords, Running, OwnRecord
<1>3. RunningInBoot'
  BY DEF Reboot, RunningInBoot, Running
<1>4. MutexOwned'
  BY DEF Reboot, MutexOwned, InTakeover
<1>5. FilesWritten'
  BY DEF Reboot, FilesWritten, Written, OwnRecord
<1>6. HolderHasLock'
  BY DEF Reboot, HolderHasLock, OwnRecord
<1>7. NoAbandonedLiveLock'
  BY DEF Reboot, TypeOK, PcStates, NoAbandonedLiveLock, DistinctPids,
         DistinctRecords, Running
<1>8. ObservedNotOwn'
  BY DEF Reboot, ObservedNotOwn, Running
<1>9. ObservedStale'
  BY DEF Reboot, TypeOK, PcStates, ObservedStale, ObservedNotOwn,
         FilesWritten, Written, DistinctPids, InTakeover, Running
<1>10. RenameMatches'
  BY DEF Reboot, TypeOK, RenameMatches, Running
<1> QED BY <1>1, <1>2, <1>3, <1>4, <1>5, <1>6, <1>7, <1>8, <1>9, <1>10

LEMMA AgeLockPreserves ==
  ASSUME OrderlyTakeovers, IInv, AgeLock, TypeOK'
  PROVE  IInv'
<1> USE ConstAssumption DEF IInv
<1>1. DistinctPids'
  BY DEF AgeLock, DistinctPids, Running
<1>2. DistinctRecords'
  BY DEF AgeLock, DistinctRecords, OwnRecord
<1>3. RunningInBoot'
  BY DEF AgeLock, RunningInBoot, Running
<1>4. MutexOwned'
  BY DEF AgeLock, MutexOwned
<1>5. FilesWritten'
  BY DEF AgeLock, FilesWritten, Written, OwnRecord
<1>6. HolderHasLock'
  BY DEF AgeLock, HolderHasLock, OwnRecord
<1>7. NoAbandonedLiveLock'
  BY DEF AgeLock, TypeOK, PcStates, NoAbandonedLiveLock, DistinctPids,
         DistinctRecords, OwnRecord, RecordAt, Debris
<1>8. ObservedNotOwn'
  BY DEF AgeLock, ObservedNotOwn, OwnRecord
<1>9. ObservedStale'
  BY DEF AgeLock, TypeOK, PcStates, ObservedStale, ObservedNotOwn,
         FilesWritten, Written, DistinctPids, OwnRecord, Running
<1>10. RenameMatches'
  BY DEF AgeLock, RenameMatches
<1> QED BY <1>1, <1>2, <1>3, <1>4, <1>5, <1>6, <1>7, <1>8, <1>9, <1>10

\* Excluded by OrderlyTakeovers.
LEMMA AgeMutexPreserves ==
  ASSUME OrderlyTakeovers, IInv, AgeMutex, TypeOK'
  PROVE  IInv'
BY DEF AgeMutex, OrderlyTakeovers

\* The lock changes only from NoFile, so no holder loses it.
LEMMA TryLinkPreserves ==
  ASSUME OrderlyTakeovers, IInv, NEW p \in Proc, TryLink(p), TypeOK'
  PROVE  IInv'
<1> USE ConstAssumption DEF IInv
<1>1. DistinctPids'
  BY DEF TryLink, GoTo, TypeOK, DistinctPids, Running
<1>2. DistinctRecords'
  BY DEF TryLink, GoTo, TypeOK, DistinctRecords, OwnRecord
<1>3. RunningInBoot'
  BY DEF TryLink, GoTo, TypeOK, RunningInBoot, Running
<1>4. MutexOwned'
  BY DEF TryLink, GoTo, TypeOK, MutexOwned, InTakeover
<1>5. FilesWritten'
  BY DEF TryLink, GoTo, TypeOK, FilesWritten, Written, OwnRecord
<1>6. HolderHasLock'
  BY DEF TryLink, GoTo, TypeOK, HolderHasLock, OwnRecord, RecordAt, NoFile
<1>7. NoAbandonedLiveLock'
  BY DEF TryLink, GoTo, TypeOK, PcStates, NoAbandonedLiveLock, DistinctPids,
         DistinctRecords, OwnRecord, Running
<1>8. ObservedNotOwn'
  BY DEF TryLink, GoTo, TypeOK, ObservedNotOwn, OwnRecord
<1>9. ObservedStale'
  BY DEF TryLink, GoTo, TypeOK, PcStates, ObservedStale, ObservedNotOwn,
         FilesWritten, Written, DistinctPids, InTakeover, OwnRecord, Running
<1>10. RenameMatches'
  BY DEF TryLink, GoTo, TypeOK, RenameMatches, InTakeover, ObservedStale
<1> QED BY <1>1, <1>2, <1>3, <1>4, <1>5, <1>6, <1>7, <1>8, <1>9, <1>10

LEMMA CheckLinkedPreserves ==
  ASSUME OrderlyTakeovers, IInv, NEW p \in Proc, CheckLinked(p), TypeOK'
  PROVE  IInv'
<1> USE ConstAssumption DEF IInv
<1>1. DistinctPids'
  BY DEF CheckLinked, GoTo, DistinctPids, Running
<1>2. DistinctRecords'
  BY DEF CheckLinked, GoTo, DistinctRecords, OwnRecord
<1>3. RunningInBoot'
  BY DEF CheckLinked, GoTo, RunningInBoot, Running
<1>4. MutexOwned'
  BY DEF CheckLinked, GoTo, MutexOwned, InTakeover
<1>5. FilesWritten'
  BY DEF CheckLinked, GoTo, FilesWritten, Written, OwnRecord
<1>6. HolderHasLock'
  BY DEF CheckLinked, GoTo, TypeOK, HolderHasLock, OwnRecord
<1>7. NoAbandonedLiveLock'
  BY DEF CheckLinked, GoTo, TypeOK, PcStates, NoAbandonedLiveLock,
         DistinctPids, DistinctRecords, OwnRecord, Running
<1>8. ObservedNotOwn'
  BY DEF CheckLinked, GoTo, ObservedNotOwn, OwnRecord
<1>9. ObservedStale'
  BY DEF CheckLinked, GoTo, TypeOK, PcStates, ObservedStale, ObservedNotOwn,
         FilesWritten, Written, DistinctPids, InTakeover, OwnRecord, Running
<1>10. RenameMatches'
  BY DEF CheckLinked, GoTo, TypeOK, RenameMatches
<1> QED BY <1>1, <1>2, <1>3, <1>4, <1>5, <1>6, <1>7, <1>8, <1>9, <1>10

\* What is read was written by somebody, and not by the reader.
LEMMA ReadLockPreserves ==
  ASSUME OrderlyTakeovers, IInv, NEW p \in Proc, ReadLock(p), TypeOK'
  PROVE  IInv'
<1> USE ConstAssumption DEF IInv
<1>1. DistinctPids'
  BY DEF ReadLock, GoTo, RetryOrGiveUp, TypeOK, DistinctPids, Running
<1>2. DistinctRecords'
  BY DEF ReadLock, GoTo, RetryOrGiveUp, TypeOK, DistinctRecords, OwnRecord
<1>3. RunningInBoot'
  BY DEF ReadLock, GoTo, RetryOrGiveUp, TypeOK, RunningInBoot, Running
<1>4. MutexOwned'
  BY DEF ReadLock, GoTo, RetryOrGiveUp, TypeOK, MutexOwned, InTakeover
<1>5. FilesWritten'
  <2>1. Written(lock)' /\ \A q \in Proc : Written(observed[q])'
    <3>1. \A r : Written(r) => Written(r)'
      BY DEF ReadLock, GoTo, RetryOrGiveUp, TypeOK, Written, OwnRecord, RecordAt
    <3>2. \A q \in Proc : observed'[q] \in {observed[q], lock}
      BY DEF ReadLock, TypeOK
    <3> QED BY <3>1, <3>2 DEF FilesWritten, ReadLock
  <2> QED BY <2>1 DEF FilesWritten
<1>6. HolderHasLock'
  BY DEF ReadLock, GoTo, RetryOrGiveUp, TypeOK, HolderHasLock, OwnRecord
<1>7. NoAbandonedLiveLock'
  BY DEF ReadLock, GoTo, RetryOrGiveUp, TypeOK, PcStates,
         NoAbandonedLiveLock, DistinctPids, DistinctRecords, OwnRecord,
         Running
<1>8. ObservedNotOwn'
  BY DEF ReadLock, GoTo, RetryOrGiveUp, TypeOK, ObservedNotOwn,
         NoAbandonedLiveLock, OwnRecord, Running
<1>9. ObservedStale'
  BY DEF ReadLock, GoTo, RetryOrGiveUp, TypeOK, PcStates, ObservedStale,
         ObservedNotOwn, FilesWritten, Written, DistinctPids, InTakeover,
         OwnRecord, Running
<1>10. RenameMatches'
  BY DEF ReadLock, GoTo, RetryOrGiveUp, TypeOK, RenameMatches
<1> QED BY <1>1, <1>2, <1>3, <1>4, <1>5, <1>6, <1>7, <1>8, <1>9, <1>10

\* A file without a pid is nobody's record.
LEMMA StatLockPreserves ==
  ASSUME OrderlyTakeovers, IInv, NEW p \in Proc, StatLock(p), TypeOK'
  PROVE  IInv'
<1> USE ConstAssumption DEF IInv
<1>1. DistinctPids'
  BY DEF StatLock, GoTo, RetryOrGiveUp, TypeOK, DistinctPids, Running
<1>2. DistinctRecords'
  BY DEF StatLock, GoTo, RetryOrGiveUp, TypeOK, DistinctRecords, OwnRecord
<1>3. RunningInBoot'
  BY DEF StatLock, GoTo, RetryOrGiveUp, TypeOK, RunningInBoot, Running
<1>4. MutexOwned'
  BY DEF StatLock, GoTo, RetryOrGiveUp, TypeOK, MutexOwned, InTakeover
<1>5. FilesWritten'
  BY DEF StatLock, GoTo, RetryOrGiveUp, TypeOK, FilesWritten, Written,
         OwnRecord
<1>6. HolderHasLock'
  BY DEF StatLock, GoTo, RetryOrGiveUp, TypeOK, HolderHasLock, OwnRecord
<1>7. NoAbandonedLiveLock'
  BY DEF StatLock, GoTo, RetryOrGiveUp, TypeOK, PcStates,
         NoAbandonedLiveLock, DistinctPids, DistinctRecords, OwnRecord,
         Running
<1>8. ObservedNotOwn'
  BY DEF StatLock, GoTo, RetryOrGiveUp, TypeOK, ObservedNotOwn, OwnRecord
<1>9. ObservedStale'
  BY DEF StatLock, GoTo, RetryOrGiveUp, TypeOK, PcStates, ObservedStale,
         ObservedNotOwn, FilesWritten, Written, DistinctPids, OwnRecord,
         RecordAt, Running
<1>10. RenameMatches'
  BY DEF StatLock, GoTo, RetryOrGiveUp, TypeOK, RenameMatches
<1> QED BY <1>1, <1>2, <1>3, <1>4, <1>5, <1>6, <1>7, <1>8, <1>9, <1>10

\* A record judged stale is no running process's: its writer would have the pid, the boot id and the start time it names.
LEMMA JudgePreserves ==
  ASSUME OrderlyTakeovers, IInv, NEW p \in Proc, Judge(p), TypeOK'
  PROVE  IInv'
<1> USE ConstAssumption DEF IInv
<1>1. DistinctPids'
  BY DEF Judge, GoTo, TypeOK, DistinctPids, Running
<1>2. DistinctRecords'
  BY DEF Judge, GoTo, TypeOK, DistinctRecords, OwnRecord
<1>3. RunningInBoot'
  BY DEF Judge, GoTo, TypeOK, RunningInBoot, Running
<1>4. MutexOwned'
  BY DEF Judge, GoTo, TypeOK, MutexOwned, InTakeover
<1>5. FilesWritten'
  BY DEF Judge, GoTo, TypeOK, FilesWritten, Written, OwnRecord
<1>6. HolderHasLock'
  BY DEF Judge, GoTo, TypeOK, HolderHasLock, OwnRecord
<1>7. NoAbandonedLiveLock'
  BY DEF Judge, GoTo, TypeOK, PcStates, NoAbandonedLiveLock, DistinctPids,
         DistinctRecords, OwnRecord, Running
<1>8. ObservedNotOwn'
  BY DEF Judge, GoTo, TypeOK, ObservedNotOwn, OwnRecord
<1>9. ObservedStale'
  BY DEF Judge, GoTo, TypeOK, PcStates, ObservedStale, ObservedNotOwn,
         FilesWritten, Written, DistinctPids, RunningInBoot, HolderIsLive,
         PidAlive, CurrentBootId, InTakeover, OwnRecord, RecordAt, Running
<1>10. RenameMatches'
  BY DEF Judge, GoTo, TypeOK, RenameMatches
<1> QED BY <1>1, <1>2, <1>3, <1>4, <1>5, <1>6, <1>7, <1>8, <1>9, <1>10

LEMMA OpenMutexPreserves ==
  ASSUME OrderlyTakeovers, IInv, NEW p \in Proc, OpenMutex(p), TypeOK'
  PROVE  IInv'
<1> USE ConstAssumption DEF IInv
<1>1. DistinctPids'
  BY DEF OpenMutex, GoTo, TypeOK, DistinctPids, Running
<1>2. DistinctRecords'
  BY DEF OpenMutex, GoTo, TypeOK, DistinctRecords, OwnRecord
<1>3. RunningInBoot'
  BY DEF OpenMutex, GoTo, TypeOK, RunningInBoot, Running
<1>4. MutexOwned'
  BY DEF OpenMutex, GoTo, TypeOK, MutexOwned, InTakeover
<1>5. FilesWritten'
  BY DEF OpenMutex, GoTo, TypeOK, FilesWritten, Written, OwnRecord
<1>6. HolderHasLock'
  BY DEF OpenMutex, GoTo, TypeOK, HolderHasLock, OwnRecord
<1>7. NoAbandonedLiveLock'
  BY DEF OpenMutex, GoTo, TypeOK, PcStates, NoAbandonedLiveLock,
         DistinctPids, DistinctRecords, OwnRecord, Running
<1>8. ObservedNotOwn'
  BY DEF OpenMutex, GoTo, TypeOK, ObservedNotOwn, OwnRecord
<1>9. ObservedStale'
  BY DEF OpenMutex, GoTo, TypeOK, PcStates, ObservedStale, ObservedNotOwn,
         FilesWritten, Written, DistinctPids, RunningInBoot, OwnRecord,
         Running
<1>10. RenameMatches'
  BY DEF OpenMutex, GoTo, TypeOK, RenameMatches
<1> QED BY <1>1, <1>2, <1>3, <1>4, <1>5, <1>6, <1>7, <1>8, <1>9, <1>10

LEMMA StatMutexPreserves ==
  ASSUME OrderlyTakeovers, IInv, NEW p \in Proc, StatMutex(p), TypeOK'
  PROVE  IInv'
<1> USE ConstAssumption DEF IInv
<1>1. DistinctPids'
  BY DEF StatMutex, GoTo, NextMutexTry, TypeOK, DistinctPids, Running
<1>2. DistinctRecords'
  BY DEF StatMutex, GoTo, NextMutexTry, TypeOK, DistinctRecords, OwnRecord
<1>3. RunningInBoot'
  BY DEF StatMutex, GoTo, NextMutexTry, TypeOK, RunningInBoot, Running
<1>4. MutexOwned'
  BY DEF StatMutex, GoTo, NextMutexTry, TypeOK, MutexOwned, InTakeover
<1>5. FilesWritten'
  BY DEF StatMutex, GoTo, NextMutexTry, TypeOK, FilesWritten, Written,
         OwnRecord
<1>6. HolderHasLock'
  BY DEF StatMutex, GoTo, NextMutexTry, TypeOK, HolderHasLock, OwnRecord
<1>7. NoAbandonedLiveLock'
  BY DEF StatMutex, GoTo, NextMutexTry, TypeOK, NoAbandonedLiveLock,
         OwnRecord, Running
<1>8. ObservedNotOwn'
  BY DEF StatMutex, GoTo, NextMutexTry, TypeOK, ObservedNotOwn, OwnRecord
<1>9. ObservedStale'
  BY DEF StatMutex, GoTo, NextMutexTry, TypeOK, PcStates, ObservedStale,
         ObservedNotOwn, FilesWritten, Written, DistinctPids, OwnRecord,
         Running
<1>10. RenameMatches'
  BY DEF StatMutex, GoTo, NextMutexTry, TypeOK, RenameMatches
<1> QED BY <1>1, <1>2, <1>3, <1>4, <1>5, <1>6, <1>7, <1>8, <1>9, <1>10

\* Never enabled: no mutex is old.
LEMMA RmMutexPreserves ==
  ASSUME OrderlyTakeovers, IInv, NEW p \in Proc, RmMutex(p), TypeOK'
  PROVE  IInv'
BY DEF RmMutex, IInv, MutexOwned

LEMMA RereadPreserves ==
  ASSUME OrderlyTakeovers, IInv, NEW p \in Proc, Reread(p), TypeOK'
  PROVE  IInv'
<1> USE ConstAssumption DEF IInv
<1>1. DistinctPids'
  BY DEF Reread, GoTo, DistinctPids, Running
<1>2. DistinctRecords'
  BY DEF Reread, GoTo, DistinctRecords, OwnRecord
<1>3. RunningInBoot'
  BY DEF Reread, GoTo, RunningInBoot, Running
<1>4. MutexOwned'
  BY DEF Reread, GoTo, MutexOwned, InTakeover
<1>5. FilesWritten'
  BY DEF Reread, GoTo, FilesWritten, Written, OwnRecord
<1>6. HolderHasLock'
  BY DEF Reread, GoTo, TypeOK, HolderHasLock, OwnRecord
<1>7. NoAbandonedLiveLock'
  BY DEF Reread, GoTo, TypeOK, PcStates, NoAbandonedLiveLock, DistinctPids,
         DistinctRecords, OwnRecord, Running
<1>8. ObservedNotOwn'
  BY DEF Reread, GoTo, ObservedNotOwn, OwnRecord
<1>9. ObservedStale'
  BY DEF Reread, GoTo, TypeOK, PcStates, ObservedStale, ObservedNotOwn,
         FilesWritten, Written, DistinctPids, InTakeover, OwnRecord, Running
<1>10. RenameMatches'
  BY DEF Reread, GoTo, RenameMatches
<1> QED BY <1>1, <1>2, <1>3, <1>4, <1>5, <1>6, <1>7, <1>8, <1>9, <1>10

\* What is moved is what was judged stale, so no running process's lock.
LEMMA RenamePreserves ==
  ASSUME OrderlyTakeovers, IInv, NEW p \in Proc, Rename(p), TypeOK'
  PROVE  IInv'
<1> USE ConstAssumption DEF IInv
<1>1. DistinctPids'
  BY DEF Rename, GoTo, TypeOK, DistinctPids, Running
<1>2. DistinctRecords'
  BY DEF Rename, GoTo, TypeOK, DistinctRecords, OwnRecord
<1>3. RunningInBoot'
  BY DEF Rename, GoTo, TypeOK, RunningInBoot, Running
<1>4. MutexOwned'
  BY DEF Rename, GoTo, TypeOK, MutexOwned, InTakeover
<1>5. FilesWritten'
  BY DEF Rename, GoTo, TypeOK, FilesWritten, Written, OwnRecord
<1>6. HolderHasLock'
  BY DEF Rename, GoTo, TypeOK, HolderHasLock, ObservedStale, InTakeover,
         RenameMatches, Running
<1>7. NoAbandonedLiveLock'
  BY DEF Rename, GoTo, TypeOK, PcStates, NoAbandonedLiveLock, DistinctPids,
         DistinctRecords, OwnRecord, RecordAt, NoFile
<1>8. ObservedNotOwn'
  BY DEF Rename, GoTo, TypeOK, ObservedNotOwn, OwnRecord
<1>9. ObservedStale'
  BY DEF Rename, GoTo, TypeOK, PcStates, ObservedStale, ObservedNotOwn,
         FilesWritten, Written, DistinctPids, InTakeover, OwnRecord, Running
<1>10. RenameMatches'
  BY DEF Rename, GoTo, TypeOK, RenameMatches, MutexOwned, InTakeover
<1> QED BY <1>1, <1>2, <1>3, <1>4, <1>5, <1>6, <1>7, <1>8, <1>9, <1>10

\* The moved record is the one judged stale: it is deleted, never put back.
LEMMA ExamineMovedPreserves ==
  ASSUME OrderlyTakeovers, IInv, NEW p \in Proc, ExamineMoved(p), TypeOK'
  PROVE  IInv'
<1> USE ConstAssumption DEF IInv
<1>1. DistinctPids'
  BY DEF ExamineMoved, GoTo, TypeOK, DistinctPids, Running
<1>2. DistinctRecords'
  BY DEF ExamineMoved, GoTo, TypeOK, DistinctRecords, OwnRecord
<1>3. RunningInBoot'
  BY DEF ExamineMoved, GoTo, TypeOK, RunningInBoot, Running
<1>4. MutexOwned'
  BY DEF ExamineMoved, GoTo, TypeOK, MutexOwned, InTakeover
<1>5. FilesWritten'
  BY DEF ExamineMoved, GoTo, TypeOK, FilesWritten, RenameMatches, Written,
         OwnRecord
<1>6. HolderHasLock'
  BY DEF ExamineMoved, GoTo, TypeOK, HolderHasLock, OwnRecord, RecordAt,
         NoFile
<1>7. NoAbandonedLiveLock'
  BY DEF ExamineMoved, GoTo, TypeOK, PcStates, NoAbandonedLiveLock,
         DistinctPids, DistinctRecords, RenameMatches, OwnRecord, Running
<1>8. ObservedNotOwn'
  BY DEF ExamineMoved, GoTo, TypeOK, ObservedNotOwn, OwnRecord
<1>9. ObservedStale'
  BY DEF ExamineMoved, GoTo, TypeOK, PcStates, ObservedStale, ObservedNotOwn,
         FilesWritten, Written, DistinctPids, InTakeover, OwnRecord, Running
<1>10. RenameMatches'
  BY DEF ExamineMoved, GoTo, TypeOK, RenameMatches
<1> QED BY <1>1, <1>2, <1>3, <1>4, <1>5, <1>6, <1>7, <1>8, <1>9, <1>10

LEMMA UnlockPreserves ==
  ASSUME OrderlyTakeovers, IInv, NEW p \in Proc, Unlock(p), TypeOK'
  PROVE  IInv'
<1> USE ConstAssumption DEF IInv
<1>1. DistinctPids'
  BY DEF Unlock, GoTo, RetryOrGiveUp, TypeOK, DistinctPids, Running
<1>2. DistinctRecords'
  BY DEF Unlock, GoTo, RetryOrGiveUp, TypeOK, DistinctRecords, OwnRecord
<1>3. RunningInBoot'
  BY DEF Unlock, GoTo, RetryOrGiveUp, TypeOK, RunningInBoot, Running
<1>4. MutexOwned'
  BY DEF Unlock, GoTo, RetryOrGiveUp, TypeOK, MutexOwned, InTakeover
<1>5. FilesWritten'
  BY DEF Unlock, GoTo, RetryOrGiveUp, TypeOK, FilesWritten, Written,
         OwnRecord
<1>6. HolderHasLock'
  BY DEF Unlock, GoTo, RetryOrGiveUp, TypeOK, HolderHasLock, OwnRecord
<1>7. NoAbandonedLiveLock'
  BY DEF Unlock, GoTo, RetryOrGiveUp, TypeOK, PcStates, NoAbandonedLiveLock,
         DistinctPids, DistinctRecords, OwnRecord, Running
<1>8. ObservedNotOwn'
  BY DEF Unlock, GoTo, RetryOrGiveUp, TypeOK, ObservedNotOwn, OwnRecord
<1>9. ObservedStale'
  BY DEF Unlock, GoTo, RetryOrGiveUp, TypeOK, PcStates, ObservedStale,
         ObservedNotOwn, FilesWritten, Written, DistinctPids, InTakeover,
         OwnRecord, Running
<1>10. RenameMatches'
  BY DEF Unlock, GoTo, RetryOrGiveUp, TypeOK, RenameMatches
<1> QED BY <1>1, <1>2, <1>3, <1>4, <1>5, <1>6, <1>7, <1>8, <1>9, <1>10

LEMMA ReleaseReadPreserves ==
  ASSUME OrderlyTakeovers, IInv, NEW p \in Proc, ReleaseRead(p), TypeOK'
  PROVE  IInv'
<1> USE ConstAssumption DEF IInv
<1>1. DistinctPids'
  BY DEF ReleaseRead, GoTo, DistinctPids, Running
<1>2. DistinctRecords'
  BY DEF ReleaseRead, GoTo, DistinctRecords, OwnRecord
<1>3. RunningInBoot'
  BY DEF ReleaseRead, GoTo, RunningInBoot, Running
<1>4. MutexOwned'
  BY DEF ReleaseRead, GoTo, MutexOwned, InTakeover
<1>5. FilesWritten'
  BY DEF ReleaseRead, GoTo, FilesWritten, Written, OwnRecord
<1>6. HolderHasLock'
  BY DEF ReleaseRead, GoTo, HolderHasLock, OwnRecord
<1>7. NoAbandonedLiveLock'
  BY DEF ReleaseRead, GoTo, TypeOK, PcStates, NoAbandonedLiveLock,
         DistinctPids, DistinctRecords, OwnRecord, Running
<1>8. ObservedNotOwn'
  BY DEF ReleaseRead, GoTo, ObservedNotOwn, OwnRecord
<1>9. ObservedStale'
  BY DEF ReleaseRead, GoTo, TypeOK, PcStates, ObservedStale, ObservedNotOwn,
         FilesWritten, Written, DistinctPids, InTakeover, OwnRecord, Running
<1>10. RenameMatches'
  BY DEF ReleaseRead, GoTo, RenameMatches
<1> QED BY <1>1, <1>2, <1>3, <1>4, <1>5, <1>6, <1>7, <1>8, <1>9, <1>10

LEMMA ReleaseRmPreserves ==
  ASSUME OrderlyTakeovers, IInv, NEW p \in Proc, ReleaseRm(p), TypeOK'
  PROVE  IInv'
<1> USE ConstAssumption DEF IInv
<1>1. DistinctPids'
  BY DEF ReleaseRm, GoTo, DistinctPids, Running
<1>2. DistinctRecords'
  BY DEF ReleaseRm, GoTo, DistinctRecords, OwnRecord
<1>3. RunningInBoot'
  BY DEF ReleaseRm, GoTo, RunningInBoot, Running
<1>4. MutexOwned'
  BY DEF ReleaseRm, GoTo, MutexOwned, InTakeover
<1>5. FilesWritten'
  BY DEF ReleaseRm, GoTo, FilesWritten, Written, OwnRecord
<1>6. HolderHasLock'
  BY DEF ReleaseRm, GoTo, TypeOK, HolderHasLock, DistinctPids, OwnRecord,
         RecordAt, Running
<1>7. NoAbandonedLiveLock'
  BY DEF ReleaseRm, GoTo, TypeOK, PcStates, NoAbandonedLiveLock,
         DistinctPids, DistinctRecords, OwnRecord, RecordAt, NoFile
<1>8. ObservedNotOwn'
  BY DEF ReleaseRm, GoTo, ObservedNotOwn, OwnRecord
<1>9. ObservedStale'
  BY DEF ReleaseRm, GoTo, TypeOK, PcStates, ObservedStale, ObservedNotOwn,
         FilesWritten, Written, DistinctPids, InTakeover, OwnRecord, Running
<1>10. RenameMatches'
  BY DEF ReleaseRm, GoTo, RenameMatches, InTakeover, ObservedStale,
         HolderHasLock, Running
<1> QED BY <1>1, <1>2, <1>3, <1>4, <1>5, <1>6, <1>7, <1>8, <1>9, <1>10

---------------------------------------------------------------------------
(* Theorems.                                                               *)

LEMMA InitEstablishes == ASSUME Init PROVE IInv
<1> USE ConstAssumption DEF Init
<1>1. TypeOK
  <2>1. Debris \in Record
    BY DEF Debris, Record
  <2>2. 0 \in 0 .. MaxBoot /\ 0 \in 0 .. MaxAttempts - 1
    OBVIOUS
  <2>3. lock \in Record \cup {NoFile} /\ aside \in [Proc -> Record \cup {NoFile}]
        /\ observed \in [Proc -> Record \cup {NoFile}]
    BY <2>1
  <2>4. pc \in [Proc -> PcStates]
    BY DEF PcStates
  <2>5. bootOf \in [Proc -> 0 .. MaxBoot] /\ boot \in 0 .. MaxBoot
    BY <2>2
  <2>6. attempt \in [Proc -> 0 .. MaxAttempts - 1]
    BY <2>2
  <2>7. mutexTry \in [Proc -> 0 .. 1]
    OBVIOUS
  <2>8. mutexOld \in BOOLEAN /\ lockOld \in BOOLEAN
    OBVIOUS
  <2> QED BY <2>3, <2>4, <2>5, <2>6, <2>7, <2>8 DEF TypeOK
<1>2. DistinctPids /\ DistinctRecords /\ RunningInBoot /\ NoAbandonedLiveLock
  BY DEF DistinctPids, DistinctRecords, RunningInBoot, NoAbandonedLiveLock, Running
<1>3. MutexOwned /\ HolderHasLock /\ ObservedNotOwn /\ ObservedStale /\ RenameMatches
  BY DEF MutexOwned, HolderHasLock, ObservedNotOwn, ObservedStale, RenameMatches,
         InTakeover
<1>4. FilesWritten
  BY DEF FilesWritten, Written
<1> QED BY <1>1, <1>2, <1>3, <1>4 DEF IInv

LEMMA StutterPreserves == ASSUME IInv, UNCHANGED vars PROVE IInv'
BY DEF IInv, vars, TypeOK, DistinctPids, DistinctRecords, RunningInBoot, MutexOwned,
       FilesWritten, Written, HolderHasLock, NoAbandonedLiveLock, ObservedNotOwn,
       ObservedStale, RenameMatches, Running, OwnRecord, RecordAt

LEMMA NextPreserves == ASSUME OrderlyTakeovers, IInv, [Next]_vars PROVE IInv'
<1>1. TypeOK'
  BY TypePreserved DEF IInv
<1>2. ASSUME NEW p \in Proc, AcquireStep(p) PROVE IInv'
  BY <1>1, <1>2, TryLinkPreserves, CheckLinkedPreserves, ReadLockPreserves,
     StatLockPreserves, JudgePreserves, OpenMutexPreserves, StatMutexPreserves,
     RmMutexPreserves, RereadPreserves, RenamePreserves, ExamineMovedPreserves,
     UnlockPreserves DEF AcquireStep
<1>3. ASSUME NEW p \in Proc, ReleaseStep(p) PROVE IInv'
  BY <1>1, <1>3, ReleaseReadPreserves, ReleaseRmPreserves DEF ReleaseStep
<1>4. ASSUME NEW p \in Proc, Begin(p) \/ BeginStranger(p) \/ Die(p) PROVE IInv'
  BY <1>1, <1>4, BeginPreserves, BeginStrangerPreserves, DiePreserves
<1>5. CASE Reboot \/ AgeLock \/ AgeMutex
  BY <1>1, <1>5, RebootPreserves, AgeLockPreserves, AgeMutexPreserves
<1> QED BY <1>2, <1>3, <1>4, <1>5, StutterPreserves DEF Next

\* Every reachable state is well typed, for any set of processes, any
\* assignment of pids and start times and any platform.
THEOREM TypeCorrect == Spec => []TypeOK
<1>1. Init => TypeOK
  BY InitEstablishes DEF IInv
<1>2. TypeOK /\ [Next]_vars => TypeOK'
  BY TypePreserved
<1> QED BY <1>1, <1>2, PTL DEF Spec

LEMMA Invariance == ASSUME OrderlyTakeovers PROVE Spec => []IInv
<1>1. Init => IInv
  BY InitEstablishes
<1>2. IInv /\ [Next]_vars => IInv'
  BY NextPreserves
<1> QED BY <1>1, <1>2, PTL DEF Spec

\* At most one live process holds the channel lock ("only by ONE process at a
\* time"), whatever dies when and however pids are reused, as long as no
\* takeover outlives TAKEOVER_STALE_MS.
THEOREM ChannelMutualExclusion ==
  ASSUME OrderlyTakeovers PROVE Spec => []MutualExclusion
<1>1. IInv => MutualExclusion
  <2> SUFFICES ASSUME IInv, NEW p \in Proc, NEW q \in Proc,
                      DeliveryEnabled(p), DeliveryEnabled(q)
               PROVE  p = q
    BY DEF MutualExclusion
  <2>1. OwnRecord(p) = OwnRecord(q)
    BY DEF IInv, HolderHasLock, DeliveryEnabled
  <2> QED BY <2>1 DEF IInv, DistinctRecords, DeliveryEnabled
<1> QED BY <1>1, Invariance, PTL

\* A lock that names a live process is held, just linked or being released by
\* it: no session that reported busy blocks the later ones.
THEOREM NoLiveLockIsAbandoned ==
  ASSUME OrderlyTakeovers PROVE Spec => []NoAbandonedLiveLock
<1>1. IInv => NoAbandonedLiveLock
  BY DEF IInv
<1> QED BY <1>1, Invariance, PTL

\* Only its own process ever removes or replaces a live process's lock.
THEOREM LiveLocksAreLeftAlone ==
  ASSUME OrderlyTakeovers PROVE Spec => LiveLockUntouched
<1> DEFINE Untouched == \A p \in Proc : Running(p) /\ lock = OwnRecord(p) /\ lock' # lock
                          => pc[p] = "rmLock" /\ pc'[p] = "released"
<1>1. IInv /\ [Next]_vars => Untouched
  <2> SUFFICES ASSUME IInv, [Next]_vars, NEW p \in Proc, Running(p),
                      lock = OwnRecord(p), lock' # lock
               PROVE  pc[p] = "rmLock" /\ pc'[p] = "released"
    OBVIOUS
  <2> USE ConstAssumption
  <2>1. lock # NoFile
    BY DEF OwnRecord, RecordAt, NoFile
  <2>2. ASSUME NEW q \in Proc, Rename(q) PROVE FALSE
    BY <2>2 DEF Rename, IInv, RenameMatches, ObservedStale, InTakeover
  <2>3. ASSUME NEW q \in Proc, ReleaseRm(q)
        PROVE  pc[p] = "rmLock" /\ pc'[p] = "released"
    <3>1. OwnRecord(q) = OwnRecord(p) /\ pc[q] # "off" /\ pc[p] # "off"
      BY <2>3 DEF ReleaseRm, IInv, HolderHasLock, Running
    <3>2. q = p
      BY <3>1 DEF IInv, DistinctRecords
    <3> QED BY <2>3, <3>2 DEF ReleaseRm, GoTo, IInv, TypeOK
  <2>4. ASSUME NEW q \in Proc, AcquireStep(q), ~Rename(q) PROVE FALSE
    BY <2>1, <2>4 DEF AcquireStep, TryLink, CheckLinked, ReadLock, StatLock, Judge,
       OpenMutex, StatMutex, RmMutex, Reread, ExamineMoved, Unlock
  <2>5. ASSUME NEW q \in Proc, Begin(q) \/ BeginStranger(q) \/ Die(q) \/ ReleaseRead(q)
        PROVE  FALSE
    BY <2>5 DEF Begin, BeginStranger, Die, ReleaseRead
  <2>6. CASE Reboot \/ AgeLock \/ AgeMutex \/ UNCHANGED vars
    BY <2>6 DEF Reboot, AgeLock, AgeMutex, vars
  <2> QED BY <2>2, <2>3, <2>4, <2>5, <2>6 DEF Next, ReleaseStep
<1>2. IInv /\ [Next]_vars => [Untouched]_vars
  BY <1>1
<1> QED BY <1>2, Invariance, PTL DEF Spec, LiveLockUntouched
============================================================================
