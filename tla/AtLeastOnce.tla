---------------------------- MODULE AtLeastOnce ----------------------------
(***************************************************************************)
(* What the inbox promises about each of its messages, whatever carries it *)
(* out: one handler at a time, at least one successful delivery, and no    *)
(* numbered delivery of a message that counts as settled.  A message is    *)
(* settled for one of three reasons only: it was delivered, the process    *)
(* sought past it when it began without a cursor, or a sweep passed over   *)
(* it while it was being handled.  Module InboxDelivery implements this.   *)
(***************************************************************************)
EXTENDS FiniteSets

CONSTANT Message

VARIABLES
  sent,      \* messages in the inbox
  stage,     \* where the handler of each message is
  done,      \* messages ever delivered
  skipped,   \* messages sought past
  passed,    \* messages passed over while they were handled
  settled    \* messages the running process takes for handled

vars == <<sent, stage, done, skipped, passed, settled>>

Init ==
  /\ sent \subseteq Message
  /\ stage = [s \in Message |-> "free"]
  /\ done = {} /\ skipped = {} /\ passed = {} /\ settled = {}

\* Any step may find more messages settled, each for a reason.
Settle == settled \subseteq settled' /\ settled' \subseteq done' \cup skipped' \cup passed'

Arrive(s) ==
  /\ s \in Message \ sent /\ sent' = sent \cup {s}
  /\ UNCHANGED <<stage, done, skipped, passed, settled>>

Reserve(s) ==
  /\ s \in sent /\ stage[s] = "free"
  /\ stage' = [stage EXCEPT ![s] = "reserved"]
  /\ UNCHANGED <<sent, done, skipped, passed, settled>>

\* A message that is settled is not delivered again by a handler that knows its
\* number; one that could not fetch it delivers blindly.
Deliver(s) ==
  /\ stage[s] = "reserved"
  /\ \/ s \notin settled /\ stage' = [stage EXCEPT ![s] = "delivering"]
     \/ stage' = [stage EXCEPT ![s] = "blind"]
  /\ UNCHANGED <<sent, done, skipped, passed, settled>>

Succeed(s) ==
  /\ stage[s] \in {"delivering", "blind"}
  /\ stage' = [stage EXCEPT ![s] = "free"]
  /\ done' = done \cup {s}
  /\ Settle
  /\ UNCHANGED <<sent, skipped, passed>>

\* A duplicate, or a delivery that failed.
Release(s) ==
  /\ stage[s] # "free"
  /\ stage' = [stage EXCEPT ![s] = "free"]
  /\ UNCHANGED <<sent, done, skipped, passed, settled>>

PassOver(s) ==
  /\ stage[s] # "free"
  /\ passed' = passed \cup {s}
  /\ UNCHANGED <<sent, stage, done, skipped, settled>>

Seek(S) ==
  /\ S \subseteq sent /\ skipped' = skipped \cup S
  /\ Settle
  /\ UNCHANGED <<sent, stage, done, passed>>

\* A process that exits forgets what it took for handled; one that starts, or
\* fills a gap, finds some of it settled.
Exit ==
  /\ stage' = [s \in Message |-> "free"] /\ settled' = {}
  /\ UNCHANGED <<sent, done, skipped, passed>>

Find == Settle /\ UNCHANGED <<sent, stage, done, skipped, passed>>

Next ==
  \/ \E s \in Message : \/ Arrive(s) \/ Reserve(s) \/ Deliver(s) \/ Succeed(s)
                        \/ Release(s) \/ PassOver(s)
  \/ \E S \in SUBSET Message : Seek(S)
  \/ Exit \/ Find

Spec == Init /\ [][Next]_vars
============================================================================
