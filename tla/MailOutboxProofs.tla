--------------------------- MODULE MailOutboxProofs ---------------------------
(* Safety of MailOutbox for every set of messages and submitters, every     *)
(* number of slots, failures and cancellations.                             *)
EXTENDS MailOutbox, FiniteSetTheorems, TLAPS

(* A row that a goroutine delivers is sending, whoever else writes it.      *)
Claimed == \A m \in Messages : delivery[m] # "none" => row[m] = "sending"

(* The loop counts its goroutines, and reads no more than it has slots for. *)
Counting ==
    /\ slots = Cardinality(Owned) /\ slots <= Slots
    /\ loop = "down" => Owned = {}
    /\ loop = "reading" => slots < Slots
    /\ loop = "claiming" => slots + Cardinality(due) <= Slots

(* What may be sent once more was accepted only with an excuse; what is sent*)
(* was accepted.                                                            *)
Accepting ==
    \A m \in Messages :
        /\ accepted[m] <= 1 + excuses[m]
        /\ row[m] \in {"pending", "sending"} /\ delivery[m] # "ok"
              => accepted[m] <= excuses[m]
        /\ row[m] = "sent" \/ delivery[m] = "ok" => accepted[m] > 0

(* A row that is not there was purged, and no task can bring it back, or it *)
(* was never there.                                                         *)
Absent ==
    \A m \in Messages : row[m] = "absent" =>
        \/ m \in expired /\ Of(m) \cap tasks \subseteq stale
        \/ /\ accepted[m] <= excuses[m]
           /\ \A c \in Of(m) : submitter[c] \notin Terminal

(* Mail whose cancellation was confirmed is not on its way to a server.     *)
Withdrawn ==
    \A m \in Messages :
        Route[m] = "local" /\ command[m] = "cancelled" => delivery[m] # "running"

IInv == TypeOK /\ Claimed /\ Counting /\ Accepting /\ Absent /\ AnswersAreTrue /\ Withdrawn

-----------------------------------------------------------------------------
(* What a setup says of messages, routes and bounds.                        *)
LEMMA SetupFacts ==
    ASSUME setup \in Setups
    PROVE  /\ MessageOf \in [Submitters -> Messages] /\ Submitted \subseteq Messages
           /\ Route \in [Messages -> {"local", "relay"}]
           /\ MaxFaults \in Nat /\ MaxCancels \in Nat
BY OutboxAssumption DEF Setup, MessageOf, Submitted, Route, MaxFaults, MaxCancels

(* The goroutines of the loop can be counted, also after one starts or ends.*)
LEMMA OwnedCounted ==
    /\ IsFiniteSet(Owned) /\ Cardinality(Owned) \in Nat
    /\ Owned # {} => Cardinality(Owned) # 0
BY FS_Subset, FS_CardinalityType, FS_EmptySet, OutboxAssumption DEF Owned

(* Nothing is being delivered and nothing has been accepted at first.       *)
LEMMA InitIInv == Init => IInv
<1> SUFFICES ASSUME Init PROVE IInv
    OBVIOUS
<1>1. TypeOK
  BY DEF Init, TypeOK, Terminal, Outcomes
<1>2. Owned = {}
  BY DEF Init, Owned
<1>3. Counting
  BY <1>2, FS_EmptySet, OutboxAssumption DEF Init, Counting
<1>4. Claimed /\ Accepting /\ Absent /\ AnswersAreTrue /\ Withdrawn
  BY DEF Init, Claimed, Accepting, Absent, AnswersAreTrue, Withdrawn, Terminal, Of
<1> QED
  BY <1>1, <1>3, <1>4 DEF IInv

-----------------------------------------------------------------------------
(* Callers and time: a task that is created after its message expired is    *)
(* known to be stale, so that it cannot bring a purged row back (Submit).   *)
LEMMA CallersKeep ==
    ASSUME IInv, UNCHANGED setup,
           \/ \E c \in Submitters : Submit(c) \/ Leave(c)
           \/ \E m \in Messages : Expire(m) \/ DelayPasses(m)
    PROVE  IInv'
<1> USE DEF IInv
<1>0. /\ UNCHANGED <<row, command, blocked, loop, due, slots, delivery, accepted, excuses, MessageOf, Route>>
      /\ expired \subseteq expired'
  BY DEF Submit, Leave, Expire, DelayPasses, table, work, callers, bounds, MessageOf, Route
<1>1. TypeOK'
  BY SetupFacts DEF TypeOK, Submit, Leave, Expire, DelayPasses, table, work, callers, bounds, Terminal
<1>2. Claimed' /\ Accepting' /\ Withdrawn'
  BY <1>0 DEF Claimed, Accepting, Withdrawn
<1>3. Counting'
  BY <1>0 DEF Counting, Owned
<1>4. \A c \in Submitters : submitter'[c] \in Terminal => submitter'[c] = submitter[c]
  BY DEF TypeOK, Submit, Leave, Expire, DelayPasses, callers, Terminal
<1>5. \A m \in Messages : m \in expired /\ Of(m) \cap tasks \subseteq stale
                             => Of(m)' \cap tasks' \subseteq stale'
  BY <1>0 DEF Submit, Leave, Expire, DelayPasses, callers, Of
<1>6. Absent'
  BY <1>0, <1>4, <1>5 DEF Absent, Of
<1>7. AnswersAreTrue'
  BY <1>0, <1>4 DEF AnswersAreTrue, Terminal
<1> QED
  BY <1>1, <1>2, <1>3, <1>6, <1>7

-----------------------------------------------------------------------------
(* Queued mail may be cancelled by anybody at any time, and callers may be  *)
(* told what the row says.                                                  *)
LEMMA WithdrawalsKeep ==
    ASSUME IInv, TypeOK',
           UNCHANGED setup, UNCHANGED accepted, UNCHANGED excuses, UNCHANGED delivery,
           UNCHANGED tasks, UNCHANGED stale, UNCHANGED expired,
           \A m \in Messages :
               row'[m] = row[m] \/ (row[m] = "pending" /\ row'[m] = "cancelled"),
           \A c \in Submitters :
               submitter'[c] \in Terminal =>
                   submitter'[c] = submitter[c] \/ submitter'[c] = row'[MessageOf[c]]
    PROVE  Claimed' /\ Accepting' /\ Absent' /\ AnswersAreTrue'
<1> USE DEF IInv
<1>0. UNCHANGED MessageOf /\ \A m \in Messages : UNCHANGED Of(m)
  BY DEF MessageOf, Of
<1>1. Claimed'
  BY DEF Claimed
<1>2. Accepting'
  BY DEF Accepting
<1>3. Absent'
  BY <1>0 DEF Absent, Of, Terminal
<1>4. AnswersAreTrue'
  <2> SUFFICES ASSUME NEW c \in Submitters, submitter'[c] \in Terminal
               PROVE  /\ row'[MessageOf[c]] \in {submitter'[c], "absent"}
                      /\ submitter'[c] = "sent" => accepted'[MessageOf[c]] > 0
    BY <1>0 DEF AnswersAreTrue, Terminal
  <2>1. MessageOf[c] \in Messages
    BY SetupFacts DEF TypeOK
  <2>2. CASE submitter'[c] = submitter[c]
    BY <2>1, <2>2 DEF AnswersAreTrue, Terminal
  <2>3. CASE submitter'[c] = row'[MessageOf[c]]
    BY <2>1, <2>3, <1>2 DEF Accepting
  <2> QED
    BY <2>2, <2>3
<1> QED
  BY <1>1, <1>2, <1>3, <1>4

(* The policy and the commands: what is confirmed as cancelled was queued   *)
(* or cancelled, and so it is not under delivery (cancelStoredMail,         *)
(* syncMailControl, ApplyPolicyTx).                                         *)
LEMMA AdministratorsKeep ==
    ASSUME IInv, UNCHANGED setup,
           \/ ApplyPolicy
           \/ \E m \in Messages :
                  CancelStored(m) \/ CenterCommand(m) \/ CenterResult(m) \/ SetBlock(m)
    PROVE  IInv'
<1> USE DEF IInv
<1>0. /\ UNCHANGED <<accepted, excuses, delivery, tasks, stale, expired, submitter, slots, due>>
      /\ loop' = loop \/ loop' = "select" \/ (loop' = "reading" /\ slots < Slots)
  BY DEF ApplyPolicy, CancelStored, CenterCommand, CenterResult, SetBlock, table, work,
         callers, bounds, Success, Fault
<1>1. \A m \in Messages :
          row'[m] = row[m] \/ (row[m] = "pending" /\ row'[m] = "cancelled")
  <2>1. CASE ApplyPolicy
    BY <2>1 DEF TypeOK, ApplyPolicy, WithoutBlocked
  <2>2. ASSUME NEW n \in Messages, CancelStored(n) \/ CenterCommand(n)
        PROVE  \A m \in Messages :
                   row'[m] = row[m] \/ (row[m] = "pending" /\ row'[m] = "cancelled")
    <3>1. CASE CancelStored(n)
      BY <3>1 DEF TypeOK, CancelStored, Cancel
    <3>2. CASE CenterCommand(n)
      BY <3>2 DEF TypeOK, CenterCommand, Cancel, WithoutBlocked
    <3> QED
      BY <2>2, <3>1, <3>2
  <2>3. ASSUME NEW n \in Messages, CenterResult(n) \/ SetBlock(n)
        PROVE  \A m \in Messages :
                   row'[m] = row[m] \/ (row[m] = "pending" /\ row'[m] = "cancelled")
    BY <2>3 DEF TypeOK, CenterResult, SetBlock, WithoutBlocked
  <2> QED
    BY <2>1, <2>2, <2>3
<1>2. TypeOK'
  <2> USE DEF TypeOK, Terminal, callers, bounds, Success, Fault
  <2>1. CASE ApplyPolicy
    BY <2>1 DEF ApplyPolicy, WithoutBlocked
  <2>2. ASSUME NEW n \in Messages, CancelStored(n)
        PROVE  TypeOK'
    BY <2>2 DEF CancelStored, Cancel, work
  <2>3. ASSUME NEW n \in Messages, CenterCommand(n)
        PROVE  TypeOK'
    BY <2>3 DEF CenterCommand, Cancel, WithoutBlocked, work
  <2>4. ASSUME NEW n \in Messages, CenterResult(n) \/ SetBlock(n)
        PROVE  TypeOK'
    BY <2>4 DEF CenterResult, SetBlock, WithoutBlocked, work
  <2> QED
    BY <2>1, <2>2, <2>3, <2>4
<1>3. Claimed' /\ Accepting' /\ Absent' /\ AnswersAreTrue'
  BY <1>0, <1>1, <1>2, WithdrawalsKeep
<1>4. Counting'
  BY <1>0 DEF Counting, Owned
<1>5. Withdrawn'
  <2> SUFFICES ASSUME NEW m \in Messages, Route'[m] = "local", command'[m] = "cancelled",
                      delivery[m] = "running"
               PROVE  FALSE
    BY <1>0 DEF Withdrawn
  <2>1. row[m] = "sending" /\ Route[m] = "local" /\ command[m] # "cancelled"
    BY DEF Claimed, Withdrawn, Route
  <2> QED
    BY <2>1 DEF ApplyPolicy, CancelStored, CenterCommand, CenterResult, SetBlock, Cancel,
                WithoutBlocked, TypeOK
<1> QED
  BY <1>2, <1>3, <1>4, <1>5

(* The loop starts with no goroutine; a row that an earlier process left    *)
(* sending is queued again, with the excuse of its interruption (Recover).  *)
LEMMA StartKeeps == ASSUME IInv, UNCHANGED setup, Start PROVE IInv'
<1> USE DEF IInv, Start
<1>0. /\ UNCHANGED <<accepted, excuses, delivery, tasks, stale, expired, submitter, slots,
                     due, command, MessageOf, Route>>
      /\ \A m \in Messages : UNCHANGED Of(m)
  BY DEF callers, bounds, Success, Fault, MessageOf, Route, Of
<1>1. \A m \in Messages : delivery[m] = "none"
  BY DEF Counting, Owned
<1>2. \A m \in Messages :
          row'[m] = row[m] \/ (row[m] = "sending" /\ row'[m] = "pending")
  BY DEF Recovered, TypeOK
<1>3. TypeOK'
  BY DEF TypeOK, Recovered, Terminal, callers, bounds, Success, Fault
<1>4. Claimed' /\ Withdrawn'
  BY <1>0, <1>1 DEF Claimed, Withdrawn
<1>5. Counting'
  BY <1>0 DEF Counting, Owned
<1>6. Accepting'
  BY <1>0, <1>1, <1>2 DEF Accepting
<1>7. Absent'
  BY <1>0, <1>2 DEF Absent
<1>8. AnswersAreTrue'
  BY <1>0, <1>2, SetupFacts DEF AnswersAreTrue, Terminal, TypeOK
<1> QED
  BY <1>3, <1>4, <1>5, <1>6, <1>7, <1>8

(* Due reads at most as many rows as there are slots.                       *)
LEMMA ReadDueKeeps == ASSUME IInv, UNCHANGED setup, ReadDue PROVE IInv'
<1> USE DEF IInv, ReadDue
<1>0. UNCHANGED <<accepted, excuses, delivery, tasks, stale, expired, submitter, slots,
                  row, command, MessageOf, Route>>
  BY DEF table, callers, bounds, Success, Fault, MessageOf, Route
<1>1. TypeOK'
  BY DEF TypeOK, table, callers, bounds, Success, Fault
<1>2. Claimed' /\ Accepting' /\ Absent' /\ AnswersAreTrue'
  <2>1. \A m \in Messages : row'[m] = row[m]
    BY <1>0
  <2>2. \A c \in Submitters : submitter'[c] = submitter[c]
    BY <1>0
  <2> QED
    BY <1>0, <1>1, <2>1, <2>2, WithdrawalsKeep
<1>3. Withdrawn'
  BY <1>0 DEF Withdrawn
<1>4. loop' = "claiming" => Cardinality(due') <= Slots - slots /\ due' \subseteq Messages
  OBVIOUS
<1>5. loop' = "claiming" => slots + Cardinality(due') <= Slots
  <2>1. ASSUME loop' = "claiming" PROVE Cardinality(due') \in Nat
    BY <1>4, <2>1, FS_Subset, FS_CardinalityType, OutboxAssumption
  <2> QED
    BY <1>4, <2>1, OutboxAssumption DEF TypeOK
<1>6. Counting'
  BY <1>0, <1>5 DEF Counting, Owned
<1> QED
  BY <1>1, <1>2, <1>3, <1>6

(* The ticker tells observers only what the row says.                       *)
LEMMA TickKeeps == ASSUME IInv, UNCHANGED setup, Tick PROVE IInv'
<1> USE DEF IInv, Tick
<1>0. UNCHANGED <<accepted, excuses, delivery, tasks, stale, expired, slots, due,
                  row, command, MessageOf, Route>>
  BY DEF table, bounds, Success, Fault, MessageOf, Route
<1>1. TypeOK'
  BY DEF TypeOK, table, bounds, Success, Fault, Terminal
<1>2. \A c \in Submitters : submitter'[c] \in Terminal =>
          submitter'[c] = submitter[c] \/ submitter'[c] = row'[MessageOf[c]]
  BY <1>0 DEF TypeOK
<1>3. Claimed' /\ Accepting' /\ Absent' /\ AnswersAreTrue'
  BY <1>0, <1>1, <1>2, WithdrawalsKeep
<1>4. Withdrawn' /\ Counting'
  BY <1>0 DEF Withdrawn, Counting, Owned
<1> QED
  BY <1>1, <1>3, <1>4

-----------------------------------------------------------------------------
(* A task: a finished message is not stored again, because its row is still *)
(* there or the task is refused as created after the expiry (Intake).       *)
LEMMA IntakeKeeps ==
    ASSUME IInv, UNCHANGED setup, NEW c \in Submitters, Intake(c) PROVE IInv'
<1> DEFINE m == MessageOf[c]
<1> USE DEF IInv
<1>0. /\ UNCHANGED <<accepted, delivery, stale, expired, slots, due, command, MessageOf, Route>>
      /\ UNCHANGED excuses /\ c \in tasks /\ tasks' = tasks \ {c} /\ m \in Messages
      /\ \A n \in Messages : UNCHANGED Of(n)
      /\ loop' = loop \/ loop' = "policy"
  BY SetupFacts DEF Intake, bounds, Success, Fault, MessageOf, Route, Of, TypeOK
<1>1. \/ row' = row
      \/ c \notin stale /\ row[m] = "absent" /\ row' = [row EXCEPT ![m] = "pending"]
  BY DEF Intake, TypeOK
<1>2. \A d \in Submitters : submitter'[d] = submitter[d]
          \/ (d = c /\ submitter'[d] \in {"refused", "observing"})
          \/ (d = c /\ submitter'[d] = row[m] /\ row[m] \in Terminal /\ row' = row)
  BY DEF Intake, Inform, TypeOK, Terminal
<1>3. TypeOK'
  <2>1. row' \in [Messages -> Terminal \cup {"absent", "pending", "sending"}]
    BY <1>0, <1>1 DEF TypeOK
  <2>2. submitter' \in [Submitters -> Terminal \cup
                            {"idle", "waiting", "observing", "gone", "refused"}]
    BY DEF TypeOK, Intake, Inform, Terminal
  <2>3. faults' \in Nat
    BY DEF TypeOK, Intake, bounds, Success, Fault
  <2> QED
    BY <1>0, <2>1, <2>2, <2>3 DEF TypeOK, Intake
<1>4. Claimed' /\ Withdrawn'
  BY <1>0, <1>1 DEF Claimed, Withdrawn, TypeOK
<1>5. Counting'
  BY <1>0 DEF Counting, Owned
<1>6. row[m] = "absent" /\ c \notin stale => accepted[m] <= excuses[m]
                                   /\ \A d \in Of(m) : submitter[d] \notin Terminal
  <2>1. c \in Of(m) \cap tasks
    BY <1>0 DEF Of
  <2> QED
    BY <1>0, <2>1 DEF Absent
<1>7. Accepting'
  BY <1>0, <1>1, <1>6 DEF Accepting, TypeOK
<1>8. Absent'
  <2>1. \A n \in Messages : row'[n] = "absent" => row[n] = "absent"
    BY <1>0, <1>1 DEF TypeOK
  <2>2. \A d \in Submitters : submitter'[d] \in Terminal =>
           submitter'[d] = submitter[d] \/ (d = c /\ row[m] \in Terminal)
    BY <1>2 DEF Terminal
  <2>3. \A n \in Messages : n \in expired /\ Of(n) \cap tasks \subseteq stale
                                => Of(n)' \cap tasks' \subseteq stale'
    BY <1>0
  <2> QED
    BY <1>0, <2>1, <2>2, <2>3 DEF Absent, Of, Terminal
<1>9. AnswersAreTrue'
  <2> SUFFICES ASSUME NEW d \in Submitters, submitter'[d] \in Terminal
               PROVE  /\ row'[MessageOf[d]] \in {submitter'[d], "absent"}
                      /\ submitter'[d] = "sent" => accepted[MessageOf[d]] > 0
    BY <1>0 DEF AnswersAreTrue, Terminal
  <2>1. CASE submitter'[d] = submitter[d]
    <3>1. row[MessageOf[d]] \in {submitter[d], "absent"}
      BY <2>1 DEF AnswersAreTrue
    <3>2. row' # row => MessageOf[d] # m
      BY <1>0, <1>1, <1>6, <2>1 DEF Of
    <3>3. row'[MessageOf[d]] = row[MessageOf[d]]
      BY <1>0, <1>1, <3>2, SetupFacts DEF TypeOK
    <3> QED
      BY <2>1, <3>1, <3>3 DEF AnswersAreTrue, Terminal
  <2>2. CASE d = c /\ submitter'[d] = row[m] /\ row[m] \in Terminal /\ row' = row
    BY <1>0, <2>2 DEF Accepting
  <2> QED
    BY <1>2, <2>1, <2>2 DEF Terminal
<1> QED
  BY <1>3, <1>4, <1>5, <1>7, <1>8, <1>9

(* A claim takes a row that is queued and not forbidden, so that it is not  *)
(* under delivery yet, and a slot that Due left for it (ClaimPermitted).    *)
LEMMA ClaimKeeps ==
    ASSUME IInv, UNCHANGED setup, NEW m \in Messages, Claim(m) PROVE IInv'
<1> USE DEF IInv
<1>0. /\ UNCHANGED <<accepted, excuses, tasks, stale, expired, submitter, command,
                     MessageOf, Route>>
      /\ \A n \in Messages : UNCHANGED Of(n)
      /\ m \in due /\ due' = due \ {m} /\ loop = "claiming"
      /\ loop' \in {"select", "claiming"}
  BY DEF Claim, callers, bounds, Success, Fault, Excuse, MessageOf, Route, Of
<1>1. CASE /\ row[m] = "pending" /\ ~Forbidden(m)
           /\ row' = [row EXCEPT ![m] = "sending"] /\ slots' = slots + 1
           /\ delivery' = [delivery EXCEPT ![m] = "running"]
  <2>1. TypeOK'
    BY <1>0, <1>1 DEF TypeOK, Claim, callers, bounds, Success, Fault
  <2>2. m \notin Owned /\ Owned' = Owned \cup {m}
    BY <1>1 DEF Claimed, Owned, TypeOK
  <2>3. slots' = Cardinality(Owned')
    BY <1>1, <2>2, OwnedCounted, FS_AddElement DEF Counting
  <2>4. Cardinality(due') = Cardinality(due) - 1 /\ Cardinality(due') \in Nat
    BY <1>0, FS_RemoveElement, FS_Subset, FS_CardinalityType, OutboxAssumption DEF TypeOK
  <2>5. slots + Cardinality(due) <= Slots /\ Cardinality(due) \in Nat
    BY <1>0, FS_Subset, FS_CardinalityType, OutboxAssumption DEF Counting, TypeOK
  <2>6. Counting'
    BY <1>0, <1>1, <2>3, <2>4, <2>5, OutboxAssumption DEF Counting, TypeOK
  <2>7. Claimed' /\ Accepting' /\ Absent'
    BY <1>0, <1>1 DEF Claimed, Accepting, Absent, TypeOK
  <2>8. AnswersAreTrue'
    <3>1. \A c \in Submitters : submitter[c] \in Terminal => MessageOf[c] # m
      BY <1>1 DEF AnswersAreTrue, Terminal
    <3> QED
      BY <1>0, <1>1, <3>1, SetupFacts DEF AnswersAreTrue, Terminal, TypeOK
  <2>9. Withdrawn'
    BY <1>0, <1>1 DEF Withdrawn, Forbidden, TypeOK
  <2> QED
    BY <2>1, <2>6, <2>7, <2>8, <2>9
<1>2. CASE UNCHANGED <<slots, delivery>> /\ row' \in {row, Cancel(row, m)}
  <2>1. TypeOK'
    BY <1>0, <1>2 DEF TypeOK, Claim, callers, bounds, Success, Fault, Cancel, Terminal
  <2>2. \A n \in Messages :
            row'[n] = row[n] \/ (row[n] = "pending" /\ row'[n] = "cancelled")
    BY <1>2 DEF Cancel, TypeOK
  <2>3. \A c \in Submitters : submitter'[c] = submitter[c]
    BY <1>0
  <2>4. Claimed' /\ Accepting' /\ Absent' /\ AnswersAreTrue'
    BY <1>0, <1>2, <2>1, <2>2, <2>3, WithdrawalsKeep
  <2>5. Cardinality(due') <= Cardinality(due) /\ Cardinality(due') \in Nat
        /\ Cardinality(due) \in Nat
    BY <1>0, FS_RemoveElement, FS_Subset, FS_CardinalityType, OutboxAssumption DEF TypeOK
  <2>6. Counting' /\ Withdrawn'
    BY <1>0, <1>2, <2>5, OutboxAssumption DEF Counting, Withdrawn, Owned, TypeOK
  <2> QED
    BY <2>1, <2>4, <2>6
<1> QED
  BY <1>1, <1>2 DEF Claim

(* A server takes a message that is under delivery: its answer is known, or *)
(* its loss is an excuse (deliverMailRecord).                               *)
LEMMA DeliverKeeps ==
    ASSUME IInv, UNCHANGED setup, NEW m \in Messages, Deliver(m) PROVE IInv'
<1> USE DEF IInv
<1>0. /\ UNCHANGED <<row, command, tasks, stale, expired, submitter, slots, due, loop,
                     MessageOf, Route>>
      /\ \A n \in Messages : UNCHANGED Of(n)
      /\ delivery[m] = "running" /\ delivery'[m] \in Outcomes
      /\ \A n \in Messages \ {m} :
            UNCHANGED <<delivery[n], accepted[n], excuses[n]>>
  BY DEF Deliver, table, callers, bounds, Success, Excuse, MessageOf, Route, Of, TypeOK, Outcomes
<1>1. \/ UNCHANGED <<accepted[m], excuses[m]>> /\ delivery'[m] # "ok"
      \/ accepted'[m] = accepted[m] + 1 /\ UNCHANGED excuses[m] /\ delivery'[m] = "ok"
      \/ accepted'[m] = accepted[m] + 1 /\ excuses'[m] = excuses[m] + 1
           /\ delivery'[m] # "ok"
  BY DEF Deliver, bounds, Success, Excuse, TypeOK
<1>2. TypeOK'
  BY DEF TypeOK, Deliver, table, callers, bounds, Success, Excuse, Outcomes
<1>3. row[m] = "sending" /\ accepted[m] <= excuses[m]
  BY <1>0 DEF Claimed, Accepting
<1>4. Owned' = Owned
  BY <1>0 DEF Owned, Outcomes
<1>5. Counting'
  BY <1>0, <1>4 DEF Counting
<1>6. Claimed' /\ Withdrawn'
  BY <1>0, <1>3 DEF Claimed, Withdrawn, Outcomes
<1>7. Accepting'
  BY <1>0, <1>1, <1>3 DEF Accepting, TypeOK
<1>8. Absent'
  BY <1>0, <1>3 DEF Absent
<1>9. AnswersAreTrue'
  <2>1. \A c \in Submitters : submitter[c] \in Terminal =>
            MessageOf[c] \in Messages \ {m}
    BY <1>3, SetupFacts DEF AnswersAreTrue, Terminal, TypeOK
  <2> QED
    BY <1>0, <2>1 DEF AnswersAreTrue, Terminal
<1> QED
  BY <1>2, <1>5, <1>6, <1>7, <1>8, <1>9

(* A completion writes the row of its own delivery, which nobody else has   *)
(* written, and tells its observers; if it cannot be written, the row stays *)
(* sending and the message may be sent once more.                           *)
LEMMA CompleteKeeps ==
    ASSUME IInv, UNCHANGED setup, NEW m \in Messages, Complete(m) PROVE IInv'
<1> USE DEF IInv
<1>0. /\ UNCHANGED <<command, tasks, stale, expired, accepted, due, MessageOf, Route>>
      /\ \A n \in Messages : UNCHANGED Of(n)
      /\ delivery[m] \in Outcomes /\ delivery' = [delivery EXCEPT ![m] = "none"]
      /\ slots' = slots - 1 /\ loop' = "policy"
  BY DEF Complete, MessageOf, Route, Of
<1>1. row[m] = "sending"
  BY <1>0 DEF Claimed, Outcomes
<1>2. StatusAfter(m) \in {"sent", "failed", "pending"}
      /\ (StatusAfter(m) = "sent" <=> delivery[m] = "ok")
  BY <1>0 DEF StatusAfter, Outcomes
<1>3. \/ UNCHANGED excuses /\ row' = [row EXCEPT ![m] = StatusAfter(m)]
      \/ row' = row /\ excuses' = [excuses EXCEPT ![m] = @ + 1]
  BY <1>1 DEF Complete, Mark, Success, Excuse, bounds, TypeOK
<1>4. TypeOK'
  <2>1. slots' \in Nat
    <3>1. m \in Owned
      BY <1>0 DEF Owned, Outcomes
    <3> QED
      BY <1>0, <3>1, OwnedCounted DEF Counting
  <2>2. row' \in [Messages -> Terminal \cup {"absent", "pending", "sending"}]
    BY <1>2, <1>3 DEF TypeOK, Terminal
  <2>3. submitter' \in [Submitters -> Terminal \cup
                            {"idle", "waiting", "observing", "gone", "refused"}]
    BY <1>2 DEF TypeOK, Complete, Told, Terminal
  <2>4. resting' \subseteq Messages /\ stranded' \subseteq Messages /\ faults' \in Nat
    BY DEF TypeOK, Complete, Success, Excuse, bounds
  <2>5. excuses' \in [Messages -> Nat]
    BY <1>3 DEF TypeOK
  <2> QED
    BY <1>0, <2>1, <2>2, <2>3, <2>4, <2>5 DEF TypeOK, Complete
<1>5. Counting'
  <2>1. m \in Owned /\ Owned' = Owned \ {m}
    BY <1>0 DEF Owned, Outcomes, TypeOK
  <2>2. slots' = Cardinality(Owned')
    BY <1>0, <2>1, OwnedCounted, FS_RemoveElement DEF Counting
  <2> QED
    BY <1>0, <2>2, OutboxAssumption DEF Counting, TypeOK
<1>6. Claimed' /\ Withdrawn'
  BY <1>0, <1>3 DEF Claimed, Withdrawn, TypeOK
<1>7. Accepting'
  BY <1>0, <1>1, <1>2, <1>3 DEF Accepting, TypeOK
<1>8. Absent'
  <2>1. \A n \in Messages : row'[n] = "absent" => n # m /\ row[n] = "absent"
    BY <1>1, <1>2, <1>3 DEF TypeOK
  <2>2. \A n \in Messages \ {m} : \A c \in Of(n) : submitter'[c] = submitter[c]
    BY DEF Complete, Told, Of, TypeOK
  <2>3. \A n \in Messages \ {m} : UNCHANGED excuses[n]
    BY <1>3 DEF TypeOK
  <2> QED
    BY <1>0, <2>1, <2>2, <2>3 DEF Absent
<1>9. AnswersAreTrue'
  <2> SUFFICES ASSUME NEW c \in Submitters, submitter'[c] \in Terminal
               PROVE  /\ row'[MessageOf[c]] \in {submitter'[c], "absent"}
                      /\ submitter'[c] = "sent" => accepted'[MessageOf[c]] > 0
    BY <1>0 DEF AnswersAreTrue, Terminal
  <2>1. MessageOf[c] \in Messages
    BY SetupFacts DEF TypeOK
  <2>2. CASE submitter'[c] = submitter[c]
    <3>1. MessageOf[c] # m
      BY <1>1, <2>2 DEF AnswersAreTrue, Terminal
    <3> QED
      BY <1>0, <1>3, <2>1, <2>2, <3>1 DEF AnswersAreTrue, Terminal, TypeOK
  <2>3. CASE submitter'[c] # submitter[c]
    <3>1. MessageOf[c] = m /\ submitter'[c] = StatusAfter(m)
          /\ row' = [row EXCEPT ![m] = StatusAfter(m)]
      BY <1>1, <2>3 DEF Complete, Told, Of, Mark, TypeOK
    <3> QED
      BY <1>0, <1>2, <3>1 DEF Accepting, TypeOK
  <2> QED
    BY <2>2, <2>3
<1> QED
  BY <1>4, <1>5, <1>6, <1>7, <1>8, <1>9

(* A purged row leaves no way back: its message has expired and no task of  *)
(* it waits (PurgeTerminal).                                                *)
LEMMA CleanUpKeeps == ASSUME IInv, UNCHANGED setup, CleanUp PROVE IInv'
<1> USE DEF IInv
<1>0. /\ UNCHANGED <<accepted, excuses, delivery, tasks, stale, expired, submitter, slots,
                     due, loop, command, MessageOf, Route>>
      /\ \A n \in Messages : UNCHANGED Of(n)
  BY DEF CleanUp, work, callers, bounds, MessageOf, Route, Of
<1>1. \A m \in Messages :
          \/ row'[m] = row[m]
          \/ /\ row'[m] = "absent" /\ row[m] \in Terminal
             /\ m \in expired /\ Of(m) \cap tasks = {}
  BY DEF CleanUp, TypeOK
<1>2. TypeOK'
  BY DEF TypeOK, CleanUp, work, callers, bounds, Terminal
<1>3. Claimed' /\ Accepting' /\ Withdrawn'
  BY <1>0, <1>1 DEF Claimed, Accepting, Withdrawn, Terminal
<1>4. Counting'
  BY <1>0 DEF Counting, Owned
<1>5. Absent'
  BY <1>0, <1>1 DEF Absent
<1>6. AnswersAreTrue'
  BY <1>0, <1>1, SetupFacts DEF AnswersAreTrue, Terminal, TypeOK
<1> QED
  BY <1>2, <1>3, <1>4, <1>5, <1>6

(* A crash excuses what was under delivery, and loses every task.           *)
LEMMA CrashKeeps == ASSUME IInv, UNCHANGED setup, Crash PROVE IInv'
<1> USE DEF IInv
<1>0. /\ UNCHANGED <<row, command, accepted, stale, expired, MessageOf, Route>>
      /\ \A n \in Messages : UNCHANGED Of(n)
      /\ tasks' = {} /\ due' = {} /\ slots' = 0 /\ loop' = "down"
      /\ \A n \in Messages : delivery'[n] = "none"
  BY DEF Crash, table, Abandoned, MessageOf, Route, Of
<1>1. \A n \in Messages :
          excuses'[n] = IF delivery[n] # "none" THEN excuses[n] + 1 ELSE excuses[n]
  BY DEF Crash, Excuse, Owned, TypeOK
<1>2. \A c \in Submitters : submitter'[c] = submitter[c] \/ submitter'[c] = "gone"
  BY DEF Crash
<1>3. TypeOK'
  BY DEF TypeOK, Crash, Excuse, table, Abandoned, Terminal
<1>4. Claimed' /\ Withdrawn'
  BY <1>0 DEF Claimed, Withdrawn
<1>5. Counting'
  <2>1. Owned' = {}
    BY <1>0 DEF Owned
  <2> QED
    BY <1>0, <2>1, FS_EmptySet, OutboxAssumption DEF Counting
<1>6. Accepting'
  BY <1>0, <1>1 DEF Accepting, Claimed, TypeOK
<1>7. Absent'
  BY <1>0, <1>1, <1>2 DEF Absent, Claimed, Terminal, Of
<1>8. AnswersAreTrue'
  BY <1>0, <1>2 DEF AnswersAreTrue, Terminal
<1> QED
  BY <1>3, <1>4, <1>5, <1>6, <1>7, <1>8

-----------------------------------------------------------------------------
(* Every step of the process, its callers and the administrators keeps the  *)
(* invariant, and so does a step that changes none of its variables.        *)
LEMMA NextIInv == IInv /\ [Next]_vars => IInv'
<1> SUFFICES ASSUME IInv, [Next]_vars PROVE IInv'
    OBVIOUS
<1>1. CASE Next
  <2>1. UNCHANGED setup /\ Submitted \subseteq Messages
    BY <1>1, SetupFacts DEF Next, IInv, TypeOK
  <2>2. CASE LoopStep
    BY <2>1, <2>2, StartKeeps, AdministratorsKeep, ReadDueKeeps, TickKeeps, CleanUpKeeps,
       CrashKeeps DEF LoopStep
  <2>3. ASSUME NEW c \in Submitters, CallStep(c) PROVE IInv'
    BY <2>1, <2>3, CallersKeep, IntakeKeeps DEF CallStep
  <2>4. ASSUME NEW m \in Submitted, MessageStep(m) PROVE IInv'
    <3>1. m \in Messages
      BY <2>1
    <3> QED
      BY <2>1, <2>4, <3>1, CallersKeep, AdministratorsKeep, ClaimKeeps, DeliverKeeps,
         CompleteKeeps DEF MessageStep
  <2> QED
    BY <1>1, <2>2, <2>3, <2>4 DEF Next
<1>2. CASE UNCHANGED vars
  BY <1>2 DEF vars, table, work, callers, bounds, IInv, TypeOK, Claimed, Counting, Owned,
              Accepting, Absent, Of, MessageOf, Route, AnswersAreTrue, Withdrawn
<1> QED
  BY <1>1, <1>2

(* The inductive invariant of the mail process: who owns a row under        *)
(* delivery, how the slots are counted, and what a row, a task and an answer*)
(* say of what mail servers took.                                           *)
THEOREM InductiveInvariant == Spec => []IInv
<1>1. Init => IInv
  BY InitIInv
<1>2. IInv /\ [Next]_vars => IInv'
  BY NextIInv
<1> QED
  BY <1>1, <1>2, PTL DEF Spec

(* A delivery goroutine owns its row, and there are never more of them than *)
(* slots (startDueDeliveries, completeDelivery), whatever crashes.          *)
THEOREM SingleOwnerAlways == Spec => []SingleOwner
<1>1. IInv => SingleOwner
  BY DEF IInv, SingleOwner, Claimed, Counting, Owned
<1> QED
  BY <1>1, InductiveInvariant, PTL

(* No retry, resubmission, restart or purge sends again what was taken: each*)
(* acceptance but one has a lost answer, a crash or a failed write before it*)
(* (Insert, Due, Recover, PurgeTerminal).                                   *)
THEOREM NoNeedlessDuplicateAlways == Spec => []NoNeedlessDuplicate
<1>1. IInv => NoNeedlessDuplicate
  BY DEF IInv, NoNeedlessDuplicate, Accepting
<1> QED
  BY <1>1, InductiveInvariant, PTL

(* What a caller of sendEmailNow was told stays the truth of the row        *)
(* (notifyWaiters).                                                         *)
THEOREM AnswersAreTrueAlways == Spec => []AnswersAreTrue
<1>1. IInv => AnswersAreTrue
  BY DEF IInv
<1> QED
  BY <1>1, InductiveInvariant, PTL

(* Mail whose cancellation was confirmed reaches no SMTP server afterwards  *)
(* (ClaimPermitted, cancelStoredMail).                                      *)
THEOREM CancelledIsFinalAlways == Spec => CancelledIsFinal
<1>1. ASSUME IInv, [Next]_vars, NEW m \in Messages, Route[m] = "local",
             command[m] = "cancelled"
      PROVE  accepted'[m] = accepted[m]
  <2>1. delivery[m] # "running"
    BY <1>1 DEF IInv, Withdrawn
  <2>2. CASE UNCHANGED vars
    BY <2>2 DEF vars
  <2>3. CASE LoopStep
    BY <2>3 DEF LoopStep, Start, ApplyPolicy, ReadDue, Tick, CleanUp, Crash
  <2>4. ASSUME NEW c \in Submitters, CallStep(c) PROVE accepted'[m] = accepted[m]
    BY <2>4 DEF CallStep, Submit, Leave, Intake
  <2>5. ASSUME NEW n \in Submitted, Deliver(n) PROVE accepted'[m] = accepted[m]
    <3>1. n # m
      BY <2>1, <2>5 DEF Deliver
    <3> QED
      BY <1>1, <2>5, <3>1 DEF Deliver, Excuse, IInv, TypeOK
  <2>6. ASSUME NEW n \in Submitted, MessageStep(n), ~Deliver(n)
        PROVE  accepted'[m] = accepted[m]
    BY <2>6 DEF MessageStep, Expire, DelayPasses, Claim, Complete, CancelStored,
                CenterCommand, CenterResult, SetBlock
  <2> QED
    BY <1>1, <2>2, <2>3, <2>4, <2>5, <2>6 DEF Next
<1>2. IInv /\ [Next]_vars =>
          [\A m \in Messages : Route[m] = "local" /\ command[m] = "cancelled"
               => accepted'[m] = accepted[m]]_vars
  BY <1>1
<1> QED
  BY <1>2, InductiveInvariant, PTL DEF Spec, CancelledIsFinal
=============================================================================
