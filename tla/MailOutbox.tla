------------------------------ MODULE MailOutbox ------------------------------
(***************************************************************************)
(* The durable mail process of an installation: runDurableMailProcess of   *)
(* sitebrush.go over the mail_outbox table of pkg/mailout.                 *)
(*                                                                         *)
(* Submitters hand tasks to one loop, which stores them, claims what is    *)
(* due for at most Slots delivery goroutines, records how each delivery    *)
(* ended and tells whoever still waits.  Administrators cancel mail and    *)
(* block its sources from other goroutines: every write is a transaction   *)
(* of its own on the serialized control database, and they interleave with *)
(* the loop between its reads and its writes.  Any transaction may fail,   *)
(* the answer of a mail server may be lost, and the process may crash and  *)
(* be started again.                                                       *)
(*                                                                         *)
(* Rows keep their status only; next_attempt_at is abstracted to resting   *)
(* (its delay has not passed), expires_at to expired.                      *)
(***************************************************************************)
EXTENDS Naturals, FiniteSets

CONSTANTS
    Messages,       \* message identities; a resubmission keeps its identity
    Submitters,     \* calls of sendEmailNow or deliverAcceptedServiceMail
    Slots,          \* deliveryConcurrency
    Setups          \* what is submitted, see Setup

(* A setup: the message each call submits, the route of each message        *)
(* (mailout.RouteLocal, which is SMTP, or RouteRelay), and how many failures*)
(* and how many cancellations of a message are considered.                  *)
Setup ==
    [message : [Submitters -> Messages], route : [Messages -> {"local", "relay"}],
     faults : Nat, cancels : Nat]

ASSUME OutboxAssumption ==
    /\ IsFiniteSet(Messages)
    /\ Setups \subseteq Setup
    /\ Slots \in Nat \ {0}

VARIABLES
    setup,      \* what is submitted, which never changes
    row,        \* the status column, or absent
    command,    \* mail_cancel_commands: none, requested, cancelled, too_late
    blocked,    \* messages whose initiator is in mail_ip_blocks
    resting,    \* pending, but the retry delay has not passed
    expired,
    loop,       \* down, select, policy, reading, claiming
    tasks,      \* submitters whose task lies in the channel
    stale,      \* those that created their task after the message expired
    due,        \* records read by Due and not yet claimed
    slots,      \* activeDeliveries
    delivery,   \* the goroutine of a message: none, running, or how it ended
    submitter,  \* what each call knows
    asked,      \* cancellations an administrator asked for
    accepted,   \* ghost: how often a mail server or the relay took the message
    stranded,   \* ghost: left sending by a failed transaction until the next start
    faults,     \* failures, crashes and lost answers so far
    excuses     \* ghost: those after which a message may be sent once more

table   == <<row, command, blocked, resting>>
work    == <<loop, due, slots, delivery>>
callers == <<tasks, stale, submitter>>
bounds  == <<faults, excuses>>
vars == <<setup, table, work, callers, expired, asked, accepted, stranded, bounds>>

MessageOf  == setup.message
Route      == setup.route
MaxFaults  == setup.faults
MaxCancels == setup.cancels
Submitted  == {MessageOf[c] : c \in Submitters}

Terminal == {"sent", "failed", "cancelled"}
Outcomes == {"ok", "permanent", "temporary"}

(* Rows that a goroutine of the running process delivers.                   *)
Owned == {m \in Messages : delivery[m] # "none"}

Of(m) == {c \in Submitters : MessageOf[c] = m}

Init ==
    /\ setup \in Setups
    /\ row = [m \in Messages |-> "absent"]
    /\ command = [m \in Messages |-> "none"]
    /\ blocked = {} /\ resting = {} /\ expired = {}
    /\ loop = "down" /\ tasks = {} /\ stale = {} /\ due = {} /\ slots = 0
    /\ delivery = [m \in Messages |-> "none"]
    /\ submitter = [c \in Submitters |-> "idle"]
    /\ asked = [m \in Messages |-> 0]
    /\ accepted = [m \in Messages |-> 0]
    /\ stranded = {} /\ faults = 0
    /\ excuses = [m \in Messages |-> 0]

Fault   == faults < MaxFaults /\ faults' = faults + 1 /\ UNCHANGED excuses
Excuse(lost) ==
    /\ faults < MaxFaults /\ faults' = faults + 1
    /\ excuses' = [m \in Messages |-> excuses[m] + IF m \in lost THEN 1 ELSE 0]
Success == UNCHANGED bounds

-----------------------------------------------------------------------------
(* Submitters and time *)

Submit(c) ==
    /\ loop # "down" /\ submitter[c] = "idle"
    /\ tasks' = tasks \cup {c}
    /\ stale' = IF MessageOf[c] \in expired THEN stale \cup {c} ELSE stale
    /\ submitter' = [submitter EXCEPT ![c] = "waiting"]
    /\ UNCHANGED <<table, work, expired, asked, accepted, bounds,
                   stranded>>

(* The consumer leaves or its 45 seconds pass; its task stays in the channel.*)
Leave(c) ==
    /\ submitter[c] \in {"waiting", "observing"}
    /\ submitter' = [submitter EXCEPT ![c] = "gone"]
    /\ UNCHANGED <<table, work, tasks, stale, expired, asked, accepted, bounds,
                   stranded>>

Expire(m) ==
    /\ m \in Submitted \ expired
    /\ expired' = expired \cup {m}
    /\ UNCHANGED <<table, work, callers, asked, accepted, bounds,
                   stranded>>

DelayPasses(m) ==
    /\ m \in resting
    /\ resting' = resting \ {m}
    /\ UNCHANGED <<row, command, blocked, work, callers, expired, asked, accepted, bounds,
                   stranded>>

-----------------------------------------------------------------------------
(* The loop *)

\* mutants: an interrupted delivery stays sending; the recovery does not look at the
\* status
RecoverNothing == row

RecoverAll == [m \in Messages |-> IF row[m] # "absent" THEN "pending" ELSE row[m]]

Recovered == [m \in Messages |-> IF row[m] = "sending" THEN "pending" ELSE row[m]]

(* The process starts; a recovery that fails is only logged.                *)
Start ==
    /\ loop = "down"
    /\ loop' = "select"
    /\ \/ Success /\ row' = Recovered /\ stranded' = {}
       \/ /\ Fault /\ UNCHANGED row
          /\ stranded' = {m \in Messages : row[m] = "sending"}
    /\ UNCHANGED <<command, blocked, resting, due, slots, delivery, callers,
                   expired, asked, accepted>>

(* A status that is reached is told to everybody who still observes it.     *)
Told(m, status) ==
    [c \in Submitters |-> IF c \in Of(m) /\ submitter[c] = "observing"
                          THEN status ELSE submitter[c]]

Inform(c, status) == IF submitter[c] = "waiting" THEN [submitter EXCEPT ![c] = status]
                     ELSE submitter

(* A task from the channel.  NormalizeTask refuses one that was created     *)
(* after its expiry.  Insert ignores an identity it already knows; the      *)
(* submitter of a finished one is answered from the row, unless the row     *)
(* cannot be read.                                                          *)
Intake(c) ==
    LET m == MessageOf[c] IN
    /\ loop = "select" /\ c \in tasks
    /\ tasks' = tasks \ {c}
    /\ IF c \in stale
       THEN /\ submitter' = Inform(c, "refused") /\ Success
            /\ UNCHANGED <<row, loop>>
       ELSE \/ /\ Fault /\ submitter' = Inform(c, "refused")
               /\ UNCHANGED <<row, loop>>
            \/ /\ Success /\ loop' = "policy"
               /\ row' = [row EXCEPT ![m] = IF @ = "absent" THEN "pending" ELSE @]
               /\ submitter' = Inform(c, IF row[m] \in Terminal THEN row[m] ELSE "observing")
            \/ /\ row[m] # "absent" /\ Fault /\ loop' = "policy"
               /\ submitter' = Inform(c, "observing")
               /\ UNCHANGED row
    /\ UNCHANGED <<command, blocked, resting, due, slots, delivery, stale, expired,
                   asked, accepted, stranded>>

\* mutant: a message can be recalled while it is delivered
Recall(rows, m) ==
    [rows EXCEPT ![m] = IF @ \in {"pending", "sending"} THEN "cancelled" ELSE @]

(* mailout.Cancel: only what is queued can be cancelled.                    *)
Cancel(rows, m) == [rows EXCEPT ![m] = IF @ = "pending" THEN "cancelled" ELSE @]

(* startDueDeliveries: first the policy is applied, then the due records    *)
(* are read, then each one is claimed.                                      *)
WithoutBlocked(sources) ==
    [m \in Messages |-> IF row[m] = "pending" /\ m \in sources THEN "cancelled" ELSE row[m]]

ApplyPolicy ==
    /\ loop = "policy"
    /\ \/ Success /\ row' = WithoutBlocked(blocked)
                  /\ loop' = IF slots < Slots THEN "reading" ELSE "select"
       \/ Fault /\ loop' = "select" /\ UNCHANGED row
    /\ UNCHANGED <<command, blocked, resting, due, slots, delivery, callers, expired,
                   asked, accepted, stranded>>

ReadDue ==
    LET ripe == {m \in Messages \ resting : row[m] = "pending"} IN
    /\ loop = "reading"
    /\ \/ /\ Success
          /\ \E some \in SUBSET ripe :
                /\ Cardinality(some) <= Slots - slots
                /\ some = ripe \/ Cardinality(some) = Slots - slots
                /\ due' = some
                /\ loop' = IF some = {} THEN "select" ELSE "claiming"
       \/ Fault /\ loop' = "select" /\ UNCHANGED due
    /\ UNCHANGED <<table, slots, delivery, callers, expired, asked, accepted, stranded>>

\* mutant: a claim looks at blocks only
ForbiddenByBlock(m) == m \in blocked

Forbidden(m) == m \in blocked \/ command[m] \in {"requested", "cancelled"}

(* One transaction: a forbidden message is cancelled, another one claimed,  *)
(* if it is still pending.                                                  *)
Claim(m) ==
    /\ loop = "claiming" /\ m \in due
    /\ due' = due \ {m}
    /\ loop' = IF due' = {} THEN "select" ELSE loop
    /\ \/ /\ Success
          /\ IF row[m] # "pending" THEN UNCHANGED <<row, slots, delivery>>
             ELSE IF Forbidden(m)
             THEN /\ row' = Cancel(row, m)
                  /\ UNCHANGED <<slots, delivery>>
             ELSE /\ row' = [row EXCEPT ![m] = "sending"]
                  /\ slots' = slots + 1
                  /\ delivery' = [delivery EXCEPT ![m] = "running"]
       \/ Fault /\ UNCHANGED <<row, slots, delivery>>
    /\ UNCHANGED <<command, blocked, resting, callers, expired, asked, accepted, stranded>>

(* deliverMailRecord.  A server may take a message although its answer is   *)
(* an error or comes too late.                                              *)
Deliver(m) ==
    /\ delivery[m] = "running"
    /\ \/ /\ m \in expired /\ Success
          /\ delivery' = [delivery EXCEPT ![m] = "permanent"]
          /\ UNCHANGED accepted
       \/ /\ m \notin expired /\ Success
          /\ \E outcome \in Outcomes :
                /\ delivery' = [delivery EXCEPT ![m] = outcome]
                /\ accepted' = [accepted EXCEPT ![m] = IF outcome = "ok" THEN @ + 1 ELSE @]
       \/ /\ m \notin expired /\ Excuse({m})
          /\ delivery' = [delivery EXCEPT ![m] = "temporary"]
          /\ accepted' = [accepted EXCEPT ![m] = @ + 1]
    /\ UNCHANGED <<table, loop, due, slots, callers, expired, asked, stranded>>

(* How a finished delivery ends: with the last answer, or with a retry.     *)
StatusAfter(m) ==
    CASE delivery[m] = "ok" -> "sent"
      [] delivery[m] = "permanent" \/ (delivery[m] = "temporary" /\ m \in expired) -> "failed"
      [] OTHER -> "pending"

(* MarkSent and MarkFailed overwrite any status, MarkPending spares a       *)
(* cancelled one.                                                           *)
Mark(m, status) ==
    IF row[m] = "absent" \/ (status = "pending" /\ row[m] = "cancelled") THEN row
    ELSE [row EXCEPT ![m] = status]

(* A completion is recorded in one transaction; when it fails the row stays *)
(* as it is until the next start, and nobody is told.                       *)
Complete(m) ==
    LET status == StatusAfter(m) IN
    /\ loop = "select" /\ delivery[m] \in Outcomes
    /\ loop' = "policy"
    /\ slots' = slots - 1
    /\ delivery' = [delivery EXCEPT ![m] = "none"]
    /\ \/ /\ Success
          /\ row' = Mark(m, status) /\ UNCHANGED stranded
          /\ IF status = "pending"
             THEN resting' = resting \cup {m} /\ UNCHANGED submitter
             ELSE submitter' = Told(m, status) /\ UNCHANGED resting
       \/ /\ Excuse({m}) /\ stranded' = stranded \cup {m}
          /\ UNCHANGED <<row, resting, submitter>>
    /\ UNCHANGED <<command, blocked, due, tasks, stale, expired, asked, accepted>>

(* The ticker: observers of cancelled mail are told, if its row can be read.*)
Tick ==
    /\ loop = "select" /\ loop' = "policy"
    /\ \/ /\ Success
          /\ submitter' = [c \in Submitters |->
                              IF submitter[c] = "observing" /\ row[MessageOf[c]] = "cancelled"
                              THEN "cancelled" ELSE submitter[c]]
       \/ Fault /\ UNCHANGED submitter
    /\ UNCHANGED <<table, due, slots, delivery, tasks, stale, expired, asked,
                   accepted, stranded>>

(* PurgeTerminal, 30 days after the creation: mail expires long before, and *)
(* no task waits in the channel for that long.                              *)
CleanUp ==
    LET aged == {m \in expired : row[m] \in Terminal /\ Of(m) \cap tasks = {}}
    IN
    /\ loop = "select"
    /\ \E old \in SUBSET aged \ {{}} :
          row' = [m \in Messages |-> IF m \in old THEN "absent" ELSE row[m]]
    /\ UNCHANGED <<command, blocked, resting, work, callers, expired, asked, accepted,
                   bounds, stranded>>

-----------------------------------------------------------------------------
(* Administrators and the control contact with the center *)

(* cancelStoredMail.  A decided command is answered again; a message that   *)
(* goes through the relay is confirmed by the center.                       *)
CancelStored(m) ==
    LET cancels == row[m] \in {"pending", "cancelled"}
        verdict == IF row[m] = "absent" \/ Route[m] = "relay" THEN "requested"
                   ELSE IF cancels THEN "cancelled" ELSE "too_late"
    IN
    /\ loop # "down" /\ asked[m] < MaxCancels
    /\ asked' = [asked EXCEPT ![m] = @ + 1]
    /\ IF command[m] \in {"cancelled", "too_late"} THEN UNCHANGED <<row, command>>
       ELSE /\ row' = Cancel(row, m)
            /\ command' = [command EXCEPT ![m] = verdict]
    /\ UNCHANGED <<blocked, resting, work, callers, expired, accepted, bounds,
                   stranded>>

(* syncMailControl: one transaction applies the policy, and then what the   *)
(* answer of the center holds: a command of the center cancels here, and    *)
(* its results decide the commands it was sent.                             *)
CenterCommand(m) ==
    LET verdict == IF row[m] \in {"absent", "pending", "cancelled"} THEN "cancelled"
                   ELSE "too_late"
    IN
    /\ loop # "down" /\ asked[m] < MaxCancels
    /\ asked' = [asked EXCEPT ![m] = @ + 1]
    /\ row' = Cancel(WithoutBlocked(blocked), m)
    /\ command' = [command EXCEPT ![m] = IF @ \in {"none", "requested"} THEN verdict ELSE @]
    /\ UNCHANGED <<blocked, resting, work, callers, expired, accepted, bounds,
                   stranded>>

CenterResult(m) ==
    /\ loop # "down"
    /\ Route[m] = "relay" /\ command[m] = "requested"
    /\ row' = WithoutBlocked(blocked)
    /\ \E verdict \in {"cancelled", "too_late"} :
          command' = [command EXCEPT ![m] = verdict]
    /\ UNCHANGED <<blocked, resting, work, callers, expired, asked, accepted, bounds,
                   stranded>>

(* A source is blocked or released, by an administrator or by a policy of   *)
(* the center; what is pending from blocked sources is cancelled.           *)
SetBlock(m) ==
    /\ loop # "down"
    /\ \E sources \in {blocked \cup {m}, blocked \ {m}} :
          /\ blocked' = sources
          /\ row' = WithoutBlocked(sources)
    /\ UNCHANGED <<command, resting, work, callers, expired, asked, accepted, bounds,
                   stranded>>

Abandoned == [m \in Messages |-> "none"]

(* The process dies, with its channel, its goroutines and its callers.      *)
Crash ==
    /\ loop # "down" /\ Excuse(Owned)
    /\ loop' = "down" /\ tasks' = {} /\ due' = {} /\ slots' = 0
    /\ delivery' = Abandoned
    /\ submitter' = [c \in Submitters |->
                        IF submitter[c] \in {"waiting", "observing"} THEN "gone" ELSE submitter[c]]
    /\ UNCHANGED <<table, stale, expired, asked, accepted, stranded>>

-----------------------------------------------------------------------------
LoopStep == Start \/ ApplyPolicy \/ ReadDue \/ Tick \/ CleanUp \/ Crash

CallStep(c) == Submit(c) \/ Leave(c) \/ Intake(c)

MessageStep(m) ==
    \/ Expire(m) \/ DelayPasses(m) \/ Claim(m) \/ Deliver(m) \/ Complete(m)
    \/ CancelStored(m) \/ CenterCommand(m) \/ CenterResult(m) \/ SetBlock(m)

Next ==
    /\ UNCHANGED setup
    /\ \/ LoopStep
       \/ \E c \in Submitters : CallStep(c)
       \/ \E m \in Submitted : MessageStep(m)

Spec == Init /\ [][Next]_vars

(* Time passes, the service manager starts the process again, deliveries    *)
(* end within their deadline, and the select of the loop takes every kind   *)
(* of message again and again.                                              *)
Loop == ApplyPolicy \/ ReadDue \/ \E m \in Messages : Claim(m)

Fairness ==
    /\ WF_vars(UNCHANGED setup /\ Start)
    /\ WF_vars(UNCHANGED setup /\ Loop)
    /\ SF_vars(UNCHANGED setup /\ Tick)
    /\ SF_vars(UNCHANGED setup /\ \E m \in Messages : Complete(m))
    /\ WF_vars(UNCHANGED setup /\ \E m \in Messages : Deliver(m))
    /\ WF_vars(UNCHANGED setup /\ \E m \in Messages : Expire(m))
    /\ WF_vars(UNCHANGED setup /\ \E m \in Messages : DelayPasses(m))

FairSpec == Spec /\ Fairness

-----------------------------------------------------------------------------
(* Properties *)

TypeOK ==
    /\ setup \in Setups
    /\ row \in [Messages -> Terminal \cup {"absent", "pending", "sending"}]
    /\ command \in [Messages -> {"none", "requested", "cancelled", "too_late"}]
    /\ blocked \subseteq Messages /\ resting \subseteq Messages /\ expired \subseteq Messages
    /\ stranded \subseteq Messages
    /\ loop \in {"down", "select", "policy", "reading", "claiming"}
    /\ tasks \subseteq Submitters /\ stale \subseteq Submitters /\ due \subseteq Messages
    /\ slots \in Nat
    /\ delivery \in [Messages -> Outcomes \cup {"none", "running"}]
    /\ submitter \in [Submitters -> Terminal \cup
                        {"idle", "waiting", "observing", "gone", "refused"}]
    /\ asked \in [Messages -> Nat] /\ accepted \in [Messages -> Nat]
    /\ faults \in Nat /\ excuses \in [Messages -> Nat]

(* A delivery goroutine owns its row: nobody else has it claimed, cancelled *)
(* or finished under it, although MarkSent and MarkFailed do not look at    *)
(* the status they overwrite; and the loop never runs more than its slots.  *)
SingleOwner ==
    /\ TypeOK
    /\ \A m \in Owned : row[m] = "sending"
    /\ slots = Cardinality(Owned) /\ slots <= Slots

(* A message reaches its server once more only if its answer was lost, the  *)
(* process died under its delivery, or the outcome could not be written: no *)
(* resubmission, retry, restart or purge sends again what was taken.        *)
NoNeedlessDuplicate == \A m \in Messages : accepted[m] <= 1 + excuses[m]

(* What a submitter was told stays the truth: the row says the same for as  *)
(* long as it exists, and sent means that a server took the message.        *)
AnswersAreTrue ==
    \A c \in Submitters :
        /\ submitter[c] \in Terminal => row[MessageOf[c]] \in {submitter[c], "absent"}
        /\ submitter[c] = "sent" => accepted[MessageOf[c]] > 0

(* Mail whose cancellation was confirmed never reaches an SMTP server       *)
(* afterwards, whatever was read before and whatever is submitted again     *)
(* ("Durable cancellation tombstones prevent a delayed copy of the same     *)
(* origin/message from restarting the delivery", doc/mail-monitoring.md).   *)
CancelledIsFinal ==
    [][\A m \in Messages :
          Route[m] = "local" /\ command[m] = "cancelled" => accepted'[m] = accepted[m]]_vars

(* Queued mail is settled: it is sent, fails or is cancelled, by its expiry *)
(* at the latest, unless a failed transaction strands it until the next     *)
(* start.                                                                   *)
QueuedMailSettles ==
    \A m \in Messages : row[m] = "pending" ~> (row[m] \in Terminal \/ m \in stranded)

(* Queued mail and scheduled retries can be cancelled (doc/mail-monitoring: *)
(* "The journal offers cancellation for queued mail and scheduled           *)
(* retries").  It does not hold: once a command was answered too_late, the  *)
(* retry that follows a failed attempt is out of its reach.                 *)
QueuedMailCanBeCancelled ==
    [][\A m \in Messages :
          asked'[m] > asked[m] /\ row[m] = "pending" => row'[m] = "cancelled"]_vars
=============================================================================
