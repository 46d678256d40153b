------------------------------ MODULE AuditOutbox ------------------------------
(***************************************************************************)
(* The audit outbox of the control plane                                   *)
(* (store/postgres_audit_outbox_repository.go), the requests that put      *)
(* events into it (httpapi/audit.go and the transactions of the domains)   *)
(* and the scheduler that delivers what is left                            *)
(* (service/retention_cleanup_scheduler.go).                               *)
(*                                                                         *)
(* A client performs an operation under one idempotency key and may send   *)
(* it again; every time it has a request id of its own, which makes the    *)
(* dedupe key of its row in audit_outbox.  A transaction is one step;      *)
(* between two transactions everything may happen: other requests, a pass  *)
(* of the scheduler, a minute, a crash of the server.                      *)
(*                                                                         *)
(* Time is relative: a row waits for its next attempt or not, and it was   *)
(* claimed more than the grace of a minute ago or not.  "queue" has the    *)
(* rows in the order of next_attempt_at.                                   *)
(***************************************************************************)
EXTENDS Naturals, Sequences, SequencesExt

CONSTANTS
    Operations,   \* what clients want done, each with its idempotency key
    MaxSends,     \* bound: how often an operation is sent
    Poison,       \* requests whose event can never be delivered
    BatchSize,    \* rows the scheduler claims in a pass
    MaxFaults     \* bound: transactions that fail, and crashes

Requests == Operations \X (1 .. MaxSends)
Scheduler == <<"Scheduler", 0>>
Actors == Requests \cup {Scheduler}

OutboxAssumption ==
    /\ Poison \subseteq Requests
    /\ BatchSize \in Nat \ {0} /\ MaxSends \in Nat \ {0} /\ MaxFaults \in Nat

VARIABLES
    status,    \* of the row of a request; "none" while there is no row
    success,   \* the outcome in its payload
    waits,     \* next_attempt_at is in the future
    stale,     \* updated_at is older than auditOutboxProcessingGrace
    queue,     \* the rows by next_attempt_at
    written,   \* history: rows of audit_logs written for the request
    done,      \* of an operation: its transaction has been committed
    pc,        \* what the server does for a request, or how it answered
    pass,      \* what an actor has claimed and not worked off
    faults

rows == <<status, success, waits, stale, queue>>
vars == <<status, success, waits, stale, queue, written, done, pc, pass, faults>>

NoPass == [claimed |-> << >>, failing |-> FALSE, late |-> FALSE]

TypeOK ==
    /\ status \in [Requests -> {"none", "pending", "processing", "sent"}]
    /\ {success, waits, stale} \subseteq [Requests -> BOOLEAN]
    /\ ToSet(queue) = {r \in Requests : status[r] # "none"} /\ IsInjective(queue)
    /\ written \in [Requests -> Nat]
    /\ done \in [Operations -> BOOLEAN]
    /\ pc \in [Requests -> {"idle", "succeeded", "failed", "recorded", "delivers",
                            "answered", "unavailable", "lost"}]
    /\ \A a \in Actors :
          /\ Len(pass[a].claimed) <= BatchSize /\ ToSet(pass[a].claimed) \subseteq Requests
          /\ pass[a].failing => pass[a].claimed # << >>
    /\ faults \in 0 .. MaxFaults

Init ==
    /\ status = [r \in Requests |-> "none"]
    /\ success = [r \in Requests |-> FALSE]
    /\ waits = [r \in Requests |-> FALSE]
    /\ stale = [r \in Requests |-> FALSE]
    /\ queue = << >>
    /\ written = [r \in Requests |-> 0]
    /\ done = [o \in Operations |-> FALSE]
    /\ pc = [r \in Requests |-> "idle"]
    /\ pass = [a \in Actors |-> NoPass]
    /\ faults = 0

\* A transaction that fails, or a commit whose outcome the server does not learn.
Fault == faults < MaxFaults /\ faults' = faults + 1

Goes(r, where) == pc' = [pc EXCEPT ![r] = where]

(***************************************************************************)
(* Rows.                                                                   *)
(***************************************************************************)
\* A row that is due at once is behind all that are due and before all that wait.
InsertDue(q, r) == SelectSeq(q, LAMBDA s : ~waits[s]) \o <<r>> \o SelectSeq(q, LAMBDA s : waits[s])

\* Faulty variant of Enqueue: a request may have two rows.
EnqueueTwice(r, s) ==
    /\ status' = [status EXCEPT ![r] = "pending"]
    /\ success' = [success EXCEPT ![r] = s]
    /\ queue' = InsertDue(queue, r)
    /\ UNCHANGED <<waits, stale>>

\* INSERT ... ON CONFLICT (dedupe_key) DO NOTHING.
Enqueue(r, s) ==
    IF status[r] # "none"
      THEN UNCHANGED rows
      ELSE /\ status' = [status EXCEPT ![r] = "pending"]
           /\ success' = [success EXCEPT ![r] = s]
           /\ queue' = InsertDue(queue, r)
           /\ UNCHANGED <<waits, stale>>

\* Faulty variant of Claimable: a row whose delivery was interrupted is not taken again.
ClaimableOnce(r) == ~waits[r] /\ status[r] = "pending"

Claimable(r) == ~waits[r] /\ (status[r] = "pending" \/ (status[r] = "processing" /\ stale[r]))

\* The rows of a pass, the earliest next_attempt_at first.
ToClaim(n) ==
    LET due == SelectSeq(queue, Claimable) IN SubSeq(due, 1, IF Len(due) < n THEN Len(due) ELSE n)

\* Faulty variant of Deliver: every delivery writes a log with an id of its own.
DeliverAnew(r) ==
    /\ written' = [written EXCEPT ![r] = @ + 1]
    /\ status' = [status EXCEPT ![r] = IF @ = "processing" THEN "sent" ELSE @]
    /\ UNCHANGED <<success, waits, stale, queue>>

\* The log has the id of the row: ON CONFLICT (id) DO NOTHING; "sent" only from "processing".
Deliver(r) ==
    /\ written' = [written EXCEPT ![r] = 1]
    /\ status' = [status EXCEPT ![r] = IF @ = "processing" THEN "sent" ELSE @]
    /\ UNCHANGED <<success, waits, stale, queue>>

\* markAuditOutboxRetry: a minute after the beginning of the pass, whatever the row is by now.
PutBack(r, late) ==
    LET others == SelectSeq(queue, LAMBDA s : s # r)
    IN  /\ status' = [status EXCEPT ![r] = "pending"]
        /\ waits' = [waits EXCEPT ![r] = ~late]
        /\ stale' = [stale EXCEPT ![r] = FALSE]
        /\ queue' = IF late THEN InsertDue(others, r) ELSE Append(others, r)
        /\ UNCHANGED success

(***************************************************************************)
(* Requests.  An operation is sent again when the answer was that the      *)
(* audit is unavailable or when the connection was lost.                   *)
(***************************************************************************)
Sendable(r) ==
    /\ pc[r] = "idle"
    /\ \A n \in 1 .. r[2] - 1 : pc[<<r[1], n>>] \in {"unavailable", "lost"}

\* Faulty variant of Handles: the event is left to the middleware.
HandlesAlone(r) ==
    /\ Sendable(r)
    /\ done' = [done EXCEPT ![r[1]] = TRUE]
    /\ \/ Goes(r, "succeeded") /\ UNCHANGED faults
       \/ Goes(r, "failed") /\ Fault
    /\ UNCHANGED <<rows, written, pass>>

\* The transaction of the operation and its event, or the replay of its idempotency key.
Handles(r) ==
    /\ Sendable(r)
    /\ done' = [done EXCEPT ![r[1]] = TRUE]
    /\ Enqueue(r, TRUE)
    /\ \/ Goes(r, "succeeded") /\ UNCHANGED faults
       \/ Goes(r, "failed") /\ Fault      \* COMMIT_OUTCOME_UNKNOWN
    /\ UNCHANGED <<written, pass>>

\* The operation is refused or rolled back.
Refuses(r) ==
    /\ Sendable(r)
    /\ Goes(r, "failed")
    /\ UNCHANGED <<rows, written, done, pass, faults>>

\* Faulty variant of Records: an event that could not be stored is only logged.
RecordsIfPossible(r) ==
    /\ pc[r] \in {"succeeded", "failed"}
    /\ \/ Enqueue(r, pc[r] = "succeeded") /\ Goes(r, "recorded") /\ UNCHANGED faults
       \/ UNCHANGED rows /\ Goes(r, "answered") /\ Fault
    /\ UNCHANGED <<written, done, pass>>

\* The middleware: RecordAuditWithOutbox puts the event into the queue.
Records(r) ==
    /\ pc[r] \in {"succeeded", "failed"}
    /\ \/ Enqueue(r, pc[r] = "succeeded") /\ Goes(r, "recorded") /\ UNCHANGED faults
       \/ Enqueue(r, pc[r] = "succeeded") /\ Goes(r, "unavailable") /\ Fault
       \/ UNCHANGED rows /\ Goes(r, "unavailable") /\ Fault
    /\ UNCHANGED <<written, done, pass>>

(***************************************************************************)
(* Passes: DispatchAuditOutbox, of a request with a batch of one and of    *)
(* the scheduler, which has one pass at a time.                            *)
(***************************************************************************)
Batch(a) == IF a = Scheduler THEN BatchSize ELSE 1

Begins(a) == IF a = Scheduler THEN pass[a] = NoPass ELSE pc[a] = "recorded"

\* How a pass ends: the request is answered with its buffered response or with 503.
Returns(a, ok) ==
    IF a = Scheduler THEN UNCHANGED pc ELSE Goes(a, IF ok THEN "answered" ELSE "unavailable")

\* Faulty variant of Claims: the rows are marked as sent when they are claimed.
ClaimsAsSent(a) ==
    /\ Begins(a)
    /\ LET mine == ToClaim(Batch(a))
       IN  /\ pass' = [pass EXCEPT ![a].claimed = mine]
           /\ status' = [r \in Requests |-> IF r \in ToSet(mine) THEN "sent" ELSE status[r]]
           /\ IF mine = << >> THEN Returns(a, TRUE)
              ELSE IF a = Scheduler THEN UNCHANGED pc ELSE Goes(a, "delivers")
    /\ UNCHANGED <<success, waits, stale, queue, written, done, faults>>

Claims(a) ==
    /\ Begins(a)
    /\ LET mine == ToClaim(Batch(a))
       IN  /\ pass' = [pass EXCEPT ![a].claimed = mine]
           /\ status' = [r \in Requests |-> IF r \in ToSet(mine) THEN "processing" ELSE status[r]]
           /\ stale' = [r \in Requests |-> stale[r] /\ r \notin ToSet(mine)]
           /\ IF mine = << >> THEN Returns(a, TRUE)
              ELSE IF a = Scheduler THEN UNCHANGED pc ELSE Goes(a, "delivers")
    /\ UNCHANGED <<success, waits, queue, written, done, faults>>

\* The claim fails and nothing is claimed.
ClaimFails(a) ==
    /\ Begins(a) /\ Fault
    /\ Returns(a, FALSE)
    /\ UNCHANGED <<rows, written, done, pass>>

Delivers(a) ==
    /\ pass[a].claimed # << >> /\ ~pass[a].failing
    /\ LET r == Head(pass[a].claimed)
       IN  r \notin Poison /\ Deliver(r)
    /\ IF Len(pass[a].claimed) = 1
         THEN pass' = [pass EXCEPT ![a] = NoPass] /\ Returns(a, TRUE)
         ELSE pass' = [pass EXCEPT ![a].claimed = Tail(@)] /\ UNCHANGED pc
    /\ UNCHANGED <<done, faults>>

\* The delivery fails: the payload is refused, the transaction fails, or its commit is lost
\* on the way back.
DeliveryFails(a) ==
    /\ pass[a].claimed # << >> /\ ~pass[a].failing
    /\ pass' = [pass EXCEPT ![a].failing = TRUE]
    /\ LET r == Head(pass[a].claimed)
       IN  \/ r \in Poison /\ UNCHANGED <<rows, written, faults>>
           \/ r \notin Poison /\ Fault /\ UNCHANGED <<rows, written>>
           \/ r \notin Poison /\ Fault /\ Deliver(r)
    /\ UNCHANGED <<done, pc>>

\* The row is put back, and the pass ends with its error.
Retries(a) ==
    /\ pass[a].failing
    /\ PutBack(Head(pass[a].claimed), pass[a].late)
    /\ pass' = [pass EXCEPT ![a] = NoPass]
    /\ Returns(a, FALSE)
    /\ UNCHANGED <<written, done, faults>>

\* A pass ends where it is: no transaction can be begun, or the context is over.
Abandons(a) ==
    /\ pass[a].claimed # << >> /\ Fault
    /\ pass' = [pass EXCEPT ![a] = NoPass]
    /\ Returns(a, FALSE)
    /\ UNCHANGED <<rows, written, done>>

(***************************************************************************)
(* The environment.                                                        *)
(***************************************************************************)
Minute ==
    /\ waits' = [r \in Requests |-> FALSE]
    /\ stale' = [r \in Requests |-> status[r] = "processing"]
    /\ pass' = [a \in Actors |-> [pass[a] EXCEPT !.late = pass[a].claimed # << >>]]
    /\ UNCHANGED <<status, success, queue, written, done, pc, faults>>

\* The server crashes and is started again.
Crash ==
    /\ Fault
    /\ \/ \E r \in Requests : pc[r] \in {"succeeded", "failed", "recorded", "delivers"}
       \/ pass[Scheduler] # NoPass
    /\ pass' = [a \in Actors |-> NoPass]
    /\ pc' = [r \in Requests |->
                IF pc[r] \in {"succeeded", "failed", "recorded", "delivers"} THEN "lost" ELSE pc[r]]
    /\ UNCHANGED <<rows, written, done>>

Works(a) == Claims(a) \/ Delivers(a) \/ DeliveryFails(a) \/ Retries(a)

Next ==
    \/ \E r \in Requests : Handles(r) \/ Refuses(r) \/ Records(r)
    \/ \E a \in Actors : Works(a) \/ ClaimFails(a) \/ Abandons(a)
    \/ Minute
    \/ Crash

Spec == Init /\ [][Next]_vars

\* The scheduler's loop goes on, a request that was accepted is worked on, and time passes.
Fairness ==
    /\ \A a \in Actors : WF_vars(Works(a))
    /\ \A r \in Requests : WF_vars(Records(r))
    /\ WF_vars(Minute)

FairSpec == Spec /\ Fairness

(***************************************************************************)
(* Properties.                                                             *)
(***************************************************************************)
\* An event is logged once, however often it is claimed, put back and delivered again.
OneLogPerEvent == \A r \in Requests : written[r] <= 1

\* A row that is not looked at any more has its log: the two are written in one transaction.
SentIsLogged == \A r \in Requests : status[r] = "sent" => written[r] = 1

\* An operation that took effect has an event that says so, even if the server crashed right
\* after the commit or never learned of it (the transaction-local half of the outbox).
DoneIsAudited == \A o \in Operations : done[o] => \E n \in 1 .. MaxSends : status[<<o, n>>] # "none" /\ success[<<o, n>>]

\* A response leaves the server only when its event is stored (auditResponseBuffer).
AnswerIsAudited == \A r \in Requests : pc[r] = "answered" => status[r] # "none"

\* What happened is audited, before anybody hears of it, and its event is logged once.
AuditIsComplete == OneLogPerEvent /\ SentIsLogged /\ DoneIsAudited /\ AnswerIsAudited

\* Every event that can be delivered is logged, also behind one that can not and after a crash.
EventsAreLogged == \A r \in Requests \ Poison : status[r] # "none" ~> written[r] = 1

\* What the plan of the server says: an operation that is sent again leaves no second fact.
OneFactPerOperation ==
    \A o \in Operations : \A n, m \in 1 .. MaxSends :
        status[<<o, n>>] # "none" /\ success[<<o, n>>] /\ status[<<o, m>>] # "none" /\ success[<<o, m>>] => n = m

\* What the plan of the server says: 503 means that the audit could not be stored.  A request
\* whose event is stored, and can be delivered, is not refused for the event of another one.
RefusedForItself ==
    \A r \in Requests \ Poison : pc[r] = "unavailable" /\ faults = 0 => status[r] = "none"
=============================================================================
