----------------------------- MODULE ModelHealth -----------------------------
(***************************************************************************)
(* The background probes of the model accounts                             *)
(* (service/model_pool_health_scheduler.go) with the test they carry out   *)
(* (service/controlplane.go testModelPoolAccount and                       *)
(* store/postgres_model_pool_test_repository.go) and the advisory lock     *)
(* between the servers (store/postgres_repository.go TryAdvisoryLock).     *)
(*                                                                         *)
(* Several servers run a scheduler each.  A pass takes the lock, lists the *)
(* accounts that are active, and probes those that are not in backoff, so  *)
(* many at a time.  A probe prepares (a transaction that looks up its      *)
(* idempotency key), asks the provider without a transaction, and records  *)
(* the result in a second transaction.  The key of a probe is the account  *)
(* and the scheduler's counter, which starts anew with the process.        *)
(***************************************************************************)
EXTENDS Naturals, FiniteSets

CONSTANTS
    Servers, Accounts,
    MaxConcurrent,   \* probes of a pass at the same time
    Slow,            \* a provider may need longer than the budget of a probe
    MaxSequence,     \* bound: probes of a process
    MaxRestarts,     \* bound: servers that die and come back
    MaxChanges       \* bound: changes of accounts and providers from outside

HealthAssumption ==
    /\ MaxConcurrent \in Nat \ {0} /\ Slow \in BOOLEAN
    /\ {MaxSequence, MaxRestarts, MaxChanges} \subseteq Nat

Nobody == "nobody"

VARIABLES
    status,     \* of an account
    up,         \* the provider of an account answers well
    keys,       \* idempotency records: what was recorded under a key, if anything
    holder,     \* of the advisory lock
    pass,       \* where the loop of a server is
    todo,       \* accounts its pass has selected and not started
    probe,      \* what a server does for an account
    sequence,   \* the counter of the scheduler
    backoff,    \* accounts that wait for their next attempt
    cancelled,  \* the context of the loop
    stop,       \* the caller of Stop
    restarts, changes

account == <<status, up, keys>>
loop == <<pass, todo, probe, sequence, backoff>>
vars == <<status, up, keys, holder, pass, todo, probe, sequence, backoff,
          cancelled, stop, restarts, changes>>

\* "dark": the provider was down when the probe began and is down still;
\* "stored": this probe has recorded a failure.
NoProbe == [at |-> "none", key |-> 0, result |-> "none", dark |-> FALSE, stored |-> FALSE]

Results == {"none", "succeeded", "failed"}

TypeOK ==
    /\ status \in [Accounts -> {"active", "cooldown", "disabled"}]
    /\ up \in [Accounts -> BOOLEAN]
    /\ keys \in [Accounts \X (1 .. MaxSequence) -> Results]
    /\ holder \in Servers \cup {Nobody}
    /\ pass \in [Servers -> {"idle", "locked", "starting", "waiting", "done"}]
    /\ todo \in [Servers -> SUBSET Accounts]
    /\ \A s \in Servers, a \in Accounts :
          /\ probe[s][a].at \in {"none", "started", "prepared", "answered", "returned", "counted"}
          /\ probe[s][a].result \in Results \cup {"timeout", "cancelled", "error"}
    /\ sequence \in [Servers -> 0 .. MaxSequence]
    /\ backoff \in [Servers -> SUBSET Accounts]
    /\ cancelled \in [Servers -> BOOLEAN]
    /\ stop \in [Servers -> {"no", "called", "returned", "gaveUp"}]

Init ==
    /\ status = [a \in Accounts |-> "active"]
    /\ up = [a \in Accounts |-> TRUE]
    /\ keys = [k \in Accounts \X (1 .. MaxSequence) |-> "none"]
    /\ holder = Nobody
    /\ pass = [s \in Servers |-> "idle"]
    /\ todo = [s \in Servers |-> {}]
    /\ probe = [s \in Servers |-> [a \in Accounts |-> NoProbe]]
    /\ sequence = [s \in Servers |-> 0]
    /\ backoff = [s \in Servers |-> {}]
    /\ cancelled = [s \in Servers |-> FALSE]
    /\ stop = [s \in Servers |-> "no"]
    /\ restarts = 0 /\ changes = 0

Running(s) == {a \in Accounts : probe[s][a].at \notin {"none", "counted"}}

\* Faulty variant of TakeLock: every server makes its pass.
TakeLockAnyway(s) ==
    /\ pass[s] = "idle" /\ ~cancelled[s]
    /\ holder' = s
    /\ pass' = [pass EXCEPT ![s] = "locked"]
    /\ UNCHANGED <<account, todo, probe, sequence, backoff, cancelled, stop, restarts, changes>>

\* A tick, and RunOnce up to the lock.  A pass that does not get it is skipped.
TakeLock(s) ==
    /\ pass[s] = "idle" /\ ~cancelled[s]
    /\ holder = Nobody
    /\ holder' = s
    /\ pass' = [pass EXCEPT ![s] = "locked"]
    /\ UNCHANGED <<account, todo, probe, sequence, backoff, cancelled, stop, restarts, changes>>

\* The accounts are listed and selected; a cancelled context ends the pass.
Select(s) ==
    /\ pass[s] = "locked"
    /\ IF cancelled[s]
       THEN todo' = todo /\ pass' = [pass EXCEPT ![s] = "waiting"]
       ELSE /\ todo' = [todo EXCEPT ![s] = {a \in Accounts : status[a] = "active"} \ backoff[s]]
            /\ pass' = [pass EXCEPT ![s] = "starting"]
    /\ probe' = [probe EXCEPT ![s] = [a \in Accounts |-> NoProbe]]
    /\ UNCHANGED <<account, holder, sequence, backoff, cancelled, stop, restarts, changes>>

\* Faulty variant of Slot: the semaphore has no capacity.
SlotAlways(s) == TRUE

\* The semaphore lets one more probe in.
Slot(s) == Cardinality(Running(s)) < MaxConcurrent

\* The loop of RunOnce starts the goroutine of an account, probeOne.
StartProbe(s, a) ==
    /\ pass[s] = "starting" /\ a \in todo[s]
    /\ Slot(s)
    /\ sequence[s] < MaxSequence
    /\ sequence' = [sequence EXCEPT ![s] = @ + 1]
    /\ todo' = [todo EXCEPT ![s] = @ \ {a}]
    /\ probe' = [probe EXCEPT ![s][a] = [NoProbe EXCEPT !.at = "started", !.key = sequence[s] + 1,
                                                       !.dark = ~up[a]]]
    /\ UNCHANGED <<account, holder, pass, backoff, cancelled, stop, restarts, changes>>

\* The accounts are all started, or the context is cancelled.
StopStarting(s) ==
    /\ pass[s] = "starting" /\ (todo[s] = {} \/ cancelled[s])
    /\ pass' = [pass EXCEPT ![s] = "waiting"]
    /\ todo' = [todo EXCEPT ![s] = {}]
    /\ UNCHANGED <<account, holder, probe, sequence, backoff, cancelled, stop, restarts, changes>>

\* PrepareModelPoolAccountTest: what the key stands for already is the result.
Prepare(s, a) ==
    LET known == keys[<<a, probe[s][a].key>>]
    IN  /\ probe[s][a].at = "started"
        /\ probe' = IF cancelled[s]
                    THEN [probe EXCEPT ![s][a].at = "returned", ![s][a].result = "cancelled"]
                    ELSE IF known # "none"
                    THEN [probe EXCEPT ![s][a].at = "returned", ![s][a].result = known]
                    ELSE [probe EXCEPT ![s][a].at = "prepared"]
        /\ UNCHANGED <<account, holder, pass, todo, sequence, backoff, cancelled, stop, restarts, changes>>

\* Faulty variant of Answer: the request has no context of its own.
AnswerOfTheProvider(s, a) ==
    /\ probe[s][a].at = "prepared" /\ ~Slow
    /\ probe' = [probe EXCEPT ![s][a].at = "answered",
                              ![s][a].result = IF up[a] THEN "succeeded" ELSE "failed"]
    /\ UNCHANGED <<account, holder, pass, todo, sequence, backoff, cancelled, stop, restarts, changes>>

\* probeModelPoolAccount: the provider answers, the budget of the probe is used
\* up, or the scheduler is stopped.
Answer(s, a) ==
    /\ probe[s][a].at = "prepared"
    /\ \E result \in {IF up[a] THEN "succeeded" ELSE "failed"}
                     \cup (IF Slow /\ ~up[a] THEN {"timeout"} ELSE {})
                     \cup (IF cancelled[s] THEN {"cancelled"} ELSE {}) :
          probe' = [probe EXCEPT ![s][a].at = "answered", ![s][a].result = result]
    /\ UNCHANGED <<account, holder, pass, todo, sequence, backoff, cancelled, stop, restarts, changes>>

\* Faulty variant of Stores: the transaction belongs to no context.
StoresAlways(s, a) == TRUE

\* A transaction of the probe can still be made: its context has not ended.
Stores(s, a) == ~cancelled[s] /\ probe[s][a].result \notin {"timeout", "cancelled"}

\* RecordModelPoolAccountTest.  An account that was disabled keeps its status; a
\* key that was recorded in the meantime has its result returned.
Record(s, a) ==
    LET k == <<a, probe[s][a].key>>
        result == probe[s][a].result
    IN  /\ probe[s][a].at = "answered"
        /\ \/ /\ ~Stores(s, a)
              /\ probe' = [probe EXCEPT ![s][a].at = "returned",
                                        ![s][a].result = IF cancelled[s] THEN "cancelled" ELSE "error"]
              /\ UNCHANGED account
           \/ /\ Stores(s, a) /\ keys[k] # "none"
              /\ probe' = [probe EXCEPT ![s][a].at = "returned", ![s][a].result = keys[k]]
              /\ UNCHANGED account
           \/ /\ Stores(s, a) /\ keys[k] = "none"
              /\ keys' = [keys EXCEPT ![k] = result]
              /\ status' = IF status[a] = "disabled" THEN status
                           ELSE [status EXCEPT ![a] = IF result = "succeeded" THEN "active" ELSE "cooldown"]
              /\ probe' = [probe EXCEPT ![s][a].at = "returned", ![s][a].stored = result = "failed"]
              /\ UNCHANGED up
    /\ UNCHANGED <<holder, pass, todo, sequence, backoff, cancelled, stop, restarts, changes>>

\* The end of probeOne: recordSuccess, recordFailure, or nothing when the
\* scheduler is stopped.
Count(s, a) ==
    /\ probe[s][a].at = "returned"
    /\ probe' = [probe EXCEPT ![s][a].at = "counted"]
    /\ backoff' = [backoff EXCEPT ![s] =
          IF cancelled[s] THEN @ ELSE IF probe[s][a].result = "succeeded" THEN @ \ {a} ELSE @ \cup {a}]
    /\ UNCHANGED <<account, holder, pass, todo, sequence, cancelled, stop, restarts, changes>>

\* Faulty variant of EndPass: the pass does not wait for its probes.
EndPassAtOnce(s) ==
    /\ pass[s] = "waiting"
    /\ pass' = [pass EXCEPT ![s] = "idle"]
    /\ holder' = Nobody
    /\ UNCHANGED <<account, todo, probe, sequence, backoff, cancelled, stop, restarts, changes>>

\* The last probe has ended and the lock is released.
EndPass(s) ==
    /\ pass[s] = "waiting" /\ Running(s) = {}
    /\ pass' = [pass EXCEPT ![s] = "idle"]
    /\ holder' = Nobody
    /\ UNCHANGED <<account, todo, probe, sequence, backoff, cancelled, stop, restarts, changes>>

\* The next attempt of an account is due.
Due(s, a) ==
    /\ a \in backoff[s]
    /\ backoff' = [backoff EXCEPT ![s] = @ \ {a}]
    /\ UNCHANGED <<account, holder, pass, todo, probe, sequence, cancelled, stop, restarts, changes>>

LoopEnds(s) ==
    /\ pass[s] = "idle" /\ cancelled[s]
    /\ pass' = [pass EXCEPT ![s] = "done"]
    /\ UNCHANGED <<account, holder, todo, probe, sequence, backoff, cancelled, stop, restarts, changes>>

Stop(s) ==
    /\ stop[s] = "no"
    /\ stop' = [stop EXCEPT ![s] = "called"]
    /\ cancelled' = [cancelled EXCEPT ![s] = TRUE]
    /\ UNCHANGED <<account, holder, loop, restarts, changes>>

StopReturns(s) ==
    /\ stop[s] = "called"
    /\ \/ pass[s] = "done" /\ stop' = [stop EXCEPT ![s] = "returned"]
       \/ pass[s] # "done" /\ stop' = [stop EXCEPT ![s] = "gaveUp"]
    /\ UNCHANGED <<account, holder, loop, cancelled, restarts, changes>>

\* A server dies and comes back: its lock goes with its connection.
Restart(s) ==
    /\ restarts < MaxRestarts /\ restarts' = restarts + 1
    /\ holder' = IF holder = s THEN Nobody ELSE holder
    /\ pass' = [pass EXCEPT ![s] = "idle"]
    /\ todo' = [todo EXCEPT ![s] = {}]
    /\ probe' = [probe EXCEPT ![s] = [a \in Accounts |-> NoProbe]]
    /\ sequence' = [sequence EXCEPT ![s] = 0]
    /\ backoff' = [backoff EXCEPT ![s] = {}]
    /\ cancelled' = [cancelled EXCEPT ![s] = FALSE]
    /\ stop' = [stop EXCEPT ![s] = "no"]
    /\ UNCHANGED <<account, changes>>

\* A provider fails or recovers; an administrator sets a status; a cooldown is
\* over and a lease is asked for.
Outside(a) ==
    /\ changes < MaxChanges /\ changes' = changes + 1
    /\ \/ /\ up' = [up EXCEPT ![a] = ~@]
          /\ probe' = [s \in Servers |-> [probe[s] EXCEPT ![a].dark = FALSE]]
          /\ UNCHANGED status
       \/ /\ \E new \in {"active", "disabled"} : status' = [status EXCEPT ![a] = new]
          /\ UNCHANGED <<up, probe>>
    /\ UNCHANGED <<keys, holder, pass, todo, sequence, backoff, cancelled, stop, restarts>>

Works(s) ==
    \/ Select(s) \/ StopStarting(s) \/ EndPass(s) \/ LoopEnds(s)
    \/ \E a \in Accounts : Prepare(s, a) \/ Answer(s, a) \/ Record(s, a) \/ Count(s, a)

Next ==
    \/ \E s \in Servers :
          \/ TakeLock(s) \/ Works(s) \/ Stop(s) \/ StopReturns(s) \/ Restart(s)
          \/ \E a \in Accounts : StartProbe(s, a) \/ Due(s, a)
    \/ \E a \in Accounts : Outside(a)

Spec == Init /\ [][Next]_vars

\* The goroutines of a server go on; contexts bound every request.
Fairness == \A s \in Servers : WF_vars(Works(s))

LiveSpec == Spec /\ Fairness

(***************************************************************************)
(* Properties                                                              *)
(***************************************************************************)

\* All servers together never have more probes under way than one pass may have
\* (the semaphore, the wait and the advisory lock of RunOnce,
\* model_pool_health_scheduler.go:189-278).
ProbesAreBounded ==
    Cardinality({p \in Servers \X Accounts : p[2] \in Running(p[1])}) <= MaxConcurrent

\* A Stop that returned without an error leaves no probe that could still record
\* a result or change the backoff (model_pool_health_scheduler.go:129).
StoppedIsQuiet ==
    \A s \in Servers : stop[s] = "returned" => Running(s) = {} /\ todo[s] = {} /\ holder # s

\* The probes of all servers are bounded, and none outlives the Stop of its server.
ProbesAreHeld == ProbesAreBounded /\ StoppedIsQuiet

\* The comment at model_pool_health_scheduler.go:180: "individual provider
\* failures are stored as account health results".
FailuresAreStored ==
    \A s \in Servers, a \in Accounts :
        probe[s][a].at = "counted" /\ probe[s][a].dark /\ probe[s][a].result # "cancelled"
            => probe[s][a].stored

\* A scheduler that is stopped ends, whatever its probes wait for
\* (model_pool_health_scheduler.go:129, :287).
StoppedEnds == \A s \in Servers : cancelled[s] ~> (pass[s] = "done" \/ ~cancelled[s])
=============================================================================
