----------------------------- MODULE ModelLeases -----------------------------
(***************************************************************************)
(* The leases of model accounts of the control plane: creating, renewing,  *)
(* releasing and reclaiming a lease, the calls reported under it, the      *)
(* lifecycle of devices and the administration of the accounts             *)
(* (store/postgres_model_lease_repository.go, _model_usage_repository.go,  *)
(* _device_lifecycle_repository.go, _model_pool_repository.go and          *)
(* _model_pool_test_repository.go).                                        *)
(*                                                                         *)
(* Each operation is one transaction under one advisory lock               *)
(* (lockNormalizedControlPlaneMutation) and is one step; an operation that *)
(* is refused is rolled back and is no step.  Requests are repeated under  *)
(* their idempotency key after a lost answer, late and in any order.       *)
(*                                                                         *)
(* There is one user, one product and one model; every call costs a token. *)
(* Nothing is swept by a timer: a lease that has run out keeps the status  *)
(* active until an operation looks at it.                                  *)
(***************************************************************************)
EXTENDS Naturals, Sequences, FiniteSets

CONSTANTS
    Accounts,     \* model accounts, numbers: a lower one has priority
    Devices,      \* devices of the user
    Leases,       \* requests to create a lease, each with its key
    RenewKeys,    \* idempotency keys of the renewals of a lease
    Calls,        \* client_call_id values
    Slots,        \* values of concurrency_limit
    Limits,       \* values of an account's daily_token_limit; 0 is unlimited
    UserLimit,    \* daily_token_limit of the user's policy; 0 is unlimited
    Statuses,     \* values an administrator gives to the status of an account
    Duration,     \* of a lease
    Extend,       \* what a renewal adds
    Cooldown,     \* after a failed test
    DayLength,
    MaxTime       \* bound on the clock

LeaseAssumption ==
    /\ Accounts \subseteq Nat /\ Slots \subseteq Nat \ {0} /\ Limits \subseteq Nat
    /\ Statuses \subseteq {"active", "cooldown", "exhausted", "disabled"}
    /\ {Duration, Extend, Cooldown, DayLength} \subseteq Nat \ {0}
    /\ UserLimit \in Nat /\ MaxTime \in Nat

VARIABLES
    now,
    device,    \* status of a device; a pending one belongs to nobody
    taken,     \* devices a disable or unbind request was carried out for
    account,   \* rows of model_accounts; until is 0 for NULL
    lease,     \* rows of model_leases
    renewed,   \* renewals that are in idempotency_records
    rows       \* model_usage_records

vars == <<now, device, taken, account, lease, renewed, rows>>

NoLease == [status |-> "none"]
LeaseRows == [status : {"active", "released", "expired"}, device : Devices,
              account : Accounts, created : Nat, expires : Nat]

TypeOK ==
    /\ now \in 0 .. MaxTime
    /\ device \in [Devices -> {"pending", "active", "disabled"}]
    /\ taken \subseteq Devices
    /\ account \in [Accounts -> [status : {"active", "cooldown", "exhausted", "disabled"},
                                 until : Nat, slots : Slots, limit : Limits]]
    /\ \A l \in Leases : lease[l] = NoLease \/ lease[l] \in LeaseRows
    /\ renewed \subseteq Leases \X RenewKeys
    /\ \A i \in DOMAIN rows : lease[rows[i].lease] # NoLease

Init ==
    /\ now = 0
    /\ device = [d \in Devices |-> "active"]
    /\ taken = {}
    /\ account \in [Accounts -> [status : {"active"}, until : {0}, slots : Slots, limit : Limits]]
    /\ lease = [l \in Leases |-> NoLease]
    /\ renewed = {}
    /\ rows = << >>

Day(time) == time \div DayLength
UsedToday(a) == Cardinality({i \in DOMAIN rows : rows[i].account = a /\ rows[i].day = Day(now)})
UserToday == Cardinality({i \in DOMAIN rows : rows[i].day = Day(now)})

Live(l) == lease[l].status = "active" /\ lease[l].expires > now
Holding(a) == {l \in Leases : Live(l) /\ lease[l].account = a}

\* The row of a lease after it was swept.
Swept(l) ==
    IF lease[l].status = "active" /\ ~Live(l) THEN [lease[l] EXCEPT !.status = "expired"] ELSE lease[l]

\* Faulty variant of Freed: the rows are deleted.
FreedByDelete(S) ==
    [l \in Leases |-> IF lease[l].status = "active" /\ l \in S THEN NoLease ELSE lease[l]]

\* The rows after the active leases of S were given up.
Freed(S) ==
    [l \in Leases |-> IF lease[l].status = "active" /\ l \in S
                      THEN [lease[l] EXCEPT !.status = "released"] ELSE lease[l]]

\* The row of an account after cooldowns that are over and limits that were
\* not reached today were lifted.
Refreshed(a) ==
    LET warm == IF account[a].status = "cooldown" /\ account[a].until # 0 /\ account[a].until <= now
                THEN [account[a] EXCEPT !.status = "active", !.until = 0] ELSE account[a]
    IN  IF warm.status = "exhausted" /\ warm.limit > 0 /\ UsedToday(a) < warm.limit
        THEN [warm EXCEPT !.status = "active"] ELSE warm

\* Faulty variant of Room: the last slot is given away twice.
RoomForOneMore(a) ==
    /\ Refreshed(a).status = "active"
    /\ account[a].limit = 0 \/ UsedToday(a) < account[a].limit
    /\ Cardinality(Holding(a)) <= account[a].slots

\* The account can be handed out.
Room(a) ==
    /\ Refreshed(a).status = "active"
    /\ account[a].limit = 0 \/ UsedToday(a) < account[a].limit
    /\ Cardinality(Holding(a)) < account[a].slots

Create(l, d) ==
    /\ lease[l] = NoLease
    /\ device[d] = "active"
    /\ UserLimit > 0 => UserToday < UserLimit
    /\ \E a \in Accounts :
          /\ Room(a) /\ \A b \in Accounts : Room(b) => a <= b
          /\ lease' = [m \in Leases |->
                         IF m = l THEN [status |-> "active", device |-> d, account |-> a,
                                        created |-> now, expires |-> now + Duration]
                         ELSE Swept(m)]
    /\ account' = [a \in Accounts |-> Refreshed(a)]
    /\ UNCHANGED <<now, device, taken, renewed, rows>>

\* Faulty variant of Renew: a renewal that comes again extends again.
RenewAlways(l, k) ==
    /\ lease[l] # NoLease /\ device[lease[l].device] = "active"
    /\ Swept(l).status = "active" /\ account[lease[l].account].status = "active"
    /\ lease' = [lease EXCEPT ![l].expires = @ + Extend]
    /\ renewed' = renewed \cup {<<l, k>>}
    /\ UNCHANGED <<now, device, taken, account, rows>>

\* Faulty variant of Renew: the lease is not swept first.
RenewUnswept(l, k) ==
    /\ lease[l] # NoLease /\ device[lease[l].device] = "active"
    /\ <<l, k>> \notin renewed
    /\ account[lease[l].account].status = "active"
    /\ lease' = [lease EXCEPT ![l].expires = @ + Extend, ![l].status = "active"]
    /\ renewed' = renewed \cup {<<l, k>>}
    /\ UNCHANGED <<now, device, taken, account, rows>>

Renew(l, k) ==
    /\ lease[l] # NoLease /\ device[lease[l].device] = "active"
    /\ \/ /\ <<l, k>> \in renewed
          /\ lease' = [lease EXCEPT ![l] = Swept(l)]
          /\ UNCHANGED renewed
       \/ /\ <<l, k>> \notin renewed
          /\ Swept(l).status = "active" /\ account[lease[l].account].status = "active"
          /\ lease' = [lease EXCEPT ![l].expires = @ + Extend]
          /\ renewed' = renewed \cup {<<l, k>>}
    /\ UNCHANGED <<now, device, taken, account, rows>>

\* ReleaseModelLease of the client, ReclaimModelLease of an administrator: the
\* latter asks for no device.
Release(l, reclaim) ==
    /\ lease[l] # NoLease /\ (reclaim \/ device[lease[l].device] = "active")
    /\ lease' = [lease EXCEPT ![l] = IF Live(l) THEN [@ EXCEPT !.status = "released"] ELSE Swept(l)]
    /\ UNCHANGED <<now, device, taken, account, renewed, rows>>

\* Faulty variant of Report: only the idempotency key is looked up, not the
\* call of the lease.
ReportAnew(l, c) ==
    /\ lease[l] # NoLease /\ device[lease[l].device] # "pending"
    /\ UserLimit > 0 => UserToday < UserLimit
    /\ rows' = Append(rows, [lease |-> l, call |-> c, account |-> lease[l].account, day |-> Day(now)])
    /\ UNCHANGED <<now, device, taken, account, lease, renewed>>

\* RecordDirectLLMCall, for a lease of any status.  A call that was reported
\* before, under this key or another one, is answered from its row.
Report(l, c) ==
    LET a == lease[l].account
        full == account[a].limit > 0 /\ UsedToday(a) + 1 >= account[a].limit
    IN  /\ lease[l] # NoLease /\ device[lease[l].device] # "pending"
        /\ ~\E i \in DOMAIN rows : rows[i].lease = l /\ rows[i].call = c
        /\ UserLimit > 0 => UserToday < UserLimit
        /\ rows' = Append(rows, [lease |-> l, call |-> c, account |-> a, day |-> Day(now)])
        /\ account' = IF account[a].status # "disabled" /\ full
                      THEN [account EXCEPT ![a].status = "exhausted"] ELSE account
        /\ UNCHANGED <<now, device, taken, lease, renewed>>

OfDevice(d) == {l \in Leases : lease[l] # NoLease /\ lease[l].device = d}

\* Faulty variant of Withdraw: leases that have not run out are kept.
WithdrawAlone(d, status) ==
    /\ device' = [device EXCEPT ![d] = status]
    /\ taken' = taken \cup {d}
    /\ UNCHANGED <<now, account, lease, renewed, rows>>

\* mutateDeviceLifecycle: disable, or unbind.
Withdraw(d, status) ==
    /\ device' = [device EXCEPT ![d] = status]
    /\ taken' = taken \cup {d}
    /\ lease' = Freed(OfDevice(d))
    /\ UNCHANGED <<now, account, renewed, rows>>

\* The same request again: the leases are given up once more, the status is left.
WithdrawAgain(d) ==
    /\ d \in taken
    /\ lease' = Freed(OfDevice(d))
    /\ UNCHANGED <<now, device, taken, account, renewed, rows>>

\* ActivateDevice
Activate(d) ==
    /\ device[d] = "pending"
    /\ device' = [device EXCEPT ![d] = "active"]
    /\ UNCHANGED <<now, taken, account, lease, renewed, rows>>

\* The leases of an account that have run out are expired by every mutation of it.
SweptOf(a) ==
    [l \in Leases |-> IF lease[l] # NoLease /\ lease[l].account = a THEN Swept(l) ELSE lease[l]]

\* Faulty variant of Allowed: the limit may go below what is in use.
AllowedAnySlots(a, status, slots) == status = "disabled" => Holding(a) = {}

\* Faulty variant of Allowed: a general update may disable an account in use.
AllowedAnyStatus(a, status, slots) == Cardinality(Holding(a)) <= slots

Allowed(a, status, slots) ==
    /\ status = "disabled" => Holding(a) = {}
    /\ Cardinality(Holding(a)) <= slots

\* mutateNormalizedModelPoolAccount, one field at a time.
SetStatus(a, status) ==
    /\ Allowed(a, status, account[a].slots)
    /\ account' = [account EXCEPT ![a].status = status,
                                  ![a].until = IF status = "cooldown" THEN @ ELSE 0]
    /\ lease' = SweptOf(a)
    /\ UNCHANGED <<now, device, taken, renewed, rows>>

SetSlots(a, slots) ==
    /\ Allowed(a, account[a].status, slots)
    /\ account' = [account EXCEPT ![a].slots = slots]
    /\ lease' = SweptOf(a)
    /\ UNCHANGED <<now, device, taken, renewed, rows>>

SetLimit(a, limit) ==
    /\ account' = [account EXCEPT ![a].limit = limit]
    /\ lease' = SweptOf(a)
    /\ UNCHANGED <<now, device, taken, renewed, rows>>

\* recordModelPoolAccountTest, whenever the answer of the provider arrives.
RecordTest(a, succeeded) ==
    /\ account[a].status # "disabled"
    /\ account' = [account EXCEPT ![a].status = IF succeeded THEN "active" ELSE "cooldown",
                                  ![a].until = IF succeeded THEN 0 ELSE now + Cooldown]
    /\ UNCHANGED <<now, device, taken, lease, renewed, rows>>

Tick ==
    /\ now < MaxTime
    /\ now' = now + 1
    /\ UNCHANGED <<device, taken, account, lease, renewed, rows>>

Next ==
    \/ \E l \in Leases, d \in Devices : Create(l, d)
    \/ \E l \in Leases, k \in RenewKeys : Renew(l, k)
    \/ \E l \in Leases, reclaim \in BOOLEAN : Release(l, reclaim)
    \/ \E l \in Leases, c \in Calls : Report(l, c)
    \/ \E d \in Devices, status \in {"disabled", "pending"} : Withdraw(d, status)
    \/ \E d \in Devices : WithdrawAgain(d) \/ Activate(d)
    \/ \E a \in Accounts, status \in Statuses : SetStatus(a, status)
    \/ \E a \in Accounts, slots \in Slots : SetSlots(a, slots)
    \/ \E a \in Accounts, limit \in Limits : SetLimit(a, limit)
    \/ \E a \in Accounts, succeeded \in BOOLEAN : RecordTest(a, succeeded)
    \/ Tick

Spec == Init /\ [][Next]_vars

(***************************************************************************)
(* Properties                                                              *)
(***************************************************************************)

\* The leases that run on an account are never more than its concurrency limit,
\* however leases, renewals, limits and the clock interleave
\* (postgres_model_lease_repository.go:180, postgres_model_pool_repository.go:340).
SlotsHold == \A a \in Accounts : Cardinality(Holding(a)) <= account[a].slots

\* A lease in status active belongs to a device that is active: a device that was
\* disabled or unbound holds none, also after it was activated again
\* (postgres_device_lifecycle_repository.go:117).
LeasesOfActiveDevices ==
    \A l \in Leases : lease[l].status = "active" => device[lease[l].device] = "active"

\* Nothing runs on an account that is disabled
\* (postgres_model_pool_repository.go:316 and 337).
DisabledIsIdle == \A a \in Accounts : account[a].status = "disabled" => Holding(a) = {}

\* Leases run on accounts that have a slot for them and are enabled, for devices
\* that are active (creation, renewal, sweep, and what an administrator does).
LeasesHold == SlotsHold /\ LeasesOfActiveDevices /\ DisabledIsIdle

\* A lease ends when its creation and each of its renewals, counted once, say so
\* (RenewModelLease, postgres_model_lease_repository.go:450).
RenewalsCountOnce ==
    \A l \in Leases : lease[l] # NoLease =>
        lease[l].expires = lease[l].created + Duration
                           + Extend * Cardinality({k \in RenewKeys : <<l, k>> \in renewed})

\* A call that is reported several times under different keys is in one row
\* (postgres_model_usage_repository.go:147).
CallsCountOnce ==
    \A i, j \in DOMAIN rows :
        rows[i].lease = rows[j].lease /\ rows[i].call = rows[j].call => i = j

\* Whatever is sent again, under its old key or a new one, counts once: the
\* renewals of a lease and the calls of its client.
RepetitionsCountOnce == RenewalsCountOnce /\ CallsCountOnce

\* A lease that was released, reclaimed or has run out is never used again.
EndedIsEndedStep ==
    \A l \in Leases : lease[l] # NoLease /\ ~Live(l) /\ now' = now
        => lease'[l] # NoLease /\ ~Live(l)' /\ lease'[l].expires = lease[l].expires
EndedIsEnded == [][EndedIsEndedStep]_vars

\* 服务端未完成功能长任务开发计划.md:591: "exhausted" is lifted on a new day.  The
\* query does so only for an account that has a limit (refreshNormalized-
\* ModelAccountAvailability, postgres_model_lease_repository.go:327).
ExhaustedForTheDay ==
    \A a \in Accounts :
        account[a].status = "exhausted" /\ UsedToday(a) = 0 => Refreshed(a).status = "active"
=============================================================================
