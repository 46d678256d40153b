-------------------------- MODULE MCControlPlane ----------------------------
(*****************************************************************************)
(* The components of the control plane, each in the instance that one        *)
(* scenario checks.  The scenarios share nothing: a behaviour is one of a    *)
(* single component.                                                         *)
(*****************************************************************************)
EXTENDS Naturals, Sequences, TLC

CONSTANTS o1, o2, p1, p2, q1, q2, d1, l1, l2, l3, n1, u1, u2, k1, k2, k3, s1, s2, r1, r2, r3

\* The codes k1 (one seat, runs out first) and k2 (two seats) are u1's, k3 (one seat) is u2's.
CodeOwner    == k1 :> u1 @@ k2 :> u1 @@ k3 :> u2
CodeCapacity == k1 :> 1 @@ k2 :> 2 @@ k3 :> 1
CodeExpiry   == k1 :> 1 @@ k2 :> 2 @@ k3 :> 2
SessionUser  == s1 :> u1 @@ s2 :> u2

VARIABLES
    scenario,   \* the instance that runs
    \* AuditOutbox
    status, success, waits, stale, queue, written, done, pc, pass, faults,
    \* ModelHealth
    probeStatus, up, keys, holder, probePass, todo, probe, sequence, backoff, cancelled,
    stop, restarts, changes,
    \* ModelLeases
    now, device, taken, account, lease, renewed, rows,
    \* DeviceSeats
    clock, seatStatus, bound, seatDevice, binding, live, on, answered,
    \* RefreshFamily
    familyRows, locked, request, old, exchanged, ended

outboxVars == <<status, success, waits, stale, queue, written, done, pc, pass, faults>>
healthVars == <<probeStatus, up, keys, holder, probePass, todo, probe, sequence, backoff,
                cancelled, stop, restarts, changes>>
leasedVars == <<now, device, taken, account, lease, renewed, rows>>
seatedVars == <<clock, seatStatus, bound, seatDevice, binding, live, on, answered>>
refreshedVars == <<familyRows, locked, request, old, exchanged, ended>>
vars == <<scenario, outboxVars, healthVars, leasedVars, seatedVars, refreshedVars>>

\* Two operations, one of whose events can not be delivered, and three failures.
Audit == INSTANCE AuditOutbox WITH
    Operations <- {o1, o2}, MaxSends <- 1, Poison <- {<<o1, 1>>}, BatchSize <- 2,
    MaxFaults <- 3

\* Two servers probe two accounts, each twice.
Probes == INSTANCE ModelHealth WITH
    Servers <- {p1, p2}, Accounts <- {q1, q2}, MaxConcurrent <- 1, Slow <- TRUE,
    MaxSequence <- 2, MaxRestarts <- 0, MaxChanges <- 1, status <- probeStatus,
    pass <- probePass

\* Two servers, one of which dies and comes back, probe two accounts.
Restarts == INSTANCE ModelHealth WITH
    Servers <- {p1, p2}, Accounts <- {q1, q2}, MaxConcurrent <- 1, Slow <- TRUE,
    MaxSequence <- 1, MaxRestarts <- 1, MaxChanges <- 1, status <- probeStatus,
    pass <- probePass

\* Three leases of two devices on an account whose slots and status change.
Shares == INSTANCE ModelLeases WITH
    Accounts <- {1}, Extend <- 1, Cooldown <- 1, Duration <- 1, DayLength <- 2,
    MaxTime <- 2, Devices <- {p1, p2}, Leases <- {l1, l2, l3}, Calls <- {}, RenewKeys <- {},
    Slots <- {1, 2}, Limits <- {0}, UserLimit <- 0, Statuses <- {"active", "disabled"}

\* Two leases whose calls are reported and counted against the limits.
Usage == INSTANCE ModelLeases WITH
    Accounts <- {1}, Extend <- 1, Cooldown <- 1, Duration <- 1, DayLength <- 2,
    MaxTime <- 2, Devices <- {d1}, Leases <- {p1, p2}, Calls <- {q1, q2}, RenewKeys <- {n1},
    Slots <- {2}, Limits <- {2}, UserLimit <- 3, Statuses <- {}

\* Two users, each with a session, and three codes for two devices.
Seats == INSTANCE DeviceSeats WITH
    Users <- {u1, u2}, Devices <- {p1, p2}, Codes <- {k1, k2, k3}, Sessions <- {s1, s2},
    Owner <- CodeOwner, Capacity <- CodeCapacity, Expiry <- CodeExpiry,
    UserOf <- SessionUser, MaxClock <- 2, status <- seatStatus, device <- seatDevice

\* Three requests at once on one family of refresh tokens.
Family == INSTANCE RefreshFamily WITH
    Requests <- {r1, r2, r3}, MaxGeneration <- 3, rows <- familyRows

ASSUME AuditValues == Audit!OutboxAssumption
ASSUME ProbesValues == Probes!HealthAssumption
ASSUME RestartsValues == Restarts!HealthAssumption
ASSUME SharesValues == Shares!LeaseAssumption
ASSUME UsageValues == Usage!LeaseAssumption
ASSUME SeatsValues == Seats!SeatsAssumption /\ Seats!NamesAssumption
ASSUME FamilyValues == Family!FamilyAssumption

\* The variables of a part that does not run.
Unused == "unused"
NoOutbox == status = Unused /\ success = Unused /\ waits = Unused /\ stale = Unused /\
             queue = Unused /\ written = Unused /\ done = Unused /\ pc = Unused /\
             pass = Unused /\ faults = Unused
NoHealth == probeStatus = Unused /\ up = Unused /\ keys = Unused /\ holder = Unused /\
             probePass = Unused /\ todo = Unused /\ probe = Unused /\ sequence = Unused /\
             backoff = Unused /\ cancelled = Unused /\ stop = Unused /\ restarts = Unused /\
             changes = Unused
NoLeased == now = Unused /\ device = Unused /\ taken = Unused /\ account = Unused /\
             lease = Unused /\ renewed = Unused /\ rows = Unused
NoSeated == clock = Unused /\ seatStatus = Unused /\ bound = Unused /\
             seatDevice = Unused /\ binding = Unused /\ live = Unused /\ on = Unused /\
             answered = Unused
NoRefreshed == familyRows = Unused /\ locked = Unused /\ request = Unused /\
                old = Unused /\ exchanged = Unused /\ ended = Unused

OnlyOutbox == NoHealth /\ NoLeased /\ NoSeated /\ NoRefreshed
OnlyHealth == NoOutbox /\ NoLeased /\ NoSeated /\ NoRefreshed
OnlyLeased == NoOutbox /\ NoHealth /\ NoSeated /\ NoRefreshed
OnlySeated == NoOutbox /\ NoHealth /\ NoLeased /\ NoRefreshed
OnlyRefreshed == NoOutbox /\ NoHealth /\ NoLeased /\ NoSeated

Init ==
    \/ scenario = "Audit" /\ Audit!Init /\ OnlyOutbox
    \/ scenario = "Probes" /\ Probes!Init /\ OnlyHealth
    \/ scenario = "Restarts" /\ Restarts!Init /\ OnlyHealth
    \/ scenario = "Shares" /\ Shares!Init /\ OnlyLeased
    \/ scenario = "Usage" /\ Usage!Init /\ OnlyLeased
    \/ scenario = "Seats" /\ Seats!Init /\ OnlySeated
    \/ scenario = "Family" /\ Family!Init /\ OnlyRefreshed

Next ==
    /\ UNCHANGED scenario
    /\ \/ scenario = "Audit" /\ Audit!Next /\ UNCHANGED <<healthVars, leasedVars, seatedVars, refreshedVars>>
       \/ scenario = "Probes" /\ Probes!Next /\ UNCHANGED <<outboxVars, leasedVars, seatedVars, refreshedVars>>
       \/ scenario = "Restarts" /\ Restarts!Next /\ UNCHANGED <<outboxVars, leasedVars, seatedVars, refreshedVars>>
       \/ scenario = "Shares" /\ Shares!Next /\ UNCHANGED <<outboxVars, healthVars, seatedVars, refreshedVars>>
       \/ scenario = "Usage" /\ Usage!Next /\ UNCHANGED <<outboxVars, healthVars, seatedVars, refreshedVars>>
       \/ scenario = "Seats" /\ Seats!Next /\ UNCHANGED <<outboxVars, healthVars, leasedVars, refreshedVars>>
       \/ scenario = "Family" /\ Family!Next /\ UNCHANGED <<outboxVars, healthVars, leasedVars, seatedVars>>

Spec == Init /\ [][Next]_vars

Symmetry == Permutations({p1, p2}) \cup Permutations({q1, q2})

-----------------------------------------------------------------------------
\* The types of the variables of every part.
TypeOK ==
    /\ scenario = "Audit" => Audit!TypeOK
    /\ scenario = "Probes" => Probes!TypeOK
    /\ scenario = "Restarts" => Restarts!TypeOK
    /\ scenario = "Shares" => Shares!TypeOK
    /\ scenario = "Usage" => Usage!TypeOK
    /\ scenario = "Seats" => Seats!TypeOK
    /\ scenario = "Family" => Family!TypeOK

\* What happened is audited, before anybody hears of it, and its event is logged once.
AuditIsComplete == scenario = "Audit" => Audit!AuditIsComplete

\* The probes of all servers are bounded, and none outlives the Stop of its server.
ProbesAreHeld ==
    /\ scenario = "Probes" => Probes!ProbesAreHeld
    /\ scenario = "Restarts" => Restarts!ProbesAreHeld

\* Leases run on accounts that have a slot for them and are enabled, for devices that are
\* active (creation, renewal, sweep, and what an administrator does).
LeasesHold == scenario = "Shares" => Shares!LeasesHold

\* Whatever is sent again, under its old key or a new one, counts once: the renewals of a
\* lease and the calls of its client.
RepetitionsCountOnce == scenario = "Usage" => Usage!RepetitionsCountOnce

\* Seats, devices and sessions agree after every order of activations, replays, heartbeats,
\* logouts and of what an administrator does.
SeatsHold == scenario = "Seats" => Seats!SeatsHold

\* A refresh token is good for one exchange, by one request, while its family lives
\* (RotateRefreshToken, RevokeSession and the replay check between them).
TokensAreSpentOnce == scenario = "Family" => Family!TokensAreSpentOnce

=============================================================================
