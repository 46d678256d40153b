----------------------------- MODULE DeviceSeats -----------------------------
(***************************************************************************)
(* Activation codes, the devices that hold their seats and the sessions    *)
(* that are bound to a device (store/postgres_device_activation_           *)
(* repository.go, postgres_device_lifecycle_repository.go,                 *)
(* postgres_device_heartbeat_repository.go, postgres_activation_           *)
(* repository.go; a login and a logout as session_store.go has them).      *)
(*                                                                         *)
(* Every operation is one transaction under the lock                       *)
(* lockNormalizedControlPlaneMutation; one that is refused is rolled back  *)
(* and is no step.  A session may be rotated: it keeps its device, so the  *)
(* model has one session for all its generations.                          *)
(***************************************************************************)
EXTENDS Naturals, FiniteSets

CONSTANTS
    Users, Devices, Codes, Sessions,
    Owner,       \* the user of a code
    Capacity,    \* max_devices of a code
    Expiry,      \* when a code runs out
    UserOf,      \* the user of a session
    MaxClock     \* bound: steps of the clock

SeatsAssumption ==
    /\ Owner \in [Codes -> Users] /\ UserOf \in [Sessions -> Users]
    /\ Capacity \in [Codes -> Nat \ {0}] /\ Expiry \in [Codes -> Nat \ {0}]
    /\ MaxClock \in Nat

NoUser == "no user"
NoDevice == "no device"
NoCode == "no code"

NamesAssumption == NoUser \notin Users /\ NoDevice \notin Devices /\ NoCode \notin Codes

VARIABLES
    clock,
    status,     \* of a code; "none" before it is created
    bound,      \* bound_devices of a code
    device,     \* status and user of a device; "none" before its first activation
    binding,    \* the code whose seat a device holds, and the user it was bound for
    live,       \* sessions that are not revoked
    on,         \* the device a session is bound to
    answered    \* activations recorded under an idempotency key: user and device

vars == <<clock, status, bound, device, binding, live, on, answered>>
codes == <<status, bound>>
sessions == <<live, on>>

NoBinding == [code |-> NoCode, user |-> NoUser]

TypeOK ==
    /\ clock \in 0 .. MaxClock
    /\ status \in [Codes -> {"none", "active", "used", "revoked"}]
    /\ bound \in [Codes -> Nat]
    /\ device \in [Devices -> [status : {"none", "pending", "active", "disabled"}, user : Users \cup {NoUser}]]
    /\ binding \in [Devices -> [code : Codes, user : Users] \cup {NoBinding}]
    /\ live \in SUBSET Sessions
    /\ on \in [Sessions -> Devices \cup {NoDevice}]
    /\ answered \in SUBSET (Users \X Devices)

Init ==
    /\ clock = 0
    /\ status = [c \in Codes |-> "none"]
    /\ bound = [c \in Codes |-> 0]
    /\ device = [d \in Devices |-> [status |-> "none", user |-> NoUser]]
    /\ binding = [d \in Devices |-> NoBinding]
    /\ live = {}
    /\ on = [s \in Sessions |-> NoDevice]
    /\ answered = {}

Expired(c) == Expiry[c] <= clock

\* A session may act for a device: it is bound to it or to none yet.
MayUse(s, d) == s \in live /\ on[s] \in {d, NoDevice}

\* bindAuthenticatedSession.
Bind(s, d) == on' = [on EXCEPT ![s] = d]

\* GREATEST(bound_devices - 1, 0).
Fewer(n) == IF n = 0 THEN 0 ELSE n - 1

\* The status of a code after a seat was given back: one that was full is
\* active again unless it has expired.
Released(c, st) == [st EXCEPT ![c] = IF @ = "used" /\ ~Expired(c) THEN "active" ELSE @]

\* A code has a seat to give.
Room(c) == status[c] \in {"active", "used"} /\ ~Expired(c) /\ bound[c] < Capacity[c]

\* The device holds a seat for this user already and keeps it.
Reusable(u, d) ==
    /\ device[d] = [status |-> "active", user |-> u]
    /\ binding[d].user = u /\ Owner[binding[d].code] = u /\ ~Expired(binding[d].code)

\* A device that is new, pending, or the user's own and not disabled.
Admitted(u, d) ==
    \/ device[d].status = "none"
    \/ device[d] = [status |-> "pending", user |-> NoUser]
    \/ device[d].user = u /\ device[d].status # "disabled"

\* Faulty variant of Take: the seat the device held before is not given back.
TakeAnother(u, d, c) ==
    /\ bound' = [bound EXCEPT ![c] = @ + 1]
    /\ status' = [status EXCEPT ![c] = IF bound[c] + 1 >= Capacity[c] THEN "used" ELSE "active"]
    /\ binding' = [binding EXCEPT ![d] = [code |-> c, user |-> u]]

\* The device moves to a seat of c; the seat it held before is released.
Take(u, d, c) ==
    LET old == binding[d].code
        gives == binding[d].user = u
    IN  /\ bound' = [x \in Codes |-> IF x = c THEN bound[c] + 1
                                     ELSE IF gives /\ x = old THEN Fewer(bound[x]) ELSE bound[x]]
        /\ status' = [IF gives THEN Released(old, status) ELSE status
                      EXCEPT ![c] = IF bound[c] + 1 >= Capacity[c] THEN "used" ELSE "active"]
        /\ binding' = [binding EXCEPT ![d] = [code |-> c, user |-> u]]

\* ActivateDevice under a new key: the device keeps its seat or takes one of the
\* code of its user that runs out first.
Activate(s, d) ==
    LET u == UserOf[s]
    IN  /\ MayUse(s, d) /\ Admitted(u, d)
        /\ \/ Reusable(u, d) /\ UNCHANGED <<codes, binding>>
           \/ /\ ~Reusable(u, d)
              /\ \E c \in Codes :
                    /\ Owner[c] = u /\ Room(c)
                    /\ \A other \in Codes : Owner[other] = u /\ Room(other) => Expiry[c] <= Expiry[other]
                    /\ Take(u, d, c)
        /\ device' = [device EXCEPT ![d] = [status |-> "active", user |-> u]]
        /\ Bind(s, d)
        /\ answered' = answered \cup {<<u, d>>}
        /\ UNCHANGED <<clock, live>>

\* ActivateDevice under a key that was answered: nothing but the session changes.
Replay(s, d) ==
    LET u == UserOf[s]
    IN  /\ MayUse(s, d) /\ <<u, d>> \in answered
        /\ device[d].user \in {u, NoUser}
        /\ on[s] = NoDevice
        /\ device[d] = [status |-> "active", user |-> u]
        /\ binding[d].user = u /\ ~Expired(binding[d].code)
        /\ Bind(s, d)
        /\ UNCHANGED <<clock, codes, device, binding, live, answered>>

\* A heartbeat binds a session that has no device yet.
Heartbeat(s, d) ==
    /\ MayUse(s, d) /\ device[d] = [status |-> "active", user |-> UserOf[s]]
    /\ Bind(s, d)
    /\ UNCHANGED <<clock, codes, device, binding, live, answered>>

\* Faulty variant of OfDevice: the sessions are left to run out.
OfDeviceNone(d) == {}

\* revokeDeviceSessions.
OfDevice(d) == {s \in live : on[s] = d}

\* Faulty variant of Disable: the seat is given back.
DisableReleases(d) ==
    /\ device[d].status # "none"
    /\ device' = [device EXCEPT ![d].status = "disabled"]
    /\ live' = live \ OfDevice(d)
    /\ IF binding[d] = NoBinding THEN UNCHANGED codes
       ELSE /\ bound' = [bound EXCEPT ![binding[d].code] = Fewer(@)]
            /\ status' = Released(binding[d].code, status)
    /\ binding' = [binding EXCEPT ![d] = NoBinding]
    /\ UNCHANGED <<clock, on, answered>>

\* DisableDevice: the seat is kept.  Its replay revokes the sessions again.
Disable(d) ==
    /\ device[d].status # "none"
    /\ device' = [device EXCEPT ![d].status = "disabled"]
    /\ live' = live \ OfDevice(d)
    /\ UNCHANGED <<clock, codes, binding, on, answered>>

\* The replay of DisableDevice or UnbindDevice, perhaps long after it.
RevokeAgain(d) ==
    /\ device[d].status # "none"
    /\ live' = live \ OfDevice(d)
    /\ UNCHANGED <<clock, codes, device, binding, on, answered>>

\* Faulty variant of Unbind: the code keeps the status it had when it was full.
UnbindFull(d) ==
    /\ device[d].status # "none"
    /\ live' = live \ OfDevice(d)
    /\ IF binding[d] = NoBinding THEN UNCHANGED bound
       ELSE bound' = [bound EXCEPT ![binding[d].code] = Fewer(@)]
    /\ binding' = [binding EXCEPT ![d] = NoBinding]
    /\ device' = [device EXCEPT ![d] = [status |-> "pending", user |-> NoUser]]
    /\ UNCHANGED <<clock, status, on, answered>>

\* UnbindDevice: the seat is given back and the device waits for an activation.
Unbind(d) ==
    /\ device[d].status # "none"
    /\ live' = live \ OfDevice(d)
    /\ IF binding[d] = NoBinding THEN UNCHANGED codes
       ELSE /\ bound' = [bound EXCEPT ![binding[d].code] = Fewer(@)]
            /\ status' = Released(binding[d].code, status)
    /\ binding' = [binding EXCEPT ![d] = NoBinding]
    /\ device' = [device EXCEPT ![d] = [status |-> "pending", user |-> NoUser]]
    /\ UNCHANGED <<clock, on, answered>>

CreateCode(c) ==
    /\ status[c] = "none" /\ ~Expired(c)
    /\ status' = [status EXCEPT ![c] = "active"]
    /\ UNCHANGED <<clock, bound, device, binding, sessions, answered>>

\* Faulty variant of RevokeCode: the status is one that nothing else knows.
RevokeToExpired(c) ==
    /\ status[c] \in {"active", "used"}
    /\ status' = [status EXCEPT ![c] = "expired"]
    /\ UNCHANGED <<clock, bound, device, binding, sessions, answered>>

\* RevokeActivationCode: the devices keep their seats.
RevokeCode(c) ==
    /\ status[c] \in {"active", "used"}
    /\ status' = [status EXCEPT ![c] = "revoked"]
    /\ UNCHANGED <<clock, bound, device, binding, sessions, answered>>

Login(s) ==
    /\ s \notin live
    /\ live' = live \cup {s}
    /\ on' = [on EXCEPT ![s] = NoDevice]
    /\ UNCHANGED <<clock, codes, device, binding, answered>>

Logout(s) ==
    /\ s \in live
    /\ live' = live \ {s}
    /\ UNCHANGED <<clock, codes, device, binding, on, answered>>

\* RevokeByUserID, for a user that is disabled or has a new password.
RevokeUser(u) ==
    /\ \E s \in live : UserOf[s] = u
    /\ live' = {s \in live : UserOf[s] # u}
    /\ UNCHANGED <<clock, codes, device, binding, on, answered>>

\* The retention of idempotency records.
Forget ==
    /\ answered # {}
    /\ answered' = {}
    /\ UNCHANGED <<clock, codes, device, binding, sessions>>

Tick ==
    /\ clock < MaxClock /\ clock' = clock + 1
    /\ UNCHANGED <<codes, device, binding, sessions, answered>>

Next ==
    \/ \E s \in Sessions, d \in Devices : Activate(s, d) \/ Replay(s, d) \/ Heartbeat(s, d)
    \/ \E d \in Devices : Disable(d) \/ RevokeAgain(d) \/ Unbind(d)
    \/ \E c \in Codes : CreateCode(c) \/ RevokeCode(c)
    \/ \E s \in Sessions : Login(s) \/ Logout(s)
    \/ \E u \in Users : RevokeUser(u)
    \/ Forget \/ Tick

Spec == Init /\ [][Next]_vars

(***************************************************************************)
(* Properties                                                              *)
(***************************************************************************)

\* bound_devices is what the bindings say, and never more than max_devices: no
\* activation, replay, move, unbinding or repetition of one counts a seat twice
\* or loses one (postgres_device_activation_repository.go:317-350,
\* postgres_device_lifecycle_repository.go:138-149).
SeatsAreCounted ==
    \A c \in Codes :
        /\ bound[c] = Cardinality({d \in Devices : binding[d].code = c})
        /\ bound[c] <= Capacity[c]

\* A code that is active has a seat to give, and a code is used only when it is
\* full or has run out: a seat that was given back can be taken again
\* (postgres_device_lifecycle_repository.go:143, the status of the code in
\* postgres_device_activation_repository.go:341).
UsedMeansFull ==
    \A c \in Codes :
        /\ status[c] = "active" => bound[c] < Capacity[c]
        /\ status[c] = "used" => bound[c] = Capacity[c] \/ Expired(c)

\* A device has an owner exactly when it holds a seat, of a code of that owner:
\* also while it is disabled, and after its owner came back through another
\* session (postgres_device_activation_repository.go:163-232).
OwnersHoldSeats ==
    \A d \in Devices :
        /\ device[d].user = binding[d].user
        /\ binding[d] # NoBinding => Owner[binding[d].code] = binding[d].user
        /\ device[d].status = "active" => binding[d] # NoBinding

\* A session that is live and bound to a device is a session of the device's
\* owner, and the device is active: whatever the order of activations, replays,
\* heartbeats and of what an administrator does
\* (postgres_device_lifecycle_repository.go:117-125).
SessionsOfTheOwner ==
    \A s \in live : on[s] # NoDevice => device[on[s]] = [status |-> "active", user |-> UserOf[s]]

\* Seats, devices and sessions agree after every order of activations, replays,
\* heartbeats, logouts and of what an administrator does.
SeatsHold ==
    SeatsAreCounted /\ UsedMeansFull /\ OwnersHoldSeats /\ SessionsOfTheOwner

\* 产品需求文档.md:222 and :409: the client of an activation that was revoked does
\* not become usable, so an activation that is answered is one of a code that is
\* not revoked.
ActivatedIsEntitled ==
    [][\A s \in Sessions, d \in Devices :
          Activate(s, d) \/ Replay(s, d) => status[binding'[d].code] # "revoked"]_vars
=============================================================================
