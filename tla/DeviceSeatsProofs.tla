-------------------------- MODULE DeviceSeatsProofs --------------------------
(***************************************************************************)
(* Seats, devices and sessions agree, for any number of users, devices,    *)
(* codes and sessions.                                                     *)
(*                                                                         *)
(* The argument goes through the owner of a device.  The row of the device *)
(* and its binding name the same user (OwnersHoldSeats), so a device that  *)
(* gives its seat back has one, and takes another only when the code of    *)
(* the old one has run out: the two codes differ, and each counter moves   *)
(* with its set of devices.                                                *)
(***************************************************************************)
EXTENDS DeviceSeats, FiniteSetTheorems, TLAPS

Seated(c) == {d \in Devices : binding[d].code = c}

\* Only a device that was activated has an owner.
PendingIsFree ==
    \A d \in Devices : device[d].status \in {"none", "pending"} => device[d].user = NoUser

\* A code that was not created has given no seat, and the devices on the seats
\* of a code are finitely many, however many devices there may be.
SeatsAreGiven ==
    \A c \in Codes : /\ IsFiniteSet(Seated(c))
                     /\ status[c] = "none" => bound[c] = 0

Inv == TypeOK /\ PendingIsFree /\ SeatsAreGiven /\ SeatsHold

DeviceRows == [status : {"none", "pending", "active", "disabled"}, user : Users \cup {NoUser}]
BindingRows == [code : Codes, user : Users] \cup {NoBinding}

-----------------------------------------------------------------------------
(* The rows *)

LEMMA ActiveRow ==
    ASSUME NEW d \in Devices, TypeOK, NEW u
    PROVE  device[d] = [status |-> "active", user |-> u] <=> device[d].status = "active" /\ device[d].user = u
  <1>1. device[d] \in DeviceRows
    BY DEF TypeOK, DeviceRows
  <1> QED BY <1>1 DEF DeviceRows

LEMMA BindingRow ==
    ASSUME NEW d \in Devices, TypeOK, NamesAssumption
    PROVE  \/ binding[d] = NoBinding /\ binding[d].code = NoCode /\ binding[d].user = NoUser
           \/ binding[d] # NoBinding /\ binding[d].code \in Codes /\ binding[d].user \in Users
  <1>1. binding[d] \in BindingRows
    BY DEF TypeOK, BindingRows
  <1>2. CASE binding[d] = NoBinding
    BY <1>2 DEF NoBinding
  <1>3. CASE binding[d] \in [code : Codes, user : Users]
    BY <1>3 DEF NoBinding, NamesAssumption
  <1> QED BY <1>1, <1>2, <1>3 DEF BindingRows

\* A device that changes its seat by an activation holds one exactly when its
\* user's name stands in the binding, and the code of that seat has run out.
LEMMA SeatBefore ==
    ASSUME SeatsAssumption, NamesAssumption, Inv,
           NEW d \in Devices, NEW u \in Users, Admitted(u, d), ~Reusable(u, d)
    PROVE  \/ binding[d] = NoBinding /\ binding[d].user # u
           \/ binding[d].user = u /\ binding[d].code \in Codes /\ Expired(binding[d].code)
  <1>1. u # NoUser
    BY DEF NamesAssumption
  <1>2. device[d].user = binding[d].user
    BY DEF Inv, SeatsHold, OwnersHoldSeats
  <1>3. CASE device[d].user = u
    <2>1. device[d].status = "active"
      BY <1>1, <1>3, ActiveRow DEF Admitted, Inv, PendingIsFree, TypeOK, DeviceRows
    <2>2. binding[d] # NoBinding /\ binding[d].code \in Codes /\ Owner[binding[d].code] = u
      BY <1>1, <1>2, <1>3, BindingRow DEF Inv, SeatsHold, OwnersHoldSeats
    <2> QED BY <1>2, <1>3, <2>1, <2>2, ActiveRow DEF Reusable, Inv
  <1>4. CASE device[d].user # u
    <2>1. device[d].user = NoUser
      BY <1>4, ActiveRow DEF Admitted, Inv, PendingIsFree, TypeOK, DeviceRows
    <2> QED BY <1>1, <1>2, <2>1, BindingRow DEF Inv, NamesAssumption
  <1> QED BY <1>3, <1>4

-----------------------------------------------------------------------------
(* What the operations do to codes and bindings *)

\* The seat of d is taken, given back or both.
Takes(d, c) ==
    /\ Room(c)
    /\ Seated(c)' = Seated(c) \cup {d} /\ d \notin Seated(c)
    /\ bound'[c] = bound[c] + 1
    /\ status'[c] = IF bound[c] + 1 >= Capacity[c] THEN "used" ELSE "active"

GivesBack(d, c) ==
    /\ Seated(c)' = Seated(c) \ {d} /\ d \in Seated(c)
    /\ bound'[c] = Fewer(bound[c])
    /\ status'[c] = IF status[c] = "used" /\ ~Expired(c) THEN "active" ELSE status[c]

Keeps(c) ==
    /\ Seated(c)' = Seated(c) /\ bound'[c] = bound[c]
    /\ \/ status'[c] = status[c]
       \/ status[c] = "none" /\ status'[c] = "active"
       \/ status'[c] = "revoked"

LEMMA ActivateCodes ==
    ASSUME SeatsAssumption, NamesAssumption, Inv,
           NEW s \in Sessions, NEW d \in Devices, Activate(s, d), NEW x \in Codes
    PROVE  Keeps(x) \/ Takes(d, x) \/ GivesBack(d, x)
  <1> DEFINE u == UserOf[s]
  <1>0. /\ u \in Users /\ Admitted(u, d) /\ binding \in [Devices -> BindingRows]
        /\ status \in [Codes -> {"none", "active", "used", "revoked"}]
    BY DEF SeatsAssumption, Activate, Inv, TypeOK, BindingRows
  <1>1. CASE Reusable(u, d)
    BY <1>1 DEF Activate, Keeps, Seated, codes
  <1>2. CASE ~Reusable(u, d)
    <2>1. PICK c \in Codes : Room(c) /\ Take(u, d, c)
      BY <1>2 DEF Activate
    <2> DEFINE old == binding[d].code
               gives == binding[d].user = u
    <2>2. \/ binding[d] = NoBinding /\ ~gives /\ old = NoCode
          \/ gives /\ old \in Codes /\ Expired(old)
      BY <1>0, <1>2, SeatBefore DEF NoBinding
    <2>3. c # old
      BY <2>1, <2>2 DEF Room, NamesAssumption
    <2>4. /\ bound' = [y \in Codes |-> IF y = c THEN bound[c] + 1
                                       ELSE IF gives /\ y = old THEN Fewer(bound[y]) ELSE bound[y]]
          /\ binding' = [binding EXCEPT ![d] = [code |-> c, user |-> u]]
      BY <2>1 DEF Take
    <2>5. status'[x] = IF x = c THEN IF bound[c] + 1 >= Capacity[c] THEN "used" ELSE "active"
                       ELSE IF gives /\ x = old /\ status[x] = "used" /\ ~Expired(x) THEN "active"
                       ELSE status[x]
      <3>1. CASE gives
        BY <1>0, <2>1, <2>2, <3>1 DEF Take, Released, NamesAssumption
      <3>2. CASE ~gives
        BY <1>0, <2>1, <3>2 DEF Take
      <3> QED BY <3>1, <3>2
    <2>6. \A e \in Devices : binding'[e].code = IF e = d THEN c ELSE binding[e].code
      BY <1>0, <2>4
    <2>7. CASE x = c
      BY <2>1, <2>3, <2>4, <2>5, <2>6, <2>7 DEF Takes, Seated
    <2>8. CASE x = old /\ x # c
      <3>1. gives
        BY <2>2, <2>8 DEF NamesAssumption
      <3> QED BY <2>4, <2>5, <2>6, <2>8, <3>1 DEF GivesBack, Seated
    <2>9. CASE x # old /\ x # c
      BY <2>4, <2>5, <2>6, <2>9 DEF Keeps, Seated
    <2> QED BY <2>7, <2>8, <2>9
  <1> QED BY <1>1, <1>2

LEMMA UnbindCodes ==
    ASSUME NamesAssumption, Inv, NEW d \in Devices, Unbind(d), NEW x \in Codes
    PROVE  Keeps(x) \/ GivesBack(d, x)
  <1>0. /\ binding \in [Devices -> BindingRows] /\ bound \in [Codes -> Nat]
        /\ status \in [Codes -> {"none", "active", "used", "revoked"}]
    BY DEF Inv, TypeOK, BindingRows
  <1>1. binding' = [binding EXCEPT ![d] = NoBinding]
    BY DEF Unbind
  <1>2. \A e \in Devices : binding'[e].code = IF e = d THEN NoCode ELSE binding[e].code
    BY <1>0, <1>1 DEF NoBinding
  <1>3. x # NoCode
    BY DEF NamesAssumption
  <1>4. CASE binding[d] = NoBinding
    BY <1>2, <1>3, <1>4 DEF Unbind, codes, Keeps, Seated, NoBinding
  <1>5. CASE binding[d] # NoBinding
    <2>1. /\ bound' = [bound EXCEPT ![binding[d].code] = Fewer(@)]
          /\ status' = [status EXCEPT ![binding[d].code] =
                          IF @ = "used" /\ ~Expired(binding[d].code) THEN "active" ELSE @]
      BY <1>5 DEF Unbind, Released
    <2>2. CASE x = binding[d].code
      BY <1>0, <1>2, <1>3, <2>1, <2>2 DEF GivesBack, Seated
    <2>3. CASE x # binding[d].code
      BY <1>0, <1>2, <1>3, <2>1, <2>3 DEF Keeps, Seated
    <2> QED BY <2>2, <2>3
  <1> QED BY <1>4, <1>5

LEMMA CodesStep ==
    ASSUME SeatsAssumption, NamesAssumption, Inv, [Next]_vars, NEW x \in Codes
    PROVE  Keeps(x) \/ \E d \in Devices : Takes(d, x) \/ GivesBack(d, x)
  <1>0. status \in [Codes -> {"none", "active", "used", "revoked"}]
    BY DEF Inv, TypeOK
  <1>1. ASSUME NEW s \in Sessions, NEW d \in Devices, Activate(s, d)
        PROVE  Keeps(x) \/ Takes(d, x) \/ GivesBack(d, x)
    BY <1>1, ActivateCodes
  <1>2. ASSUME NEW d \in Devices, Unbind(d) PROVE Keeps(x) \/ GivesBack(d, x)
    BY <1>2, UnbindCodes
  <1>3. ASSUME NEW c \in Codes, CreateCode(c) \/ RevokeCode(c) PROVE Keeps(x)
    <2>1. /\ bound' = bound /\ binding' = binding
          /\ \/ status[c] = "none" /\ status' = [status EXCEPT ![c] = "active"]
             \/ status' = [status EXCEPT ![c] = "revoked"]
      BY <1>3 DEF CreateCode, RevokeCode
    <2> QED BY <1>0, <2>1 DEF Keeps, Seated
  <1>4. CASE UNCHANGED <<codes, binding>>
    BY <1>4 DEF codes, Keeps, Seated
  <1>5. CASE \/ \E s \in Sessions, d \in Devices : Replay(s, d) \/ Heartbeat(s, d)
             \/ \E d \in Devices : Disable(d) \/ RevokeAgain(d)
             \/ \E s \in Sessions : Login(s) \/ Logout(s)
             \/ \E u \in Users : RevokeUser(u)
             \/ Forget \/ Tick \/ UNCHANGED vars
    <2>1. UNCHANGED <<codes, binding>>
      BY <1>5 DEF Replay, Heartbeat, Disable, RevokeAgain, Login, Logout, RevokeUser, Forget, Tick,
         vars, codes
    <2> QED BY <1>4, <2>1
  <1> QED BY <1>1, <1>2, <1>3, <1>5 DEF Next

-----------------------------------------------------------------------------
(* Types *)

LEMMA TypesStep ==
    ASSUME SeatsAssumption, NamesAssumption, Inv, [Next]_vars PROVE TypeOK'
  <1> USE DEF TypeOK
  <1>0. /\ TypeOK /\ UserOf \in [Sessions -> Users]
        /\ \A n \in Nat : Fewer(n) \in Nat
    BY DEF Inv, SeatsAssumption, Fewer
  <1>b. /\ bound' \in [Codes -> Nat] /\ status' \in [Codes -> {"none", "active", "used", "revoked"}]
    <2>1. ASSUME NEW x \in Codes
          PROVE  bound'[x] \in Nat /\ status'[x] \in {"none", "active", "used", "revoked"}
      BY <1>0, CodesStep DEF Keeps, Takes, GivesBack
    <2>2. DOMAIN bound' = Codes /\ DOMAIN status' = Codes /\ bound' = [x \in Codes |-> bound'[x]]
          /\ status' = [x \in Codes |-> status'[x]]
      <3>1. ASSUME NEW st, st = [x \in Codes |-> st[x]], NEW c
            PROVE  Released(c, st) = [x \in Codes |-> Released(c, st)[x]]
        BY <3>1 DEF Released
      <3>2. /\ bound = [x \in Codes |-> bound[x]] /\ status = [x \in Codes |-> status[x]]
        BY <1>0
      <3>3. ASSUME NEW s \in Sessions, NEW d \in Devices, Activate(s, d)
            PROVE  bound' = [x \in Codes |-> bound'[x]] /\ status' = [x \in Codes |-> status'[x]]
        <4>1. ASSUME NEW u, NEW c, Take(u, d, c)
              PROVE  bound' = [x \in Codes |-> bound'[x]] /\ status' = [x \in Codes |-> status'[x]]
          BY <3>1, <3>2, <4>1 DEF Take
        <4> QED BY <3>2, <3>3, <4>1 DEF Activate, codes
      <3>4. ASSUME NEW d \in Devices, Unbind(d)
            PROVE  bound' = [x \in Codes |-> bound'[x]] /\ status' = [x \in Codes |-> status'[x]]
        BY <3>1, <3>2, <3>4 DEF Unbind, codes
      <3>5. ASSUME NEW c \in Codes, CreateCode(c) \/ RevokeCode(c)
            PROVE  bound' = [x \in Codes |-> bound'[x]] /\ status' = [x \in Codes |-> status'[x]]
        BY <3>2, <3>5 DEF CreateCode, RevokeCode
      <3> QED
        BY <3>2, <3>3, <3>4, <3>5 DEF Next, Replay, Heartbeat, Disable, RevokeAgain, Login, Logout,
           RevokeUser, Forget, Tick, vars, codes
    <2> QED BY <2>1, <2>2
  <1>1. ASSUME NEW s \in Sessions, NEW d \in Devices, Activate(s, d) PROVE TypeOK'
    <2>1. UserOf[s] \in Users
      BY <1>0
    <2>2. ASSUME NEW c \in Codes, Take(UserOf[s], d, c)
          PROVE  binding' \in [Devices -> [code : Codes, user : Users] \cup {NoBinding}]
      BY <1>0, <2>1, <2>2 DEF Take
    <2>3. binding' \in [Devices -> [code : Codes, user : Users] \cup {NoBinding}]
      BY <1>0, <1>1, <2>2 DEF Activate
    <2>4. device' \in [Devices -> DeviceRows]
      BY <1>0, <1>1, <2>1 DEF Activate, DeviceRows
    <2> QED BY <1>0, <1>b, <1>1, <2>1, <2>3, <2>4 DEF Activate, Bind, DeviceRows
  <1>2. ASSUME NEW s \in Sessions, NEW d \in Devices, Replay(s, d) \/ Heartbeat(s, d) PROVE TypeOK'
    BY <1>0, <1>b, <1>2 DEF Replay, Heartbeat, Bind
  <1>3. ASSUME NEW d \in Devices, Disable(d) PROVE TypeOK'
    <2>1. device' \in [Devices -> DeviceRows]
      BY <1>0, <1>3 DEF Disable, DeviceRows
    <2> QED BY <1>0, <1>b, <1>3, <2>1 DEF Disable, DeviceRows
  <1>4. ASSUME NEW d \in Devices, RevokeAgain(d) PROVE TypeOK'
    BY <1>0, <1>b, <1>4 DEF RevokeAgain
  <1>5. ASSUME NEW d \in Devices, Unbind(d) PROVE TypeOK'
    <2>1. device' \in [Devices -> DeviceRows]
      BY <1>0, <1>5 DEF Unbind, DeviceRows
    <2>2. binding' \in [Devices -> [code : Codes, user : Users] \cup {NoBinding}]
      BY <1>0, <1>5 DEF Unbind
    <2> QED BY <1>0, <1>b, <1>5, <2>1, <2>2 DEF Unbind, DeviceRows
  <1>6. ASSUME NEW c \in Codes, CreateCode(c) \/ RevokeCode(c) PROVE TypeOK'
    BY <1>0, <1>b, <1>6 DEF CreateCode, RevokeCode, sessions
  <1>7. ASSUME NEW s \in Sessions, Login(s) \/ Logout(s) PROVE TypeOK'
    BY <1>0, <1>b, <1>7 DEF Login, Logout
  <1>8. ASSUME NEW u \in Users, RevokeUser(u) PROVE TypeOK'
    BY <1>0, <1>b, <1>8 DEF RevokeUser
  <1>9. CASE Forget \/ Tick \/ UNCHANGED vars
    BY <1>0, <1>b, <1>9, SeatsAssumption DEF Forget, Tick, vars, sessions, codes, SeatsAssumption
  <1> QED BY <1>1, <1>2, <1>3, <1>4, <1>5, <1>6, <1>7, <1>8, <1>9 DEF Next

-----------------------------------------------------------------------------
(* The seats *)

LEMMA ClockStep == ASSUME TypeOK, [Next]_vars, NEW c \in Codes, Expired(c), SeatsAssumption PROVE Expired(c)'
  <1>1. clock \in Nat /\ Expiry[c] \in Nat
    BY DEF TypeOK, SeatsAssumption
  <1>2. clock' = clock \/ clock' = clock + 1
    BY DEF Next, Activate, Replay, Heartbeat, Disable, RevokeAgain, Unbind, CreateCode, RevokeCode,
       Login, Logout, RevokeUser, Forget, Tick, vars
  <1> QED BY <1>1, <1>2 DEF Expired

LEMMA SeatsStep ==
    ASSUME SeatsAssumption, NamesAssumption, Inv, [Next]_vars
    PROVE  SeatsAreGiven' /\ SeatsAreCounted' /\ UsedMeansFull'
  <1> SUFFICES ASSUME NEW c \in Codes
               PROVE  /\ IsFiniteSet(Seated(c)')
                      /\ status'[c] = "none" => bound'[c] = 0
                      /\ bound'[c] = Cardinality(Seated(c)')
                      /\ bound'[c] <= Capacity[c]
                      /\ status'[c] = "active" => bound'[c] < Capacity[c]
                      /\ status'[c] = "used" => bound'[c] = Capacity[c] \/ Expired(c)'
    BY DEF SeatsAreGiven, SeatsAreCounted, UsedMeansFull, Seated
  <1>0. /\ IsFiniteSet(Seated(c)) /\ bound[c] \in Nat /\ Capacity[c] \in Nat \ {0}
        /\ status[c] = "none" => bound[c] = 0
        /\ bound[c] = Cardinality(Seated(c)) /\ bound[c] <= Capacity[c]
        /\ status[c] = "active" => bound[c] < Capacity[c]
        /\ status[c] = "used" => bound[c] = Capacity[c] \/ Expired(c)
    BY DEF Inv, TypeOK, SeatsAreGiven, SeatsHold, SeatsAreCounted, UsedMeansFull, SeatsAssumption, Seated
  <1>1. Expired(c) => Expired(c)'
    BY ClockStep DEF Inv
  <1>2. CASE Keeps(c)
    BY <1>0, <1>1, <1>2 DEF Keeps
  <1>3. ASSUME NEW d \in Devices, Takes(d, c)
        PROVE  /\ IsFiniteSet(Seated(c)')
               /\ status'[c] = "none" => bound'[c] = 0
               /\ bound'[c] = Cardinality(Seated(c)')
               /\ bound'[c] <= Capacity[c]
               /\ status'[c] = "active" => bound'[c] < Capacity[c]
               /\ status'[c] = "used" => bound'[c] = Capacity[c] \/ Expired(c)'
    <2>1. IsFiniteSet(Seated(c)') /\ Cardinality(Seated(c)') = Cardinality(Seated(c)) + 1
      BY <1>0, <1>3, FS_AddElement DEF Takes
    <2> QED BY <1>0, <1>3, <2>1 DEF Takes, Room
  <1>4. ASSUME NEW d \in Devices, GivesBack(d, c)
        PROVE  /\ IsFiniteSet(Seated(c)')
               /\ status'[c] = "none" => bound'[c] = 0
               /\ bound'[c] = Cardinality(Seated(c)')
               /\ bound'[c] <= Capacity[c]
               /\ status'[c] = "active" => bound'[c] < Capacity[c]
               /\ status'[c] = "used" => bound'[c] = Capacity[c] \/ Expired(c)'
    <2>1. /\ IsFiniteSet(Seated(c)') /\ Cardinality(Seated(c)') = Cardinality(Seated(c)) - 1
          /\ Seated(c) # {}
      BY <1>0, <1>4, FS_RemoveElement DEF GivesBack
    <2>2. Cardinality(Seated(c)) # 0
      BY <1>0, <2>1, FS_EmptySet
    <2> QED BY <1>0, <1>1, <1>4, <2>1, <2>2 DEF GivesBack, Fewer
  <1> QED BY <1>2, <1>3, <1>4, CodesStep

-----------------------------------------------------------------------------
(* Owners and sessions *)

\* What a step does to the row of a device, with its binding and its sessions.
\* A device that is active goes on for its user, or loses the sessions.
LEMMA DeviceStep ==
    ASSUME SeatsAssumption, NamesAssumption, Inv, [Next]_vars, NEW d \in Devices
    PROVE  \/ device'[d] = device[d] /\ binding'[d] = binding[d]
           \/ /\ \E s \in Sessions : Activate(s, d)
              /\ \E u \in Users : /\ Admitted(u, d) /\ device'[d] = [status |-> "active", user |-> u]
                                  /\ binding'[d].user = u /\ Owner[binding'[d].code] = u
                                  /\ binding'[d] # NoBinding
           \/ /\ device'[d] = [device[d] EXCEPT !.status = "disabled"] /\ device[d].status # "none"
              /\ binding'[d] = binding[d]
              /\ live' = live \ OfDevice(d) /\ on' = on
           \/ /\ device'[d] = [status |-> "pending", user |-> NoUser] /\ binding'[d] = NoBinding
              /\ live' = live \ OfDevice(d) /\ on' = on
  <1>0. device \in [Devices -> DeviceRows] /\ binding \in [Devices -> BindingRows]
    BY DEF Inv, TypeOK, DeviceRows, BindingRows
  <1>1. ASSUME NEW s \in Sessions, NEW e \in Devices, Activate(s, e), e # d
        PROVE  device'[d] = device[d] /\ binding'[d] = binding[d]
    BY <1>0, <1>1 DEF Activate, Take
  <1>2. ASSUME NEW s \in Sessions, Activate(s, d)
        PROVE  \E u \in Users : /\ Admitted(u, d) /\ device'[d] = [status |-> "active", user |-> u]
                                /\ binding'[d].user = u /\ Owner[binding'[d].code] = u
                                /\ binding'[d] # NoBinding
    <2> DEFINE u == UserOf[s]
    <2>1. u \in Users /\ u # NoUser /\ Admitted(u, d) /\ device'[d] = [status |-> "active", user |-> u]
      BY <1>0, <1>2 DEF Activate, SeatsAssumption, NamesAssumption
    <2>2. CASE Reusable(u, d)
      <3>1. binding'[d].user = u /\ Owner[binding'[d].code] = u
        BY <1>2, <2>2 DEF Activate, Reusable
      <3> QED BY <2>1, <3>1 DEF NoBinding
    <2>3. ASSUME NEW c \in Codes, Owner[c] = u, Take(u, d, c)
          PROVE  /\ binding'[d].user = u /\ Owner[binding'[d].code] = u
                 /\ binding'[d] # NoBinding
      <3>1. binding'[d] = [code |-> c, user |-> u]
        BY <1>0, <2>3 DEF Take
      <3> QED BY <2>1, <2>3, <3>1 DEF NoBinding
    <2> QED BY <1>2, <2>1, <2>2, <2>3 DEF Activate
  <1>3. ASSUME NEW e \in Devices, Disable(e) \/ Unbind(e), e # d
        PROVE  device'[d] = device[d] /\ binding'[d] = binding[d]
    BY <1>0, <1>3 DEF Disable, Unbind
  <1>4. CASE Disable(d)
    BY <1>0, <1>4 DEF Disable
  <1>5. CASE Unbind(d)
    BY <1>0, <1>5 DEF Unbind
  <1>6. CASE UNCHANGED <<device, binding>>
    BY <1>6
  <1>7. CASE \/ \E s \in Sessions, e \in Devices : Replay(s, e) \/ Heartbeat(s, e)
             \/ \E e \in Devices : RevokeAgain(e)
             \/ \E c \in Codes : CreateCode(c) \/ RevokeCode(c)
             \/ \E s \in Sessions : Login(s) \/ Logout(s)
             \/ \E u \in Users : RevokeUser(u)
             \/ Forget \/ Tick \/ UNCHANGED vars
    BY <1>6, <1>7 DEF Replay, Heartbeat, RevokeAgain, CreateCode, RevokeCode, Login, Logout,
       RevokeUser, Forget, Tick, vars
  <1> QED BY <1>1, <1>2, <1>3, <1>4, <1>5, <1>7 DEF Next

LEMMA OwnersStep ==
    ASSUME SeatsAssumption, NamesAssumption, Inv, [Next]_vars
    PROVE  OwnersHoldSeats' /\ PendingIsFree'
  <1> SUFFICES ASSUME NEW d \in Devices
               PROVE  /\ device'[d].user = binding'[d].user
                      /\ binding'[d] # NoBinding => Owner[binding'[d].code] = binding'[d].user
                      /\ device'[d].status = "active" => binding'[d] # NoBinding
                      /\ device'[d].status \in {"none", "pending"} => device'[d].user = NoUser
    BY DEF OwnersHoldSeats, PendingIsFree
  <1>0. /\ device[d].user = binding[d].user
        /\ binding[d] # NoBinding => Owner[binding[d].code] = binding[d].user
        /\ device[d].status = "active" => binding[d] # NoBinding
        /\ device[d].status \in {"none", "pending"} => device[d].user = NoUser
        /\ device[d] \in DeviceRows
    BY DEF Inv, SeatsHold, OwnersHoldSeats, PendingIsFree, TypeOK, DeviceRows
  <1>1. CASE device'[d] = device[d] /\ binding'[d] = binding[d]
    BY <1>0, <1>1
  <1>2. ASSUME NEW u \in Users, device'[d] = [status |-> "active", user |-> u],
               binding'[d].user = u, Owner[binding'[d].code] = u, binding'[d] # NoBinding
        PROVE  /\ device'[d].user = binding'[d].user
               /\ binding'[d] # NoBinding => Owner[binding'[d].code] = binding'[d].user
               /\ device'[d].status = "active" => binding'[d] # NoBinding
               /\ device'[d].status \in {"none", "pending"} => device'[d].user = NoUser
    BY <1>2
  <1>3. CASE /\ device'[d] = [device[d] EXCEPT !.status = "disabled"]
             /\ binding'[d] = binding[d]
    <2>1. device'[d].status = "disabled" /\ device'[d].user = device[d].user
      BY <1>0, <1>3 DEF DeviceRows
    <2> QED BY <1>0, <1>3, <2>1
  <1>4. CASE device'[d] = [status |-> "pending", user |-> NoUser] /\ binding'[d] = NoBinding
    BY <1>4 DEF NoBinding
  <1> QED BY <1>1, <1>2, <1>3, <1>4, DeviceStep

\* A session is bound by an operation that finds the device active for its user.
LEMMA SessionStep ==
    ASSUME Inv, TypeOK', [Next]_vars, NEW s \in live', on'[s] # NoDevice
    PROVE  \/ s \in live /\ on'[s] = on[s]
           \/ on'[s] \in Devices /\ device'[on'[s]] = [status |-> "active", user |-> UserOf[s]]
  <1>0. on \in [Sessions -> Devices \cup {NoDevice}] /\ live \in SUBSET Sessions /\ s \in Sessions
        /\ device \in [Devices -> DeviceRows]
    BY DEF Inv, TypeOK, DeviceRows
  <1>1. ASSUME NEW t \in Sessions, NEW d \in Devices, Activate(t, d) \/ Replay(t, d) \/ Heartbeat(t, d)
        PROVE  \/ s \in live /\ on'[s] = on[s]
               \/ on'[s] \in Devices /\ device'[on'[s]] = [status |-> "active", user |-> UserOf[s]]
    <2>1. /\ on' = [on EXCEPT ![t] = d] /\ live' = live
          /\ device'[d] = [status |-> "active", user |-> UserOf[t]]
      BY <1>0, <1>1 DEF Activate, Replay, Heartbeat, Bind
    <2> QED BY <1>0, <2>1
  <1>2. ASSUME NEW t \in Sessions, Login(t) PROVE s \in live /\ on'[s] = on[s]
    BY <1>0, <1>2 DEF Login
  <1>3. CASE \/ \E d \in Devices : Disable(d) \/ RevokeAgain(d) \/ Unbind(d)
             \/ \E c \in Codes : CreateCode(c) \/ RevokeCode(c)
             \/ \E t \in Sessions : Logout(t)
             \/ \E u \in Users : RevokeUser(u)
             \/ Forget \/ Tick \/ UNCHANGED vars
    BY <1>0, <1>3 DEF Disable, RevokeAgain, Unbind, CreateCode, RevokeCode, Logout, RevokeUser,
       Forget, Tick, vars, sessions
  <1> QED BY <1>1, <1>2, <1>3 DEF Next

LEMMA SessionsStep ==
    ASSUME SeatsAssumption, NamesAssumption, Inv, TypeOK', [Next]_vars PROVE SessionsOfTheOwner'
  <1> SUFFICES ASSUME NEW s \in live', on'[s] # NoDevice
               PROVE  device'[on'[s]] = [status |-> "active", user |-> UserOf[s]]
    BY DEF SessionsOfTheOwner
  <1>1. CASE s \in live /\ on'[s] = on[s]
    <2> DEFINE d == on[s]
    <2>0. /\ s \in Sessions /\ d \in Devices
          /\ device[d] = [status |-> "active", user |-> UserOf[s]]
          /\ UserOf[s] \in Users
      BY <1>1 DEF Inv, TypeOK, SeatsHold, SessionsOfTheOwner, SeatsAssumption
    <2>1. CASE device'[d] = device[d]
      BY <1>1, <2>0, <2>1
    <2>2. ASSUME NEW u \in Users, Admitted(u, d), device'[d] = [status |-> "active", user |-> u]
          PROVE  u = UserOf[s]
      BY <2>0, <2>2 DEF Admitted
    <2>3. live' # live \ OfDevice(d)
      BY <1>1 DEF OfDevice
    <2> QED BY <1>1, <2>0, <2>1, <2>2, <2>3, DeviceStep
  <1> QED BY <1>1, SessionStep

-----------------------------------------------------------------------------
(* The theorems *)

LEMMA InvInit == ASSUME SeatsAssumption, NamesAssumption, Init PROVE Inv
  <1> USE DEF Init
  <1>1. TypeOK
    BY DEF TypeOK, SeatsAssumption
  <1>2. \A c \in Codes : Seated(c) = {}
    BY DEF Seated, NoBinding, NamesAssumption
  <1>3. SeatsAreGiven
    BY <1>2, FS_EmptySet DEF SeatsAreGiven
  <1>4. SeatsAreCounted
    <2>1. \A c \in Codes : Cardinality(Seated(c)) = 0
      BY <1>2, FS_EmptySet
    <2>2. \A c \in Codes : bound[c] = 0 /\ Capacity[c] \in Nat
      BY DEF SeatsAssumption
    <2> QED BY <2>1, <2>2 DEF SeatsAreCounted, Seated
  <1>5. UsedMeansFull /\ OwnersHoldSeats /\ SessionsOfTheOwner /\ PendingIsFree
    BY DEF UsedMeansFull, OwnersHoldSeats, SessionsOfTheOwner, PendingIsFree, NoBinding
  <1> QED BY <1>1, <1>3, <1>4, <1>5 DEF Inv, SeatsHold

LEMMA InvStep == ASSUME SeatsAssumption, NamesAssumption, Inv, [Next]_vars PROVE Inv'
  <1>1. TypeOK'
    BY TypesStep
  <1> QED BY <1>1, SeatsStep, OwnersStep, SessionsStep DEF Inv, SeatsHold

LEMMA InvHolds == ASSUME SeatsAssumption, NamesAssumption PROVE Spec => []Inv
  <1>1. Init => Inv
    BY InvInit
  <1>2. Inv /\ [Next]_vars => Inv'
    BY InvStep
  <1> QED BY <1>1, <1>2, PTL DEF Spec

\* The types of the tables of activation codes, devices and sessions.
THEOREM SeatTypes == ASSUME SeatsAssumption, NamesAssumption PROVE Spec => []TypeOK
  <1>1. Inv => TypeOK
    BY DEF Inv
  <1> QED BY <1>1, InvHolds, PTL

\* bound_devices is the number of devices on the seats of a code and at most
\* max_devices, a used code is full or over, an owner has a seat of a code of his,
\* and a live session acts for a device that is active for its user: after every
\* order of activations, replays, heartbeats, logouts and of what an administrator
\* does (postgres_device_activation_repository.go:163-350,
\* postgres_device_lifecycle_repository.go:117-149).
THEOREM SeatsAreHeld == ASSUME SeatsAssumption, NamesAssumption PROVE Spec => []SeatsHold
  <1>1. Inv => SeatsHold
    BY DEF Inv
  <1> QED BY <1>1, InvHolds, PTL
=============================================================================
