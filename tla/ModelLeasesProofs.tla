-------------------------- MODULE ModelLeasesProofs --------------------------
(***************************************************************************)
(* Leases hold and repetitions count once, for any number of accounts,     *)
(* devices, leases, keys and calls.                                        *)
(*                                                                         *)
(* All of it follows from what a step can do to the row of one lease       *)
(* (LeaseStep): leave it, end it, extend it while it runs, or create it.   *)
(* A slot is given away by a creation only, and that one has counted.      *)
(***************************************************************************)
EXTENDS ModelLeases, FiniteSetTheorems, TLAPS

UsageRows == [lease : Leases, call : Calls, account : Accounts, day : Int]
AccountRows == [status : {"active", "cooldown", "exhausted", "disabled"},
                until : Nat, slots : Slots, limit : Limits]

\* The tables.
Types ==
    /\ now \in 0 .. MaxTime
    /\ device \in [Devices -> {"pending", "active", "disabled"}]
    /\ taken \in SUBSET Devices
    /\ account \in [Accounts -> AccountRows]
    /\ lease \in [Leases -> LeaseRows \cup {NoLease}]
    /\ renewed \in SUBSET (Leases \X RenewKeys)
    /\ rows \in Seq(UsageRows)

Given == {l \in Leases : lease[l] # NoLease}
Renewals(l) == {k \in RenewKeys : <<l, k>> \in renewed}

\* What refers to a lease refers to one that was created, and what was created
\* is finite however many requests there may be.
References ==
    /\ IsFiniteSet(Given)
    /\ \A l \in Leases : IsFiniteSet(Renewals(l))
    /\ \A l \in Leases, k \in RenewKeys : <<l, k>> \in renewed => lease[l] # NoLease
    /\ \A i \in DOMAIN rows : lease[rows[i].lease] # NoLease

Inv == Types /\ References /\ LeasesHold /\ RepetitionsCountOnce

-----------------------------------------------------------------------------
(* The types *)

LEMMA SweptType ==
    ASSUME Types, NEW l \in Leases
    PROVE  /\ Swept(l) \in LeaseRows \cup {NoLease}
           /\ Swept(l) = lease[l] \/ (lease[l].status = "active" /\ ~Live(l)
                                      /\ Swept(l) = [lease[l] EXCEPT !.status = "expired"])
  <1>1. lease[l] \in LeaseRows \cup {NoLease}
    BY DEF Types
  <1>2. CASE lease[l] = NoLease
    BY <1>2 DEF Swept, NoLease
  <1>3. CASE lease[l] \in LeaseRows
    BY <1>3 DEF Swept, LeaseRows
  <1> QED BY <1>1, <1>2, <1>3

LEMMA RefreshedType ==
    ASSUME Types, NEW a \in Accounts
    PROVE  /\ Refreshed(a) \in AccountRows
           /\ Refreshed(a).slots = account[a].slots /\ Refreshed(a).limit = account[a].limit
           /\ Refreshed(a).status = "disabled" <=> account[a].status = "disabled"
  <1>1. account[a] \in AccountRows
    BY DEF Types
  <1> DEFINE warm == IF account[a].status = "cooldown" /\ account[a].until # 0 /\ account[a].until <= now
                     THEN [account[a] EXCEPT !.status = "active", !.until = 0] ELSE account[a]
  <1>2. /\ warm \in AccountRows /\ warm.slots = account[a].slots /\ warm.limit = account[a].limit
        /\ warm.status = "disabled" <=> account[a].status = "disabled"
    BY <1>1 DEF AccountRows
  <1>3. Refreshed(a) = warm \/ (warm.status = "exhausted" /\ Refreshed(a) = [warm EXCEPT !.status = "active"])
    BY DEF Refreshed
  <1> HIDE DEF warm
  <1> QED BY <1>2, <1>3 DEF AccountRows

\* The row that Create inserts.
NewLease(d, a) == [status |-> "active", device |-> d, account |-> a,
                   created |-> now, expires |-> now + Duration]

LEMMA NewLeaseType ==
    ASSUME LeaseAssumption, Types, NEW d \in Devices, NEW a \in Accounts
    PROVE  NewLease(d, a) \in LeaseRows
  <1>1. now \in Nat /\ Duration \in Nat
    BY DEF Types, LeaseAssumption
  <1> QED BY <1>1 DEF NewLease, LeaseRows

LEMMA TypesStep == ASSUME LeaseAssumption, Types, [Next]_vars PROVE Types'
  <1>0. /\ Accounts \subseteq Nat /\ Extend \in Nat /\ Cooldown \in Nat /\ DayLength \in Nat \ {0}
        /\ MaxTime \in Nat /\ Statuses \subseteq {"active", "cooldown", "exhausted", "disabled"}
    BY DEF LeaseAssumption
  <1>1. ASSUME NEW l \in Leases, NEW d \in Devices, Create(l, d) PROVE Types'
    <2>1. PICK a \in Accounts :
            lease' = [m \in Leases |-> IF m = l THEN NewLease(d, a) ELSE Swept(m)]
      BY <1>1 DEF Create, NewLease
    <2>2. lease' \in [Leases -> LeaseRows \cup {NoLease}]
      BY <2>1, NewLeaseType, SweptType
    <2>3. account' \in [Accounts -> AccountRows]
      BY <1>1, RefreshedType DEF Create
    <2> QED BY <1>1, <2>2, <2>3 DEF Create, Types
  <1>2. ASSUME NEW l \in Leases, NEW k \in RenewKeys, Renew(l, k) PROVE Types'
    <2>1. lease' = [lease EXCEPT ![l] = Swept(l)] \/ lease' = [lease EXCEPT ![l].expires = @ + Extend]
      BY <1>2 DEF Renew
    <2>2. lease[l] \in LeaseRows
      BY <1>2 DEF Renew, Types
    <2>3. [lease[l] EXCEPT !.expires = @ + Extend] \in LeaseRows
      BY <1>0, <2>2 DEF LeaseRows
    <2>4. lease' \in [Leases -> LeaseRows \cup {NoLease}]
      BY <2>1, <2>3, SweptType DEF Types
    <2> QED BY <1>2, <2>4 DEF Renew, Types
  <1>3. ASSUME NEW l \in Leases, NEW reclaim \in BOOLEAN, Release(l, reclaim) PROVE Types'
    <2>1. lease[l] \in LeaseRows
      BY <1>3 DEF Release, Types
    <2>2. [lease[l] EXCEPT !.status = "released"] \in LeaseRows
      BY <2>1 DEF LeaseRows
    <2>3. lease' \in [Leases -> LeaseRows \cup {NoLease}]
      BY <1>3, <2>2, SweptType DEF Release, Types
    <2> QED BY <1>3, <2>3 DEF Release, Types
  <1>4. ASSUME NEW l \in Leases, NEW c \in Calls, Report(l, c) PROVE Types'
    <2>1. lease[l].account \in Accounts
      BY <1>4 DEF Report, Types, LeaseRows
    <2>2. Day(now) \in Int
      BY <1>0 DEF Day, Types
    <2>3. [lease |-> l, call |-> c, account |-> lease[l].account, day |-> Day(now)] \in UsageRows
      BY <2>1, <2>2 DEF UsageRows
    <2>4. rows' \in Seq(UsageRows)
      BY <1>4, <2>3 DEF Report, Types
    <2>5. account' \in [Accounts -> AccountRows]
      <3>1. account \in [Accounts -> AccountRows]
        BY DEF Types
      <3>2. [account[lease[l].account] EXCEPT !.status = "exhausted"] \in AccountRows
        BY <2>1, <3>1 DEF AccountRows
      <3>3. \/ account' = account
            \/ account' = [account EXCEPT ![lease[l].account].status = "exhausted"]
        BY <1>4 DEF Report
      <3> QED BY <2>1, <3>1, <3>2, <3>3
    <2>6. UNCHANGED <<now, device, taken, lease, renewed>>
      BY <1>4 DEF Report
    <2> QED BY <2>4, <2>5, <2>6 DEF Types
  <1>5. ASSUME NEW S \in SUBSET Leases PROVE Freed(S) \in [Leases -> LeaseRows \cup {NoLease}]
    <2>1. ASSUME NEW l \in Leases PROVE Freed(S)[l] \in LeaseRows \cup {NoLease}
      <3>1. lease[l] \in LeaseRows \cup {NoLease}
        BY DEF Types
      <3>2. \A row \in LeaseRows : [row EXCEPT !.status = "released"] \in LeaseRows
        BY DEF LeaseRows
      <3>3. lease[l] = NoLease => lease[l].status # "active"
        BY DEF NoLease
      <3> QED BY <3>1, <3>2, <3>3 DEF Freed
    <2> QED BY <2>1 DEF Freed
  <1>6. ASSUME NEW d \in Devices, NEW st \in {"disabled", "pending"}, Withdraw(d, st) PROVE Types'
    BY <1>5, <1>6 DEF Withdraw, Types, OfDevice
  <1>7. ASSUME NEW d \in Devices, WithdrawAgain(d) \/ Activate(d) PROVE Types'
    BY <1>5, <1>7 DEF WithdrawAgain, Activate, Types, OfDevice
  <1>8. ASSUME NEW a \in Accounts PROVE SweptOf(a) \in [Leases -> LeaseRows \cup {NoLease}]
    BY SweptType DEF SweptOf, Types
  <1>9. ASSUME NEW a \in Accounts, NEW st \in Statuses, SetStatus(a, st) PROVE Types'
    <2> DEFINE new == [account[a] EXCEPT !.status = st, !.until = IF st = "cooldown" THEN @ ELSE 0]
    <2>1. new \in AccountRows
      <3>1. account[a] \in AccountRows
        BY DEF Types
      <3>2. st \in {"active", "cooldown", "exhausted", "disabled"}
        BY <1>0
      <3> QED BY <3>1, <3>2 DEF AccountRows
    <2>2. account' = [account EXCEPT ![a] = new]
      <3>1. account \in [Accounts -> AccountRows]
        BY DEF Types
      <3>2. account' = [account EXCEPT ![a].status = st,
                                       ![a].until = IF st = "cooldown" THEN @ ELSE 0]
        BY <1>9 DEF SetStatus
      <3> QED BY <3>1, <3>2 DEF AccountRows
    <2>3. account' \in [Accounts -> AccountRows]
      BY <2>1, <2>2 DEF Types
    <2> QED BY <1>8, <1>9, <2>3 DEF SetStatus, Types
  <1>10. ASSUME NEW a \in Accounts, NEW n \in Slots, SetSlots(a, n) PROVE Types'
    <2>1. account \in [Accounts -> AccountRows] /\ account' = [account EXCEPT ![a].slots = n]
      BY <1>10 DEF SetSlots, Types
    <2>2. account' \in [Accounts -> AccountRows]
      BY <2>1 DEF AccountRows
    <2> QED BY <1>8, <1>10, <2>2 DEF SetSlots, Types
  <1>11. ASSUME NEW a \in Accounts, NEW n \in Limits, SetLimit(a, n) PROVE Types'
    <2>1. account \in [Accounts -> AccountRows] /\ account' = [account EXCEPT ![a].limit = n]
      BY <1>11 DEF SetLimit, Types
    <2>2. account' \in [Accounts -> AccountRows]
      BY <2>1 DEF AccountRows
    <2> QED BY <1>8, <1>11, <2>2 DEF SetLimit, Types
  <1>12. ASSUME NEW a \in Accounts, NEW ok \in BOOLEAN, RecordTest(a, ok) PROVE Types'
    <2> DEFINE new == [account[a] EXCEPT !.status = IF ok THEN "active" ELSE "cooldown",
                                         !.until = IF ok THEN 0 ELSE now + Cooldown]
    <2>0. account[a] \in AccountRows /\ now + Cooldown \in Nat
      BY <1>0 DEF Types
    <2>1. new \in AccountRows
      BY <2>0 DEF AccountRows
    <2>2. account' = [account EXCEPT ![a] = new]
      BY <1>12 DEF RecordTest, Types, AccountRows
    <2>3. account' \in [Accounts -> AccountRows]
      BY <2>1, <2>2 DEF Types
    <2> QED BY <1>12, <2>3 DEF RecordTest, Types
  <1>13. CASE Tick
    BY <1>0, <1>13 DEF Tick, Types
  <1>14. CASE UNCHANGED vars
    BY <1>14 DEF vars, Types
  <1> QED
    BY <1>1, <1>2, <1>3, <1>4, <1>6, <1>7, <1>9, <1>10, <1>11, <1>12, <1>13, <1>14 DEF Next

-----------------------------------------------------------------------------
(* What a step does to a lease *)

Ends(l) ==
    /\ lease[l] \in LeaseRows /\ lease[l].status = "active"
    /\ \E st \in {"released", "expired"} : lease'[l] = [lease[l] EXCEPT !.status = st]

Extends(l) ==
    /\ lease[l] \in LeaseRows /\ Live(l)
    /\ lease'[l] = [lease[l] EXCEPT !.expires = @ + Extend]
    /\ device[lease[l].device] = "active" /\ device' = device

LEMMA LeaseStep ==
    ASSUME LeaseAssumption, Types, [Next]_vars, NEW l \in Leases
    PROVE  \/ lease'[l] = lease[l]
           \/ Ends(l)
           \/ Extends(l) /\ \E k \in RenewKeys : Renew(l, k) /\ <<l, k>> \notin renewed
           \/ \E d \in Devices : Create(l, d)
  <1>0. lease \in [Leases -> LeaseRows \cup {NoLease}]
    BY DEF Types
  <1>s. Swept(l) = lease[l] \/
        (lease[l] \in LeaseRows /\ lease[l].status = "active" /\ ~Live(l)
         /\ Swept(l) = [lease[l] EXCEPT !.status = "expired"])
    BY <1>0, SweptType DEF NoLease
  <1>1. ASSUME NEW m \in Leases, NEW d \in Devices, Create(m, d), m # l
        PROVE  lease'[l] = Swept(l)
    BY <1>1 DEF Create
  <1>2. ASSUME NEW m \in Leases, NEW k \in RenewKeys, Renew(m, k), m # l
        PROVE  lease'[l] = lease[l]
    BY <1>0, <1>2 DEF Renew
  <1>3. ASSUME NEW k \in RenewKeys, Renew(l, k)
        PROVE  \/ lease'[l] = Swept(l)
               \/ Extends(l) /\ <<l, k>> \notin renewed
    <2>1. CASE <<l, k>> \in renewed
      BY <1>0, <1>3, <2>1 DEF Renew
    <2>2. CASE <<l, k>> \notin renewed
      <3>1. /\ lease[l] \in LeaseRows /\ Swept(l).status = "active"
            /\ lease' = [lease EXCEPT ![l].expires = @ + Extend]
            /\ device[lease[l].device] = "active" /\ device' = device
        BY <1>0, <1>3, <2>2 DEF Renew
      <3>2. Live(l)
        BY <3>1 DEF Swept, Live, LeaseRows
      <3> QED BY <1>0, <2>2, <3>1, <3>2 DEF Extends
    <2> QED BY <2>1, <2>2
  <1>4. ASSUME NEW m \in Leases, NEW reclaim \in BOOLEAN, Release(m, reclaim)
        PROVE  lease'[l] = lease[l] \/ lease'[l] = Swept(l) \/ Ends(l)
    <2>1. CASE m # l
      BY <1>0, <1>4, <2>1 DEF Release
    <2>2. CASE m = l /\ Live(l)
      BY <1>0, <1>4, <2>2 DEF Release, Ends, Live
    <2>3. CASE m = l /\ ~Live(l)
      BY <1>0, <1>4, <2>3 DEF Release
    <2> QED BY <2>1, <2>2, <2>3
  <1>5. ASSUME NEW S, lease' = Freed(S) PROVE lease'[l] = lease[l] \/ Ends(l)
    BY <1>0, <1>5 DEF Freed, Ends, NoLease
  <1>6. ASSUME NEW a, lease' = SweptOf(a) PROVE lease'[l] = lease[l] \/ lease'[l] = Swept(l)
    BY <1>6 DEF SweptOf
  <1>7. ASSUME NEW d \in Devices, \/ \E st \in {"disabled", "pending"} : Withdraw(d, st)
                                  \/ WithdrawAgain(d)
        PROVE  lease'[l] = lease[l] \/ Ends(l)
    BY <1>5, <1>7 DEF Withdraw, WithdrawAgain
  <1>8. ASSUME NEW a \in Accounts, \/ \E st \in Statuses : SetStatus(a, st)
                                   \/ \E n \in Slots : SetSlots(a, n)
                                   \/ \E n \in Limits : SetLimit(a, n)
        PROVE  lease'[l] = lease[l] \/ lease'[l] = Swept(l)
    BY <1>6, <1>8 DEF SetStatus, SetSlots, SetLimit
  <1>9. CASE \/ \E m \in Leases, c \in Calls : Report(m, c)
             \/ \E d \in Devices : Activate(d)
             \/ \E a \in Accounts, ok \in BOOLEAN : RecordTest(a, ok)
             \/ Tick \/ UNCHANGED vars
    BY <1>9 DEF Report, Activate, RecordTest, Tick, vars
  <1>10. lease'[l] = Swept(l) => lease'[l] = lease[l] \/ Ends(l)
    BY <1>s DEF Ends
  <1> QED BY <1>1, <1>2, <1>3, <1>4, <1>7, <1>8, <1>9, <1>10 DEF Next

\* The clock does not go back.
LEMMA ClockStep == ASSUME Types, [Next]_vars PROVE now' >= now
  <1>1. CASE Tick
    BY <1>1 DEF Tick, Types
  <1>2. CASE now' = now
    BY <1>2 DEF Types
  <1> QED
    BY <1>1, <1>2 DEF Next, Create, Renew, Release, Report, Withdraw, WithdrawAgain, Activate,
       SetStatus, SetSlots, SetLimit, RecordTest, vars

\* A lease that runs has run before, on the same account, or is new.
LEMMA LiveStep ==
    ASSUME LeaseAssumption, Types, Types', [Next]_vars, NEW l \in Leases, Live(l)'
    PROVE  \/ Live(l) /\ lease'[l].account = lease[l].account
           \/ \E d \in Devices : Create(l, d)
  <1>0. /\ lease[l] \in LeaseRows \cup {NoLease} /\ now \in Nat /\ now' \in Nat
        /\ lease'[l] \in LeaseRows /\ lease'[l].status = "active" /\ lease'[l].expires > now'
    BY DEF Types, Live, NoLease
  <1>1. CASE lease'[l] = lease[l]
    BY <1>0, <1>1, ClockStep DEF Live, LeaseRows
  <1>2. CASE Ends(l)
    BY <1>0, <1>2 DEF Ends, LeaseRows
  <1>3. CASE Extends(l)
    BY <1>3 DEF Extends, LeaseRows
  <1> QED BY <1>1, <1>2, <1>3, LeaseStep

-----------------------------------------------------------------------------
(* What refers to a lease *)

LEMMA GivenStep ==
    ASSUME LeaseAssumption, Types, References, [Next]_vars
    PROVE  /\ IsFiniteSet(Given)'
           /\ \A l \in Given : lease'[l] # NoLease
  <1>1. ASSUME NEW l \in Leases PROVE lease[l] # NoLease => lease'[l] # NoLease
    <2>1. ASSUME NEW d \in Devices, Create(l, d) PROVE lease[l] = NoLease
      BY <2>1 DEF Create
    <2>2. Ends(l) \/ Extends(l) => lease'[l] # NoLease
      <3>1. \A row \in LeaseRows : \A st, e : /\ [row EXCEPT !.status = st] # NoLease
                                        /\ [row EXCEPT !.expires = e] # NoLease
        BY DEF LeaseRows, NoLease
      <3> QED BY <3>1 DEF Ends, Extends
    <2> QED BY <2>1, <2>2, LeaseStep
  <1>2. CASE \E l \in Leases, d \in Devices : Create(l, d)
    <2>1. PICK l \in Leases, d \in Devices : Create(l, d)
      BY <1>2
    <2>2. ASSUME NEW m \in Leases, m # l, lease[m] = NoLease PROVE lease'[m] = NoLease
      BY <2>1, <2>2 DEF Create, Swept, NoLease
    <2>3. Given' \subseteq Given \cup {l}
      BY <2>2 DEF Given
    <2>4. IsFiniteSet(Given \cup {l})
      BY FS_AddElement DEF References
    <2> QED BY <1>1, <2>3, <2>4, FS_Subset DEF Given
  <1>3. CASE ~\E l \in Leases, d \in Devices : Create(l, d)
    <2>1. ASSUME NEW m \in Leases, lease[m] = NoLease PROVE lease'[m] = NoLease
      <3>1. NoLease \notin LeaseRows
        BY DEF NoLease, LeaseRows
      <3> QED BY <1>3, <2>1, <3>1, LeaseStep DEF Ends, Extends
    <2>2. Given' \subseteq Given
      BY <2>1 DEF Given
    <2> QED BY <1>1, <2>2, FS_Subset DEF Given, References
  <1> QED BY <1>2, <1>3

LEMMA RenewalStep ==
    ASSUME [Next]_vars
    PROVE  \/ renewed' = renewed
           \/ \E l \in Leases, k \in RenewKeys :
                Renew(l, k) /\ <<l, k>> \notin renewed /\ renewed' = renewed \cup {<<l, k>>}
  BY DEF Next, Create, Renew, Release, Report, Withdraw, WithdrawAgain, Activate,
     SetStatus, SetSlots, SetLimit, RecordTest, Tick, vars

LEMMA RowsStep ==
    ASSUME [Next]_vars
    PROVE  \/ rows' = rows
           \/ \E l \in Leases, c \in Calls : Report(l, c)
  BY DEF Next, Create, Renew, Release, Withdraw, WithdrawAgain, Activate,
     SetStatus, SetSlots, SetLimit, RecordTest, Tick, vars

LEMMA ReferencesStep ==
    ASSUME LeaseAssumption, Types, Types', References, [Next]_vars
    PROVE  References'
  <1>1. IsFiniteSet(Given)' /\ \A l \in Leases : lease[l] # NoLease => lease'[l] # NoLease
    BY GivenStep DEF Given
  <1>2. ASSUME NEW l \in Leases PROVE IsFiniteSet(Renewals(l))'
    <2>1. Renewals(l)' = Renewals(l) \/ \E k \in RenewKeys : Renewals(l)' = Renewals(l) \cup {k}
      <3>1. CASE renewed' = renewed
        BY <3>1 DEF Renewals
      <3>2. ASSUME NEW m \in Leases, NEW k \in RenewKeys, renewed' = renewed \cup {<<m, k>>}
            PROVE  Renewals(l)' = Renewals(l) \/ Renewals(l)' = Renewals(l) \cup {k}
        <4>1. CASE m = l
          BY <3>2, <4>1 DEF Renewals
        <4>2. CASE m # l
          BY <3>2, <4>2 DEF Renewals
        <4> QED BY <4>1, <4>2
      <3> QED BY <3>1, <3>2, RenewalStep
    <2>2. IsFiniteSet(Renewals(l))
      BY DEF References
    <2> QED BY <2>1, <2>2, FS_AddElement
  <1>3. ASSUME NEW l \in Leases, NEW k \in RenewKeys, <<l, k>> \in renewed'
        PROVE  lease'[l] # NoLease
    <2>1. CASE <<l, k>> \in renewed
      BY <1>1, <2>1 DEF References
    <2>2. CASE <<l, k>> \notin renewed
      <3>1. PICK m \in Leases, j \in RenewKeys : Renew(m, j) /\ renewed' = renewed \cup {<<m, j>>}
        BY <1>3, <2>2, RenewalStep
      <3>2. m = l /\ lease[m] # NoLease
        BY <1>3, <2>2, <3>1 DEF Renew
      <3> QED BY <1>1, <3>2
    <2> QED BY <2>1, <2>2
  <1>4. ASSUME NEW i \in DOMAIN rows' PROVE lease'[rows'[i].lease] # NoLease
    <2>1. CASE rows' = rows
      <3>1. i \in DOMAIN rows
        BY <1>4, <2>1
      <3>2. rows[i] \in UsageRows
        BY <3>1 DEF Types
      <3>3. rows[i].lease \in Leases /\ lease[rows[i].lease] # NoLease
        BY <3>1, <3>2 DEF References, UsageRows
      <3> QED BY <1>1, <2>1, <3>3
    <2>2. ASSUME NEW l \in Leases, NEW c \in Calls, Report(l, c)
          PROVE  lease'[rows'[i].lease] # NoLease
      <3> DEFINE row == [lease |-> l, call |-> c, account |-> lease[l].account, day |-> Day(now)]
      <3>1. rows' = Append(rows, row) /\ lease[l] # NoLease
        BY <2>2 DEF Report
      <3>2. CASE i = Len(rows) + 1
        BY <1>1, <3>1, <3>2 DEF Types
      <3>3. CASE i # Len(rows) + 1
        <4>1. i \in DOMAIN rows /\ rows'[i] = rows[i]
          BY <1>4, <3>1, <3>3 DEF Types
        <4>2. rows[i] \in UsageRows
          BY <4>1 DEF Types
        <4>3. rows[i].lease \in Leases /\ lease[rows[i].lease] # NoLease
          BY <4>1, <4>2 DEF References, UsageRows
        <4> QED BY <1>1, <4>1, <4>3
      <3> QED BY <3>2, <3>3
    <2> QED BY <2>1, <2>2, RowsStep
  <1> QED BY <1>1, <1>2, <1>3, <1>4 DEF References

-----------------------------------------------------------------------------
(* Slots, devices and accounts *)

LEMMA HoldingFinite ==
    ASSUME References, NEW a PROVE IsFiniteSet(Holding(a)) /\ Cardinality(Holding(a)) \in Nat
  <1>1. Holding(a) \subseteq Given
    BY DEF Holding, Given, Live, NoLease
  <1> QED BY <1>1, FS_Subset, FS_CardinalityType DEF References

\* An account that hands out no lease holds no more than before; the one that
\* does had room for it.
LEMMA HoldingStep ==
    ASSUME LeaseAssumption, Types, Types', References, [Next]_vars, NEW a \in Accounts
    PROVE  \/ Holding(a)' \subseteq Holding(a)
           \/ \E l \in Leases : /\ Room(a) /\ Holding(a)' \subseteq Holding(a) \cup {l}
                                /\ account' = [b \in Accounts |-> Refreshed(b)]
  <1>1. CASE ~\E l \in Leases, d \in Devices : Create(l, d)
    BY <1>1, LiveStep DEF Holding
  <1>2. ASSUME NEW l \in Leases, NEW d \in Devices, Create(l, d)
        PROVE  \/ Holding(a)' \subseteq Holding(a)
               \/ /\ Room(a) /\ Holding(a)' \subseteq Holding(a) \cup {l}
                  /\ account' = [b \in Accounts |-> Refreshed(b)]
    <2>1. PICK c \in Accounts :
            Room(c) /\ lease' = [m \in Leases |-> IF m = l THEN NewLease(d, c) ELSE Swept(m)]
      BY <1>2 DEF Create, NewLease
    <2>2. ASSUME NEW m \in Leases, m # l, m \in Holding(a)' PROVE m \in Holding(a)
      <3>1. ~\E e \in Devices : Create(m, e)
        BY <1>2, <2>1, <2>2, SweptType DEF Create, Holding, Live, NoLease, NewLease
      <3> QED BY <2>2, <3>1, LiveStep DEF Holding
    <2>3. lease'[l].account = c
      BY <2>1 DEF NewLease
    <2>4. CASE a = c
      BY <1>2, <2>1, <2>2, <2>4 DEF Create, Holding
    <2>5. CASE a # c
      BY <2>2, <2>3, <2>5 DEF Holding
    <2> QED BY <2>4, <2>5
  <1> QED BY <1>1, <1>2

\* What an administrator and the operations do to the row of an account.
LEMMA AccountStep ==
    ASSUME LeaseAssumption, Types, Types', [Next]_vars, NEW a \in Accounts
    PROVE  \/ /\ account'[a].slots = account[a].slots
              /\ account'[a].status = "disabled" => account[a].status = "disabled"
           \/ /\ Holding(a)' \subseteq Holding(a)
              /\ \E st \in {"active", "cooldown", "exhausted", "disabled"}, n \in Slots :
                    /\ Allowed(a, st, n)
                    /\ account'[a].status = st /\ account'[a].slots = n
  <1>0. account[a] \in AccountRows /\ account \in [Accounts -> AccountRows]
    BY DEF Types
  <1>1. ASSUME NEW l \in Leases, NEW d \in Devices, Create(l, d)
        PROVE  /\ account'[a].slots = account[a].slots
               /\ account'[a].status = "disabled" => account[a].status = "disabled"
    BY <1>1, RefreshedType DEF Create
  <1>2. ASSUME NEW l \in Leases, NEW c \in Calls, Report(l, c)
        PROVE  /\ account'[a].slots = account[a].slots
               /\ account'[a].status = "disabled" => account[a].status = "disabled"
    BY <1>0, <1>2 DEF Report, AccountRows
  <1>3. ASSUME NEW b \in Accounts, NEW ok \in BOOLEAN, RecordTest(b, ok)
        PROVE  /\ account'[a].slots = account[a].slots
               /\ account'[a].status = "disabled" => account[a].status = "disabled"
    BY <1>0, <1>3 DEF RecordTest, AccountRows
  <1>4. ASSUME NEW b \in Accounts, NEW n \in Limits, SetLimit(b, n)
        PROVE  /\ account'[a].slots = account[a].slots
               /\ account'[a].status = "disabled" => account[a].status = "disabled"
    BY <1>0, <1>4 DEF SetLimit, AccountRows
  <1>5. ASSUME NEW b \in Accounts, \/ \E st \in Statuses : SetStatus(b, st)
                                   \/ \E n \in Slots : SetSlots(b, n)
        PROVE  \/ account'[a] = account[a]
               \/ /\ Holding(a)' \subseteq Holding(a)
                  /\ \E st \in {"active", "cooldown", "exhausted", "disabled"}, n \in Slots :
                        /\ Allowed(a, st, n)
                        /\ account'[a].status = st /\ account'[a].slots = n
    <2>1. CASE a # b
      BY <1>0, <1>5, <2>1 DEF SetStatus, SetSlots
    <2>2. CASE a = b
      <3>1. \E st \in {"active", "cooldown", "exhausted", "disabled"}, n \in Slots :
              /\ Allowed(a, st, n)
              /\ account'[a].status = st /\ account'[a].slots = n
        <4>0. account[a].slots \in Slots
              /\ account[a].status \in {"active", "cooldown", "exhausted", "disabled"}
              /\ Statuses \subseteq {"active", "cooldown", "exhausted", "disabled"}
          BY <1>0 DEF AccountRows, LeaseAssumption
        <4>1. ASSUME NEW st \in Statuses, SetStatus(a, st)
              PROVE  /\ Allowed(a, st, account[a].slots)
                     /\ account'[a].status = st /\ account'[a].slots = account[a].slots
          BY <1>0, <4>1 DEF SetStatus, AccountRows
        <4>2. ASSUME NEW n \in Slots, SetSlots(a, n)
              PROVE  /\ Allowed(a, account[a].status, n)
                     /\ account'[a].status = account[a].status /\ account'[a].slots = n
          BY <1>0, <4>2 DEF SetSlots, AccountRows
        <4> QED BY <1>5, <2>2, <4>0, <4>1, <4>2
      <3>2. \A l \in Leases, d \in Devices : ~Create(l, d)
        <4>1. ASSUME NEW l \in Leases, NEW d \in Devices, Create(l, d) PROVE FALSE
          <5>1. lease[l] = NoLease /\ lease'[l] # NoLease
            BY <4>1 DEF Create, NoLease
          <5>2. lease' = SweptOf(b)
            BY <1>5 DEF SetStatus, SetSlots
          <5> QED BY <5>1, <5>2 DEF SweptOf
        <4> QED BY <4>1
      <3>3. Holding(a)' \subseteq Holding(a)
        BY <3>2, LiveStep DEF Holding
      <3> QED BY <3>1, <3>3
    <2> QED BY <2>1, <2>2
  <1>6. CASE UNCHANGED account
    BY <1>6
  <1> QED
    BY <1>1, <1>2, <1>3, <1>4, <1>5, <1>6 DEF Next, Renew, Release, Withdraw, WithdrawAgain,
       Activate, Tick, vars

LEMMA SlotsStep ==
    ASSUME LeaseAssumption, Types, Types', References, References', SlotsHold, DisabledIsIdle, [Next]_vars
    PROVE  SlotsHold' /\ DisabledIsIdle'
  <1> SUFFICES ASSUME NEW a \in Accounts
               PROVE  /\ Cardinality(Holding(a))' <= account'[a].slots
                      /\ account'[a].status = "disabled" => Holding(a)' = {}
    BY DEF SlotsHold, DisabledIsIdle
  <1>0. /\ account[a] \in AccountRows /\ account'[a] \in AccountRows /\ Slots \subseteq Nat
        /\ IsFiniteSet(Holding(a)) /\ Cardinality(Holding(a)) \in Nat
        /\ Cardinality(Holding(a)) <= account[a].slots
        /\ account[a].status = "disabled" => Holding(a) = {}
    BY HoldingFinite DEF Types, SlotsHold, DisabledIsIdle, LeaseAssumption
  <1>1. CASE Holding(a)' \subseteq Holding(a)
    <2>1. Cardinality(Holding(a))' <= Cardinality(Holding(a)) /\ Cardinality(Holding(a))' \in Nat
      <3>1. Cardinality(Holding(a)') <= Cardinality(Holding(a)) /\ IsFiniteSet(Holding(a)')
        BY <1>0, <1>1, FS_Subset
      <3> QED BY <3>1, FS_CardinalityType
    <2>2. CASE /\ account'[a].slots = account[a].slots
               /\ account'[a].status = "disabled" => account[a].status = "disabled"
      <3>1. account[a].slots \in Nat /\ account'[a].slots \in Nat
        BY <1>0 DEF AccountRows
      <3>2. Cardinality(Holding(a))' <= account'[a].slots
        BY <1>0, <2>1, <2>2, <3>1
      <3>3. account'[a].status = "disabled" => Holding(a)' = {}
        BY <1>0, <1>1, <2>2
      <3> QED BY <3>2, <3>3
    <2>3. ASSUME NEW st, NEW n \in Slots, Allowed(a, st, n),
                 account'[a].status = st, account'[a].slots = n
          PROVE  /\ Cardinality(Holding(a))' <= account'[a].slots
                 /\ account'[a].status = "disabled" => Holding(a)' = {}
      BY <1>0, <1>1, <2>1, <2>3 DEF Allowed
    <2> QED BY <2>2, <2>3, AccountStep
  <1>2. CASE ~(Holding(a)' \subseteq Holding(a))
    <2>1. PICK l \in Leases : /\ Room(a) /\ Holding(a)' \subseteq Holding(a) \cup {l}
                              /\ account' = [b \in Accounts |-> Refreshed(b)]
      BY <1>2, HoldingStep
    <2>2. /\ IsFiniteSet(Holding(a) \cup {l})
          /\ Cardinality(Holding(a) \cup {l}) <= Cardinality(Holding(a)) + 1
          /\ Cardinality(Holding(a) \cup {l}) \in Nat
      <3>1. /\ IsFiniteSet(Holding(a) \cup {l})
            /\ Cardinality(Holding(a) \cup {l}) = Cardinality(Holding(a))
               \/ Cardinality(Holding(a) \cup {l}) = Cardinality(Holding(a)) + 1
        BY <1>0, FS_AddElement
      <3> QED BY <1>0, <3>1
    <2>3. /\ Cardinality(Holding(a)') <= Cardinality(Holding(a) \cup {l})
          /\ Cardinality(Holding(a)') \in Nat
      BY <2>1, <2>2, FS_Subset, FS_CardinalityType
    <2>4. /\ Cardinality(Holding(a)) < account[a].slots
          /\ account'[a].slots = account[a].slots /\ account'[a].status = "active"
      BY <2>1, RefreshedType DEF Room
    <2>5. account[a].slots \in Nat
      BY <1>0 DEF AccountRows
    <2>6. Cardinality(Holding(a)') <= account'[a].slots
      BY <1>0, <2>2, <2>3, <2>4, <2>5
    <2>7. Cardinality(Holding(a))' <= account'[a].slots
      BY <2>6
    <2> QED BY <2>4, <2>7
  <1> QED BY <1>1, <1>2

\* A device loses its leases in the step in which it stops to be active.
LEMMA DeviceStep ==
    ASSUME Types, [Next]_vars, NEW e \in Devices
    PROVE  \/ device'[e] = device[e]
           \/ device[e] = "pending" /\ device'[e] = "active" /\ lease' = lease
           \/ lease' = Freed(OfDevice(e))
  <1>1. ASSUME NEW d \in Devices, NEW st \in {"disabled", "pending"}, Withdraw(d, st)
        PROVE  device'[e] = device[e] \/ lease' = Freed(OfDevice(e))
    BY <1>1 DEF Withdraw, Types
  <1>2. ASSUME NEW d \in Devices, Activate(d)
        PROVE  \/ device'[e] = device[e]
               \/ device[e] = "pending" /\ device'[e] = "active" /\ lease' = lease
    BY <1>2 DEF Activate, Types
  <1>3. CASE device' = device
    BY <1>3
  <1> QED
    BY <1>1, <1>2, <1>3 DEF Next, Create, Renew, Release, Report, WithdrawAgain, SetStatus,
       SetSlots, SetLimit, RecordTest, Tick, vars

LEMMA ActiveDeviceStep ==
    ASSUME LeaseAssumption, Types, Types', LeasesOfActiveDevices, [Next]_vars
    PROVE  LeasesOfActiveDevices'
  <1> SUFFICES ASSUME NEW l \in Leases, lease'[l].status = "active"
               PROVE  device'[lease'[l].device] = "active"
    BY DEF LeasesOfActiveDevices
  <1>0. /\ lease[l] \in LeaseRows \cup {NoLease} /\ lease'[l] \in LeaseRows
    BY DEF Types, NoLease
  <1>1. CASE lease[l] \in LeaseRows /\ lease[l].status = "active" /\ lease'[l].device = lease[l].device
    <2> DEFINE e == lease[l].device
    <2>1. e \in Devices /\ device[e] = "active"
      BY <1>1 DEF LeasesOfActiveDevices, LeaseRows
    <2>2. lease' # Freed(OfDevice(e))
      BY <1>1, <2>1 DEF Freed, OfDevice, LeaseRows, NoLease
    <2> QED BY <1>1, <2>1, <2>2, DeviceStep
  <1>2. ASSUME NEW d \in Devices, Create(l, d) PROVE device'[lease'[l].device] = "active"
    BY <1>2 DEF Create
  <1>3. CASE lease'[l] = lease[l]
    BY <1>0, <1>1, <1>3
  <1>4. CASE Ends(l)
    BY <1>0, <1>4 DEF Ends, LeaseRows
  <1>5. CASE Extends(l)
    BY <1>5 DEF Extends, LeaseRows
  <1> QED BY <1>2, <1>3, <1>4, <1>5, LeaseStep

-----------------------------------------------------------------------------
(* What counts once *)

LEMMA RenewalsStep ==
    ASSUME LeaseAssumption, Types, Types', References, RenewalsCountOnce, [Next]_vars
    PROVE  RenewalsCountOnce'
  <1> SUFFICES ASSUME NEW l \in Leases, lease'[l] # NoLease
               PROVE  lease'[l].expires = lease'[l].created + Duration
                                          + Extend * Cardinality(Renewals(l)')
    BY DEF RenewalsCountOnce, Renewals
  <1>0. /\ lease[l] \in LeaseRows \cup {NoLease} /\ now \in Nat /\ Extend \in Nat /\ Duration \in Nat
        /\ IsFiniteSet(Renewals(l)) /\ Cardinality(Renewals(l)) \in Nat
    BY FS_CardinalityType DEF Types, References, LeaseAssumption
  <1>o. lease[l] # NoLease =>
          lease[l].expires = lease[l].created + Duration + Extend * Cardinality(Renewals(l))
    BY DEF RenewalsCountOnce, Renewals
  <1>1. ASSUME NEW m \in Leases, NEW k \in RenewKeys, Renew(m, k), <<m, k>> \notin renewed
        PROVE  /\ lease' = [lease EXCEPT ![m].expires = @ + Extend] /\ lease[m] # NoLease
               /\ renewed' = renewed \cup {<<m, k>>}
    BY <1>1 DEF Renew
  <1>2. ASSUME NEW k \in RenewKeys, Renew(l, k), <<l, k>> \notin renewed
        PROVE  lease'[l].expires = lease'[l].created + Duration + Extend * Cardinality(Renewals(l)')
    <2>1. Renewals(l)' = Renewals(l) \cup {k} /\ k \notin Renewals(l)
      BY <1>1, <1>2 DEF Renewals
    <2>2. Cardinality(Renewals(l)') = Cardinality(Renewals(l)) + 1
      BY <1>0, <2>1, FS_AddElement
    <2>3. /\ lease[l] \in LeaseRows /\ lease'[l] = [lease[l] EXCEPT !.expires = @ + Extend]
      BY <1>0, <1>1, <1>2 DEF Types
    <2>4. /\ lease'[l].expires = lease[l].expires + Extend /\ lease'[l].created = lease[l].created
          /\ lease[l].created \in Nat
      BY <2>3 DEF LeaseRows
    <2>5. \A n \in Nat : Extend * (n + 1) = Extend * n + Extend
      BY <1>0
    <2> HIDE DEF Renewals
    <2> DEFINE n == Cardinality(Renewals(l))
    <2>6. n \in Nat /\ Extend * n \in Nat /\ lease[l].expires = lease[l].created + Duration + Extend * n
      BY <1>0, <1>o, <2>3 DEF NoLease, LeaseRows
    <2>7. Extend * Cardinality(Renewals(l)') = Extend * n + Extend
      BY <2>2, <2>5, <2>6
    <2> QED BY <1>0, <2>4, <2>6, <2>7
  <1>3. CASE ~\E k \in RenewKeys : Renew(l, k) /\ <<l, k>> \notin renewed
    <2>1. Renewals(l)' = Renewals(l)
      BY <1>3, RenewalStep DEF Renewals
    <2>2. CASE lease'[l] = lease[l]
      BY <1>o, <2>1, <2>2
    <2>3. CASE Ends(l)
      <3>1. /\ lease'[l].expires = lease[l].expires /\ lease'[l].created = lease[l].created
            /\ lease[l] # NoLease
        BY <2>3 DEF Ends, LeaseRows, NoLease
      <3> QED BY <1>o, <2>1, <3>1
    <2>4. ASSUME NEW d \in Devices, Create(l, d)
          PROVE  lease'[l].expires = lease'[l].created + Duration + Extend * Cardinality(Renewals(l)')
      <3>1. lease[l] = NoLease /\ lease'[l].expires = now + Duration /\ lease'[l].created = now
        BY <2>4 DEF Create
      <3>2. Renewals(l) = {}
        BY <3>1 DEF Renewals, References
      <3>3. Cardinality(Renewals(l)') = 0
        BY <2>1, <3>2, FS_EmptySet
      <3> QED BY <1>0, <3>1, <3>3
    <2> QED BY <1>3, <2>2, <2>3, <2>4, LeaseStep
  <1> QED BY <1>2, <1>3

LEMMA CallsStep ==
    ASSUME Types, CallsCountOnce, [Next]_vars
    PROVE  CallsCountOnce'
  <1>1. CASE rows' = rows
    BY <1>1 DEF CallsCountOnce
  <1>2. ASSUME NEW l \in Leases, NEW c \in Calls, Report(l, c)
        PROVE  CallsCountOnce'
    <2> DEFINE row == [lease |-> l, call |-> c, account |-> lease[l].account, day |-> Day(now)]
    <2>1. /\ rows' = Append(rows, row)
          /\ ~\E i \in DOMAIN rows : rows[i].lease = l /\ rows[i].call = c
      BY <1>2 DEF Report
    <2>2. row.lease = l /\ row.call = c
      OBVIOUS
    <2> HIDE DEF row
    <2>3. /\ Len(rows) \in Nat /\ DOMAIN rows = 1 .. Len(rows) /\ DOMAIN rows' = 1 .. Len(rows) + 1
          /\ \A i \in 1 .. Len(rows) : rows'[i] = rows[i]
          /\ rows'[Len(rows) + 1] = row
      BY <2>1 DEF Types
    <2> QED BY <2>1, <2>2, <2>3 DEF CallsCountOnce
  <1> QED BY <1>1, <1>2, RowsStep

-----------------------------------------------------------------------------
(* The theorems *)

LEMMA InvInit == ASSUME LeaseAssumption, Init PROVE Inv
  <1> USE DEF Init
  <1>1. Types
    BY DEF Types, AccountRows, LeaseAssumption
  <1>2. Given = {} /\ \A l \in Leases : Renewals(l) = {}
    BY DEF Given, Renewals
  <1>3. References
    <2>1. \A l \in Leases, k \in RenewKeys : <<l, k>> \notin renewed
      OBVIOUS
    <2>2. DOMAIN rows = {}
      OBVIOUS
    <2> QED BY <1>2, <2>1, <2>2, FS_EmptySet DEF References
  <1>4. \A a : Holding(a) = {}
    BY DEF Holding, Live, NoLease
  <1>5. SlotsHold /\ DisabledIsIdle
    <2>1. \A a \in Accounts : account[a].slots \in Nat
      BY <1>1 DEF Types, AccountRows, LeaseAssumption
    <2>2. \A a : Cardinality(Holding(a)) = 0
      BY <1>4, FS_EmptySet
    <2> QED BY <1>4, <2>1, <2>2 DEF SlotsHold, DisabledIsIdle
  <1>6. LeasesOfActiveDevices /\ RenewalsCountOnce /\ CallsCountOnce
    BY DEF LeasesOfActiveDevices, RenewalsCountOnce, CallsCountOnce, NoLease
  <1> QED BY <1>1, <1>3, <1>5, <1>6 DEF Inv, LeasesHold, RepetitionsCountOnce

LEMMA InvStep == ASSUME LeaseAssumption, Inv, [Next]_vars PROVE Inv'
  <1> USE DEF Inv, LeasesHold, RepetitionsCountOnce
  <1>1. Types'
    BY TypesStep
  <1>2. References'
    BY <1>1, ReferencesStep
  <1>3. LeasesHold'
    BY <1>1, <1>2, SlotsStep, ActiveDeviceStep
  <1>4. RepetitionsCountOnce'
    BY <1>1, RenewalsStep, CallsStep
  <1> QED BY <1>1, <1>2, <1>3, <1>4

LEMMA InvHolds == ASSUME LeaseAssumption PROVE Spec => []Inv
  <1>1. Init => Inv
    BY InvInit
  <1>2. Inv /\ [Next]_vars => Inv'
    BY InvStep
  <1> QED BY <1>1, <1>2, PTL DEF Spec

\* Leases run on accounts that have a slot for them and are enabled, for devices
\* that are active (postgres_model_lease_repository.go:180,
\* postgres_device_lifecycle_repository.go:117,
\* postgres_model_pool_repository.go:316-340).
THEOREM LeasesAreHeld == ASSUME LeaseAssumption PROVE Spec => []LeasesHold
  <1>1. Inv => LeasesHold
    BY DEF Inv
  <1> QED BY <1>1, InvHolds, PTL

\* Whatever is sent again counts once: the renewals of a lease and the calls of
\* its client (postgres_model_lease_repository.go:450,
\* postgres_model_usage_repository.go:147).
THEOREM CountedOnce == ASSUME LeaseAssumption PROVE Spec => []RepetitionsCountOnce
  <1>1. Inv => RepetitionsCountOnce
    BY DEF Inv
  <1> QED BY <1>1, InvHolds, PTL

\* A lease that was released, reclaimed or has run out is never used again, also
\* not by a renewal that comes late (postgres_model_lease_repository.go:420-470).
THEOREM EndedForGood == ASSUME LeaseAssumption PROVE Spec => EndedIsEnded
  <1>1. ASSUME Inv, Inv', [Next]_vars PROVE [EndedIsEndedStep]_vars
    <2> SUFFICES ASSUME NEW l \in Leases, lease[l] # NoLease, ~Live(l), now' = now
                 PROVE  lease'[l] # NoLease /\ ~Live(l)' /\ lease'[l].expires = lease[l].expires
      BY DEF EndedIsEndedStep
    <2>1. lease[l] \in LeaseRows
      BY <1>1 DEF Inv, Types
    <2>2. CASE lease'[l] = lease[l]
      BY <2>2 DEF Live
    <2>3. CASE Ends(l)
      BY <2>3 DEF Ends, Live, LeaseRows, NoLease
    <2>4. ~Extends(l) /\ ~\E d \in Devices : Create(l, d)
      BY DEF Extends, Create
    <2> QED BY <1>1, <2>2, <2>3, <2>4, LeaseStep DEF Inv
  <1> QED BY <1>1, InvHolds, PTL DEF Spec, EndedIsEnded
=============================================================================
