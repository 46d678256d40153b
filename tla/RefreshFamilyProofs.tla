------------------------- MODULE RefreshFamilyProofs -------------------------
(***************************************************************************)
(* A refresh token is spent once, for any number of requests and           *)
(* generations.                                                            *)
(*                                                                         *)
(* The rows alone do not say so: a row may be deleted, and the index that  *)
(* keeps its number from being given out again goes with it.  What has     *)
(* been exchanged orders the generations instead (Chain).  And a           *)
(* revocation must see every row that can still be inserted: as long as    *)
(* the family has a live row any two requests see a row that no cleaning   *)
(* takes (Meet), one that has locked the family holds such a row against   *)
(* everyone (Holds), so that one at a time is past that point (OnePast).   *)
(***************************************************************************)
EXTENDS RefreshFamily, FiniteSetTheorems, TLAPS

RequestStates ==
    [kind : Kinds \cup {"none"}, token : Generations,
     at : {"none", "locking", "locked", "revoking", "writing", "done"},
     sees : SUBSET Generations]

\* The tables and the requests.
Types ==
    /\ rows \in [Generations -> {"none", "live", "rotated", "revoked"}]
    /\ locked \in [Generations -> Requests \cup {Nobody}]
    /\ request \in [Requests -> RequestStates]
    /\ exchanged \in [Generations -> {0, 1}]
    /\ old \in SUBSET Generations
    /\ ended \in BOOLEAN

Active(r) == request[r].at \in {"locking", "locked", "revoking", "writing"}
Past(r)   == request[r].at \in {"locked", "revoking", "writing"}
Alive     == \E g \in Generations : rows[g] = "live"

\* The generations up to a row were exchanged, and none that was exchanged is live.
Chain ==
    \A g \in Generations :
        /\ exchanged[g] = 1 => rows[g] # "live"
        /\ exchanged[g] = 1 \/ rows[g] # "none" => \A h \in Generations : h < g => exchanged[h] = 1

OldAreOver == \A g \in old : rows[g] \in {"rotated", "revoked"}

\* A refresh that is under way has seen its token, and writes while it is live.
Refreshing ==
    \A r \in Requests : request[r].kind = "refresh" /\ Active(r) =>
        /\ request[r].token \in request[r].sees
        /\ \A h \in Generations : h < request[r].token => exchanged[h] = 1
        /\ Past(r) /\ rows[request[r].token] # "none" => locked[request[r].token] = r

Writing ==
    \A r \in Requests : request[r].at = "writing" =>
        /\ request[r].kind = "refresh"
        /\ request[r].token < MaxGeneration
        /\ rows[request[r].token] = "live"

\* A row that stays: nothing cleans it while a request is under way.
Common(q, r, x) == x \in request[q].sees /\ x \in request[r].sees /\ rows[x] # "none" /\ x \notin old

Meet ==
    \A q, r \in Requests : Alive /\ Active(q) /\ Active(r) => \E x \in Generations : Common(q, r, x)

Holds ==
    \A q, r \in Requests : Alive /\ Past(q) /\ Active(r) =>
        \E x \in Generations : Common(q, r, x) /\ locked[x] = q

OnePast == \A q, r \in Requests : Alive /\ Past(q) /\ Past(r) => q = r

\* The update of the family takes every live row.
SeesAll ==
    \A r \in Requests, g \in Generations :
        request[r].at = "revoking" /\ rows[g] = "live" => g \in request[r].sees

Inv ==
    /\ Types /\ Chain /\ OldAreOver /\ Refreshing /\ Writing
    /\ Meet /\ Holds /\ OnePast /\ SeesAll /\ EndedStaysEnded

-----------------------------------------------------------------------------
(* The types *)

LEMMA TypesInit == ASSUME FamilyAssumption, Init PROVE Types
  <1>1. 0 \in Generations
    BY DEF FamilyAssumption, Generations
  <1>2. Idle \in RequestStates
    BY <1>1 DEF Idle, RequestStates
  <1>3. rows \in [Generations -> {"none", "live", "rotated", "revoked"}]
    BY DEF Init
  <1> QED BY <1>1, <1>2, <1>3 DEF Init, Types

\* The values that the actions give to the requests and the locks.
LEMMA TypesOfValues ==
    ASSUME FamilyAssumption, Types, NEW r \in Requests
    PROVE  /\ Unlocked(r) \in [Generations -> Requests \cup {Nobody}]
           /\ \A g \in Generations : [locked EXCEPT ![g] = r] \in [Generations -> Requests \cup {Nobody}]
           /\ Present \in SUBSET Generations
           /\ \A new \in RequestStates : [request EXCEPT ![r] = new] \in [Requests -> RequestStates]
           /\ \A at \in {"locking", "locked", "revoking", "writing", "done"} :
                 [request EXCEPT ![r].at = at] \in [Requests -> RequestStates]
           /\ \A sees \in SUBSET Generations :
                 [request EXCEPT ![r].at = "revoking", ![r].sees = sees] \in [Requests -> RequestStates]
  <1>1. locked \in [Generations -> Requests \cup {Nobody}] /\ request \in [Requests -> RequestStates]
    BY DEF Types
  <1>2. Unlocked(r) \in [Generations -> Requests \cup {Nobody}]
    BY <1>1 DEF Unlocked
  <1>3. \A g \in Generations : [locked EXCEPT ![g] = r] \in [Generations -> Requests \cup {Nobody}]
    BY <1>1
  <1>4. \A new \in RequestStates : [request EXCEPT ![r] = new] \in [Requests -> RequestStates]
    BY <1>1
  <1>5. ASSUME NEW at \in {"locking", "locked", "revoking", "writing", "done"}
        PROVE  [request EXCEPT ![r].at = at] \in [Requests -> RequestStates]
    <2>1. [request[r] EXCEPT !.at = at] \in RequestStates
      BY <1>1 DEF RequestStates
    <2> QED BY <1>1, <2>1
  <1>6. ASSUME NEW sees \in SUBSET Generations
        PROVE  [request EXCEPT ![r].at = "revoking", ![r].sees = sees] \in [Requests -> RequestStates]
    <2> DEFINE new == [request[r] EXCEPT !.at = "revoking", !.sees = sees]
    <2>1. new \in RequestStates
      BY <1>1 DEF RequestStates
    <2>2. [request EXCEPT ![r].at = "revoking", ![r].sees = sees] = [request EXCEPT ![r] = new]
      BY <1>1
    <2> QED BY <1>1, <2>1, <2>2
  <1> QED BY <1>2, <1>3, <1>4, <1>5, <1>6 DEF Present

\* Every action keeps the tables and the requests what they are.
LEMMA TypesStep == ASSUME FamilyAssumption, Types, Writing, Chain, [Next]_vars PROVE Types'
  <1>1. ASSUME NEW r \in Requests, NEW kind \in Kinds, NEW g \in Generations, Begin(r, kind, g)
        PROVE  Types'
    <2> DEFINE new == [kind |-> kind, token |-> g, at |-> "locking", sees |-> Present]
    <2>1. new \in RequestStates
      BY TypesOfValues DEF RequestStates
    <2>2. request' = [request EXCEPT ![r] = new] /\ UNCHANGED <<rows, locked, old, exchanged, ended>>
      BY <1>1 DEF Begin
    <2> QED BY <2>1, <2>2, TypesOfValues DEF Types
  <1>2. ASSUME NEW r \in Requests, LockNext(r) PROVE Types'
    <2>1. PICK g \in Generations : locked' = [locked EXCEPT ![g] = r]
      <3>1. Wanted(r) \subseteq Generations
        BY DEF Wanted, Types, RequestStates
      <3> QED BY <1>2, <3>1 DEF LockNext
    <2>2. UNCHANGED <<rows, request, old, exchanged, ended>>
      BY <1>2 DEF LockNext
    <2> QED BY <2>1, <2>2, TypesOfValues DEF Types
  <1>3. ASSUME NEW r \in Requests, Locked(r) PROVE Types'
    <2>1. request' = [request EXCEPT ![r].at = "locked"] /\ UNCHANGED <<rows, locked, old, exchanged, ended>>
      BY <1>3 DEF Locked
    <2> QED BY <2>1, TypesOfValues DEF Types
  <1>4. ASSUME NEW r \in Requests, Decide(r) PROVE Types'
    <2>1. locked' = locked \/ locked' = Unlocked(r)
      BY <1>4 DEF Decide
    <2>2. \/ \E at \in {"writing", "done"} : request' = [request EXCEPT ![r].at = at]
          \/ request' = [request EXCEPT ![r].at = "revoking", ![r].sees = Present]
      BY <1>4 DEF Decide
    <2>3. UNCHANGED <<rows, old, exchanged, ended>>
      BY <1>4 DEF Decide
    <2>4. locked' \in [Generations -> Requests \cup {Nobody}]
      <3>1. Unlocked(r) \in [Generations -> Requests \cup {Nobody}]
        BY TypesOfValues
      <3>2. locked \in [Generations -> Requests \cup {Nobody}]
        BY DEF Types
      <3> QED BY <2>1, <3>1, <3>2
    <2>5. request' \in [Requests -> RequestStates]
      <3>1. [request EXCEPT ![r].at = "revoking", ![r].sees = Present] \in [Requests -> RequestStates]
        <4>1. Present \in SUBSET Generations
          BY DEF Present
        <4> QED BY <4>1, TypesOfValues
      <3>2. ASSUME NEW at \in {"writing", "done"}
            PROVE  [request EXCEPT ![r].at = at] \in [Requests -> RequestStates]
        BY TypesOfValues
      <3> QED BY <2>2, <3>1, <3>2
    <2> QED BY <2>3, <2>4, <2>5 DEF Types
  <1>5. ASSUME NEW r \in Requests, CommitExchange(r) PROVE Types'
    <2> DEFINE g == request[r].token
    <2>1. g \in Generations /\ g + 1 \in Generations /\ rows[g] = "live"
      <3>1. request[r].token \in Generations
        BY DEF Types, RequestStates
      <3>2. request[r].token < MaxGeneration /\ rows[request[r].token] = "live"
        BY <1>5 DEF CommitExchange, Writing
      <3> QED BY <3>1, <3>2 DEF Generations, FamilyAssumption
    <2>2. exchanged[g] = 0
      BY <2>1 DEF Chain, Types
    <2> HIDE DEF g
    <2>3. /\ rows' = rows \/ rows' = [rows EXCEPT ![g] = "rotated", ![g + 1] = "live"]
          /\ exchanged' = exchanged \/ exchanged' = [exchanged EXCEPT ![g] = @ + 1]
          /\ request' = [request EXCEPT ![r].at = "done"] /\ locked' = Unlocked(r)
          /\ UNCHANGED <<old, ended>>
      BY <1>5 DEF CommitExchange, g
    <2>4. rows' \in [Generations -> {"none", "live", "rotated", "revoked"}]
      BY <2>1, <2>3 DEF Types
    <2>5. exchanged' \in [Generations -> {0, 1}]
      BY <2>1, <2>2, <2>3 DEF Types
    <2> QED BY <2>3, <2>4, <2>5, TypesOfValues DEF Types
  <1>6. ASSUME NEW r \in Requests, CommitRevocation(r) PROVE Types'
    <2>1. rows' \in [Generations -> {"none", "live", "rotated", "revoked"}]
      BY <1>6 DEF CommitRevocation, Types
    <2>2. /\ request' = [request EXCEPT ![r].at = "done"] /\ locked' = Unlocked(r)
          /\ ended' = TRUE /\ UNCHANGED <<old, exchanged>>
      BY <1>6 DEF CommitRevocation
    <2> QED BY <2>1, <2>2, TypesOfValues DEF Types
  <1>7. ASSUME NEW r \in Requests, RollBack(r) PROVE Types'
    <2>1. /\ request' = [request EXCEPT ![r].at = "done"] /\ locked' = Unlocked(r)
          /\ UNCHANGED <<rows, old, exchanged, ended>>
      BY <1>7 DEF RollBack
    <2> QED BY <2>1, TypesOfValues DEF Types
  <1>8. CASE Age
    BY <1>8 DEF Age, Types
  <1>9. ASSUME NEW g \in Generations, Clean(g) PROVE Types'
    BY <1>9 DEF Clean, Types
  <1>10. CASE UNCHANGED vars
    BY <1>10 DEF vars, Types
  <1> QED BY <1>1, <1>2, <1>3, <1>4, <1>5, <1>6, <1>7, <1>8, <1>9, <1>10 DEF Next, Works

-----------------------------------------------------------------------------
(* What a step leaves alone *)

Moves(r) ==
    \/ \E kind \in Kinds, g \in Generations : Begin(r, kind, g)
    \/ Works(r) \/ RollBack(r)

\* A step of one request leaves the other requests and their locks alone.
LEMMA OthersStay ==
    ASSUME FamilyAssumption, Types, NEW r \in Requests, Moves(r)
    PROVE  /\ \A q \in Requests \ {r} : request'[q] = request[q]
           /\ \A q \in Requests \ {r}, g \in Generations : locked[g] = q <=> locked'[g] = q
           /\ old' = old
  <1> USE DEF Types, Unlocked
  <1>0. Nobody \notin Requests
    BY DEF FamilyAssumption
  <1>1. ASSUME NEW kind \in Kinds, NEW g \in Generations, Begin(r, kind, g)
        PROVE  request' = [request EXCEPT ![r] = request'[r]] /\ UNCHANGED <<locked, old>>
    BY <1>1 DEF Begin
  <1>2. ASSUME LockNext(r)
        PROVE  /\ request' = request /\ old' = old
               /\ \E g \in Generations : locked[g] = Nobody /\ locked' = [locked EXCEPT ![g] = r]
    BY <1>2 DEF LockNext, Wanted, RequestStates
  <1>3. ASSUME Locked(r)
        PROVE  request' = [request EXCEPT ![r] = request'[r]] /\ UNCHANGED <<locked, old>>
    BY <1>3 DEF Locked
  <1>4. ASSUME Decide(r) \/ CommitExchange(r) \/ CommitRevocation(r) \/ RollBack(r)
        PROVE  /\ \A q \in Requests \ {r} : request'[q] = request[q]
               /\ old' = old
               /\ locked' = locked \/ locked' = Unlocked(r)
    BY <1>4 DEF Decide, CommitExchange, CommitRevocation, RollBack
  <1> QED BY <1>0, <1>1, <1>2, <1>3, <1>4 DEF Moves, Works

\* Who changes the rows.
LEMMA RowsChange ==
    ASSUME [Next]_vars
    PROVE  \/ rows' = rows
           \/ \E r \in Requests : CommitExchange(r) \/ CommitRevocation(r)
           \/ \E g \in Generations : Clean(g)
  <1>1. ASSUME NEW r \in Requests,
               (\E kind \in Kinds, g \in Generations : Begin(r, kind, g)) \/ Works(r) \/ RollBack(r)
        PROVE  rows' = rows \/ CommitExchange(r) \/ CommitRevocation(r)
    BY <1>1 DEF Works, Begin, LockNext, Locked, Decide, RollBack
  <1>2. CASE Age \/ UNCHANGED vars
    BY <1>2 DEF Age, vars
  <1> QED BY <1>1, <1>2 DEF Next

\* A row becomes live by an exchange only, and only a row that is over is deleted.
LEMMA RowsStep ==
    ASSUME FamilyAssumption, Types, Chain, OldAreOver, Writing, [Next]_vars, NEW g \in Generations
    PROVE  /\ rows'[g] = "live" =>
                \/ rows[g] = "live"
                \/ \E r \in Requests : CommitExchange(r) /\ g = request[r].token + 1
           /\ rows[g] # "none" /\ g \notin old => rows'[g] # "none"
           /\ rows'[g] # "none" =>
                \/ rows[g] # "none"
                \/ \E r \in Requests : CommitExchange(r) /\ g = request[r].token + 1
           /\ Alive' => Alive
  <1> USE DEF Types, RequestStates
  <1>1. ASSUME NEW r \in Requests, CommitExchange(r)
        PROVE  /\ \A h \in Generations : rows'[h] # rows[h] =>
                     \/ h = request[r].token /\ rows'[h] = "rotated"
                     \/ h = request[r].token + 1 /\ rows[h] = "none" /\ rows'[h] = "live"
               /\ Alive
    BY <1>1 DEF CommitExchange, Writing, Alive
  <1>2. ASSUME NEW r \in Requests, CommitRevocation(r)
        PROVE  \A h \in Generations : rows'[h] # rows[h] => rows[h] # "none" /\ rows'[h] = "revoked"
    BY <1>2 DEF CommitRevocation
  <1>3. ASSUME NEW f \in Generations, Clean(f)
        PROVE  \A h \in Generations : rows'[h] # rows[h] => h \in old /\ rows'[h] = "none"
    BY <1>3 DEF Clean
  <1>4. \/ rows' = rows
        \/ \E r \in Requests : CommitExchange(r) \/ CommitRevocation(r)
        \/ \E f \in Generations : Clean(f)
    BY RowsChange
  <1>5. CASE rows' = rows
    <2>1. Alive' <=> Alive
      BY <1>5 DEF Alive
    <2>2. rows'[g] = rows[g]
      BY <1>5
    <2> QED BY <2>1, <2>2
  <1>6. CASE \E r \in Requests : CommitExchange(r)
    <2>1. PICK r \in Requests : CommitExchange(r)
      BY <1>6
    <2>2. /\ rows'[g] # rows[g] =>
                 \/ g = request[r].token /\ rows'[g] = "rotated"
                 \/ g = request[r].token + 1 /\ rows[g] = "none" /\ rows'[g] = "live"
          /\ Alive
      BY <1>1, <2>1
    <2>3. rows'[g] = "live" => rows[g] = "live" \/ g = request[r].token + 1
      BY <2>2
    <2>4. rows'[g] # "none" => rows[g] # "none" \/ g = request[r].token + 1
      BY <2>1, <2>2 DEF CommitExchange, Writing
    <2>5. rows[g] # "none" => rows'[g] # "none"
      BY <2>2
    <2> QED BY <2>1, <2>2, <2>3, <2>4, <2>5
  <1>7. CASE \E r \in Requests : CommitRevocation(r)
    BY <1>2, <1>7 DEF Alive
  <1>8. CASE \E f \in Generations : Clean(f)
    BY <1>3, <1>8 DEF Alive
  <1> QED BY <1>4, <1>5, <1>6, <1>7, <1>8

-----------------------------------------------------------------------------
(* The chain of exchanges *)

LEMMA ChainStep ==
    ASSUME FamilyAssumption, Types, Chain, OldAreOver, Writing, [Next]_vars
    PROVE  Chain'
  <1> USE DEF Types, RequestStates
  <1>0. MaxGeneration \in Nat
    BY DEF FamilyAssumption
  <1>1. ASSUME NEW r \in Requests, CommitExchange(r) PROVE Chain'
    <2> DEFINE t == request[r].token
    <2>0. t \in Generations /\ t < MaxGeneration /\ rows[t] = "live"
      BY <1>1 DEF CommitExchange, Writing
    <2>1. /\ t \in Generations /\ t + 1 \in Generations /\ rows[t] = "live"
          /\ \A g \in Generations : g < t => exchanged[g] = 1
      BY <1>0, <2>0 DEF Chain, Generations
    <2>2. exchanged[t] # 1 /\ exchanged[t + 1] # 1 /\ rows[t + 1] = "none"
      BY <1>0, <2>1 DEF Chain, Generations
    <2>3. /\ rows' = [rows EXCEPT ![t] = "rotated", ![t + 1] = "live"]
          /\ exchanged' = [exchanged EXCEPT ![t] = 1]
      BY <1>1, <2>1, <2>2 DEF CommitExchange
    <2>4. ASSUME NEW g \in Generations, exchanged'[g] = 1
          PROVE  rows'[g] # "live" /\ g <= t
      <3>1. CASE g = t
        BY <1>0, <2>1, <2>3, <3>1 DEF Generations
      <3>2. CASE g # t
        <4>1. exchanged[g] = 1
          BY <2>3, <2>4, <3>2
        <4>2. g # t + 1 /\ rows[g] # "live" /\ ~(t < g)
          BY <2>1, <2>2, <4>1 DEF Chain
        <4> QED BY <1>0, <2>1, <2>3, <3>2, <4>2 DEF Generations
      <3> QED BY <3>1, <3>2
    <2>5. ASSUME NEW g \in Generations, rows'[g] # "none"
          PROVE  g <= t + 1
      <3>1. g # t + 1 => rows[g] # "none"
        BY <2>1, <2>3, <2>5
      <3>2. rows[g] # "none" => ~(t < g)
        BY <2>1, <2>2 DEF Chain
      <3> QED BY <1>0, <2>1, <3>1, <3>2 DEF Generations
    <2>6. \A h \in Generations : h <= t => exchanged'[h] = 1
      BY <1>0, <2>1, <2>3 DEF Generations
    <2> QED BY <1>0, <2>1, <2>4, <2>5, <2>6 DEF Chain, Generations
  <1>2. CASE ~\E r \in Requests : CommitExchange(r)
    <2>1. exchanged' = exchanged
      BY <1>2 DEF Next, Works, Begin, LockNext, Locked, Decide, CommitRevocation, RollBack, Age, Clean, vars
    <2>2. \A g \in Generations :
             /\ rows'[g] = "live" => rows[g] = "live"
             /\ rows'[g] # "none" => rows[g] # "none"
      BY <1>2, RowsStep
    <2> SUFFICES ASSUME NEW g \in Generations
                 PROVE  /\ exchanged'[g] = 1 => rows'[g] # "live"
                        /\ exchanged'[g] = 1 \/ rows'[g] # "none" =>
                              \A h \in Generations : h < g => exchanged'[h] = 1
      BY DEF Chain
    <2>3. exchanged'[g] = exchanged[g]
      BY <2>1
    <2>4. /\ rows'[g] = "live" => rows[g] = "live"
          /\ rows'[g] # "none" => rows[g] # "none"
      BY <2>2
    <2>5. /\ exchanged[g] = 1 => rows[g] # "live"
          /\ exchanged[g] = 1 \/ rows[g] # "none" => \A h \in Generations : h < g => exchanged[h] = 1
      BY DEF Chain
    <2>6. exchanged'[g] = 1 => rows'[g] # "live"
      BY <2>3, <2>4, <2>5
    <2>7. ASSUME exchanged'[g] = 1 \/ rows'[g] # "none", NEW h \in Generations, h < g
          PROVE  exchanged'[h] = 1
      <3>1. exchanged[h] = 1
        BY <2>3, <2>4, <2>5, <2>7
      <3> QED BY <2>1, <3>1
    <2> QED BY <2>6, <2>7
  <1> QED BY <1>1, <1>2

\* Rows that are old stay what they are until they are deleted.
LEMMA OldStep ==
    ASSUME FamilyAssumption, Types, Chain, OldAreOver, Writing, [Next]_vars
    PROVE  OldAreOver'
  <1> USE DEF Types, RequestStates, OldAreOver
  <1>1. ASSUME NEW r \in Requests, CommitExchange(r) PROVE OldAreOver'
    BY <1>1 DEF CommitExchange, Writing
  <1>2. ASSUME NEW r \in Requests, CommitRevocation(r) PROVE OldAreOver'
    BY <1>2 DEF CommitRevocation
  <1>3. CASE Age
    BY <1>3 DEF Age
  <1>4. ASSUME NEW g \in Generations, Clean(g) PROVE OldAreOver'
    BY <1>4 DEF Clean
  <1>5. CASE UNCHANGED <<rows, old>>
    BY <1>5
  <1> QED
    BY <1>1, <1>2, <1>3, <1>4, <1>5 DEF Next, Works, Begin, LockNext, Locked, Decide, RollBack, vars
-----------------------------------------------------------------------------
(* What a request does while it is under way *)

Starts(r) ==
    /\ request[r].at = "none" /\ request'[r].at = "locking"
    /\ request'[r].sees = Present
    /\ request'[r].kind = "refresh" => rows[request'[r].token] # "none"

HasAll(r) ==
    /\ request[r].at = "locking" /\ Wanted(r) = {}
    /\ request'[r] = [request[r] EXCEPT !.at = "locked"]

Exchanges(r) ==
    /\ request[r].at = "locked" /\ request[r].kind = "refresh"
    /\ rows[request[r].token] = "live" /\ request[r].token < MaxGeneration
    /\ request'[r] = [request[r] EXCEPT !.at = "writing"]

Revokes(r) ==
    /\ request[r].at = "locked"
    /\ request[r].kind = "refresh" => rows[request[r].token] # "none"
    /\ request'[r] = [request[r] EXCEPT !.at = "revoking", !.sees = Present]

\* A request that goes on keeps its locks, and the rows are as they were.
LEMMA OwnStep ==
    ASSUME FamilyAssumption, Types, NEW r \in Requests, Moves(r), Active(r)'
    PROVE  /\ UNCHANGED <<rows, exchanged, old, ended>>
           /\ \A g \in Generations : locked[g] = r => locked'[g] = r
           /\ Starts(r) \/ request'[r] = request[r] \/ HasAll(r) \/ Exchanges(r) \/ Revokes(r)
  <1> USE DEF Types, Active
  <1>0. Nobody \notin Requests
    BY DEF FamilyAssumption
  <1>1. ASSUME NEW kind \in Kinds, NEW g \in Generations, Begin(r, kind, g)
        PROVE  UNCHANGED <<rows, exchanged, old, ended, locked>> /\ Starts(r)
    <2> DEFINE new == [kind |-> kind, token |-> g, at |-> "locking", sees |-> Present]
    <2>1. request'[r] = new
      BY <1>1 DEF Begin
    <2> QED BY <1>1, <2>1 DEF Begin, Starts, Kinds
  <1>2. ASSUME LockNext(r)
        PROVE  /\ UNCHANGED <<rows, exchanged, old, ended, request>>
               /\ \A g \in Generations : locked[g] = r => locked'[g] = r
    BY <1>0, <1>2 DEF LockNext, Wanted, RequestStates
  <1>3. ASSUME Locked(r)
        PROVE  UNCHANGED <<rows, exchanged, old, ended, locked>> /\ HasAll(r)
    BY <1>3 DEF Locked, HasAll
  <1>4. ASSUME Decide(r)
        PROVE  UNCHANGED <<rows, exchanged, old, ended, locked>> /\ (Exchanges(r) \/ Revokes(r))
    <2>1. CASE request' = [request EXCEPT ![r].at = "done"]
      BY <2>1 DEF RequestStates
    <2>2. CASE request' # [request EXCEPT ![r].at = "done"]
      BY <1>4, <2>2 DEF Decide, Exchanges, Revokes
    <2> QED BY <2>1, <2>2
  <1>5. ~(CommitExchange(r) \/ CommitRevocation(r) \/ RollBack(r))
    BY DEF CommitExchange, CommitRevocation, RollBack, RequestStates
  <1> QED BY <1>1, <1>2, <1>3, <1>4, <1>5 DEF Moves, Works

\* The steps that no request takes.
LEMMA OtherStep ==
    ASSUME Types, [Next]_vars, ~\E r \in Requests : Moves(r)
    PROVE  /\ UNCHANGED <<locked, request, exchanged, ended>>
           /\ (\E q \in Requests : Active(q)) => old' \subseteq old
           /\ \A g \in Generations : rows'[g] # rows[g] =>
                rows'[g] = "none" /\ locked[g] = Nobody /\ g \in old
  <1> USE DEF Types
  <1>1. ASSUME NEW g \in Generations, Clean(g)
        PROVE  /\ UNCHANGED <<locked, request, exchanged, ended>> /\ old' \subseteq old
               /\ \A h \in Generations : rows'[h] # rows[h] =>
                    rows'[h] = "none" /\ locked[h] = Nobody /\ h \in old
    BY <1>1 DEF Clean
  <1>2. CASE Age
    BY <1>2 DEF Age, UnderWay, Active
  <1>3. CASE UNCHANGED vars
    BY <1>3 DEF vars
  <1> QED BY <1>1, <1>2, <1>3 DEF Next, Moves

-----------------------------------------------------------------------------
(* The token of a refresh *)

LEMMA ExchangedStep ==
    ASSUME FamilyAssumption, Types, [Next]_vars, NEW g \in Generations, exchanged[g] = 1,
           Types'
    PROVE  exchanged'[g] = 1
  <1> USE DEF Types, RequestStates
  <1>1. ASSUME NEW r \in Requests, CommitExchange(r) PROVE exchanged'[g] = 1
    BY <1>1 DEF CommitExchange
  <1>2. CASE exchanged' = exchanged
    BY <1>2
  <1> QED
    BY <1>1, <1>2 DEF Next, Works, Begin, LockNext, Locked, Decide, CommitRevocation, RollBack, Age, Clean, vars

LEMMA RefreshingStep ==
    ASSUME FamilyAssumption, Types, Types', Chain, OldAreOver, Refreshing, Writing, [Next]_vars
    PROVE  Refreshing'
  <1> USE DEF Types, RequestStates
  <1>0. MaxGeneration \in Nat
    BY DEF FamilyAssumption
  <1> SUFFICES ASSUME NEW q \in Requests, request'[q].kind = "refresh", Active(q)'
               PROVE  /\ request'[q].token \in request'[q].sees
                      /\ \A h \in Generations : h < request'[q].token => exchanged'[h] = 1
                      /\ Past(q)' /\ rows'[request'[q].token] # "none" =>
                           locked'[request'[q].token] = q
    BY DEF Refreshing
  <1> DEFINE t == request'[q].token
  <1>t. t \in Generations
    OBVIOUS
  <1>1. CASE Moves(q)
    <2>1. /\ UNCHANGED <<rows, exchanged, old, ended>>
          /\ \A g \in Generations : locked[g] = q => locked'[g] = q
          /\ Starts(q) \/ request'[q] = request[q] \/ HasAll(q) \/ Exchanges(q) \/ Revokes(q)
      BY <1>1, OwnStep
    <2>2. CASE Starts(q)
      BY <2>1, <2>2, <1>t DEF Starts, Present, Chain, Past
    <2>3. CASE request'[q] = request[q]
      BY <2>1, <2>3 DEF Refreshing, Active, Past
    <2>4. CASE HasAll(q)
      <3>1. /\ Active(q) /\ request[q].kind = "refresh" /\ request[q].token = t
            /\ request'[q].sees = request[q].sees
        BY <2>4 DEF HasAll, Active
      <3>2. t \in request[q].sees /\ \A h \in Generations : h < t => exchanged[h] = 1
        BY <3>1 DEF Refreshing
      <3>3. rows[t] # "none" => locked[t] = q
        BY <2>4, <3>2, <1>t DEF HasAll, Wanted
      <3> QED BY <2>1, <3>1, <3>2, <3>3, <1>t
    <2>5. CASE Exchanges(q)
      <3>1. /\ Active(q) /\ Past(q) /\ request[q].kind = "refresh" /\ request[q].token = t
            /\ request'[q].sees = request[q].sees
        BY <2>5 DEF Exchanges, Active, Past
      <3> QED BY <2>1, <3>1, <1>t DEF Refreshing
    <2>6. CASE Revokes(q)
      <3>1. /\ Active(q) /\ Past(q) /\ request[q].kind = "refresh" /\ request[q].token = t
            /\ request'[q].sees = Present /\ rows[t] # "none"
        BY <2>6 DEF Revokes, Active, Past
      <3> QED BY <2>1, <3>1, <1>t DEF Refreshing, Present
    <2> QED BY <2>1, <2>2, <2>3, <2>4, <2>5, <2>6
  <1>2. CASE ~Moves(q)
    <2>1. request'[q] = request[q] /\ (locked[t] = q => locked'[t] = q)
      BY <1>2, <1>t, OthersStay, OtherStep
    <2>2. /\ Active(q) /\ request[q].kind = "refresh" /\ request[q].token = t
          /\ Past(q)' => Past(q)
      BY <2>1 DEF Active, Past
    <2>3. /\ t \in request[q].sees
          /\ \A h \in Generations : h < t => exchanged[h] = 1
          /\ Past(q) /\ rows[t] # "none" => locked[t] = q
      BY <2>2 DEF Refreshing
    <2>4. \A h \in Generations : h < t => exchanged'[h] = 1
      BY <2>3, ExchangedStep
    <2>5. rows'[t] # "none" => rows[t] # "none"
      <3>1. SUFFICES ASSUME NEW r \in Requests, CommitExchange(r), t = request[r].token + 1
                     PROVE  FALSE
        BY <1>t, RowsStep
      <3>2. rows[request[r].token] = "live" /\ request[r].token \in Generations
        BY <3>1 DEF CommitExchange, Writing
      <3>3. exchanged[request[r].token] = 1
        BY <1>0, <2>3, <3>1, <3>2 DEF Generations
      <3> QED BY <3>2, <3>3 DEF Chain
    <2> QED BY <2>1, <2>2, <2>3, <2>4, <2>5
  <1> QED BY <1>1, <1>2

\* A live row that a request has locked stays live while the others move.
LEMMA WritingStep ==
    ASSUME FamilyAssumption, Types, Types', Chain, OldAreOver, Refreshing, Writing, [Next]_vars
    PROVE  Writing'
  <1> USE DEF Types, RequestStates
  <1>0. MaxGeneration \in Nat /\ Nobody \notin Requests
    BY DEF FamilyAssumption
  <1> SUFFICES ASSUME NEW q \in Requests, request'[q].at = "writing"
               PROVE  /\ request'[q].kind = "refresh"
                      /\ request'[q].token < MaxGeneration
                      /\ rows'[request'[q].token] = "live"
    BY DEF Writing
  <1>1. CASE Moves(q)
    <2>0. Active(q)'
      BY DEF Active
    <2>1. /\ rows' = rows
          /\ Starts(q) \/ request'[q] = request[q] \/ HasAll(q) \/ Exchanges(q) \/ Revokes(q)
      BY <1>1, <2>0, OwnStep
    <2>2. request'[q] = request[q] \/ Exchanges(q)
      BY <2>1 DEF Starts, HasAll, Revokes
    <2> QED BY <2>1, <2>2 DEF Exchanges, Writing
  <1>2. CASE ~Moves(q)
    <2> DEFINE t == request[q].token
    <2>1. request'[q] = request[q]
      BY <1>2, OthersStay, OtherStep
    <2>2. /\ request[q].kind = "refresh" /\ t < MaxGeneration /\ rows[t] = "live"
          /\ t \in Generations
      BY <2>1 DEF Writing
    <2>3. locked[t] = q
      BY <2>1, <2>2 DEF Refreshing, Active, Past
    <2>4. ASSUME NEW r \in Requests, CommitExchange(r) PROVE rows'[t] = "live"
      <3> DEFINE s == request[r].token
      <3>0. s \in Generations /\ rows[s] = "live" /\ request[r].kind = "refresh"
        BY <2>4 DEF CommitExchange, Writing
      <3>1. r # q
        BY <1>2, <2>4 DEF Moves, Works
      <3>2. locked[s] = r
        BY <2>4, <3>0 DEF Refreshing, Active, Past, CommitExchange
      <3>3. t # s
        BY <2>3, <3>1, <3>2
      <3> QED BY <2>2, <2>4, <3>0, <3>3 DEF CommitExchange
    <2>5. ASSUME NEW r \in Requests, CommitRevocation(r) PROVE rows'[t] = "live"
      <3>1. r # q
        BY <1>2, <2>5 DEF Moves, Works
      <3>2. t \notin request[r].sees
        BY <2>2, <2>3, <2>5, <3>1 DEF CommitRevocation, Wanted
      <3> QED BY <2>2, <2>5, <3>2 DEF CommitRevocation
    <2>6. ASSUME NEW g \in Generations, Clean(g) PROVE rows'[t] = "live"
      BY <1>0, <2>2, <2>3, <2>6 DEF Clean
    <2>7. ASSUME rows' = rows PROVE rows'[t] = "live"
      <3>1. rows'[t] = rows[t]
        BY <2>7
      <3> QED BY <2>2, <3>1
    <2>8. rows'[t] = "live"
      BY <2>4, <2>5, <2>6, <2>7, RowsChange
    <2> QED BY <2>1, <2>2, <2>8
  <1> QED BY <1>1, <1>2

-----------------------------------------------------------------------------
(* What the requests see *)

\* A request that goes on sees what it saw, or all there is.
LEMMA SeesStep ==
    ASSUME FamilyAssumption, Types, [Next]_vars, NEW q \in Requests, Active(q)'
    PROVE  \/ Active(q) /\ request'[q].sees = request[q].sees
           \/ /\ request'[q].sees = Present /\ rows' = rows /\ old' = old
              /\ \A p \in Requests \ {q} : request'[p] = request[p]
  <1>1. CASE Moves(q)
    <2>1. Starts(q) \/ request'[q] = request[q] \/ HasAll(q) \/ Exchanges(q) \/ Revokes(q)
      BY <1>1, OwnStep
    <2>2. request'[q].sees = Present \/ (Active(q) /\ request'[q].sees = request[q].sees)
      BY <2>1 DEF Starts, HasAll, Exchanges, Revokes, Active, Types, RequestStates
    <2>3. rows' = rows /\ old' = old /\ \A p \in Requests \ {q} : request'[p] = request[p]
      BY <1>1, OwnStep, OthersStay
    <2> QED BY <2>2, <2>3
  <1>2. CASE ~Moves(q)
    <2>1. request'[q] = request[q]
      BY <1>2, OthersStay, OtherStep
    <2> QED BY <2>1 DEF Active
  <1> QED BY <1>1, <1>2

\* A row that a request under way has seen, and that is not old, stays.
LEMMA RowStays ==
    ASSUME FamilyAssumption, Types, Chain, OldAreOver, Writing, [Next]_vars,
           NEW q \in Requests, Active(q), NEW x \in Generations, rows[x] # "none", x \notin old
    PROVE  rows'[x] # "none" /\ x \notin old'
  <1>1. rows'[x] # "none"
    BY RowsStep
  <1>2. CASE \E r \in Requests : Moves(r)
    BY <1>1, <1>2, OthersStay
  <1>3. CASE ~\E r \in Requests : Moves(r)
    BY <1>1, <1>3, OtherStep
  <1> QED BY <1>2, <1>3

\* So two requests go on seeing it, also when one of them looks again.
LEMMA CommonStep ==
    ASSUME FamilyAssumption, Types, Chain, OldAreOver, Writing, [Next]_vars,
           NEW q \in Requests, NEW r \in Requests, Active(q), Active(r), Active(q)', Active(r)',
           NEW x \in Generations, Common(q, r, x)
    PROVE  Common(q, r, x)'
  <1>1. rows'[x] # "none" /\ x \notin old'
    BY RowStays DEF Common
  <1>2. x \in request'[q].sees /\ x \in request'[r].sees
    BY SeesStep DEF Common, Present
  <1> QED BY <1>1, <1>2 DEF Common

LEMMA MeetStep ==
    ASSUME FamilyAssumption, Types, Chain, OldAreOver, Writing, Meet, [Next]_vars
    PROVE  Meet'
  <1> SUFFICES ASSUME NEW q \in Requests, NEW r \in Requests, Alive', Active(q)', Active(r)'
               PROVE  \E x \in Generations : Common(q, r, x)'
    BY DEF Meet
  <1>1. Alive
    <2>1. PICK g \in Generations : rows'[g] = "live"
      BY DEF Alive
    <2> QED BY <2>1, RowsStep
  <1>2. CASE Active(q) /\ Active(r)
    BY <1>1, <1>2, CommonStep DEF Meet
  <1>3. CASE ~Active(q) /\ ~Active(r)
    <2>1. request'[q].sees = Present /\ request'[r].sees = Present /\ rows' = rows /\ old' = old
      BY <1>3, SeesStep
    <2>2. PICK x \in Generations : rows[x] = "live"
      BY <1>1 DEF Alive
    <2>3. x \notin old
      BY <2>2 DEF OldAreOver
    <2> QED BY <2>1, <2>2, <2>3 DEF Common, Present
  <1>4. ASSUME NEW p \in Requests, NEW s \in Requests, ~Active(p), Active(s), Active(p)'
        PROVE  \E x \in Generations : Common(p, s, x)' /\ Common(s, p, x)'
    <2>1. /\ request'[p].sees = Present /\ rows' = rows /\ old' = old
          /\ request'[s] = request[s]
      BY <1>4, SeesStep
    <2>2. PICK x \in Generations : Common(s, s, x)
      BY <1>1, <1>4 DEF Meet
    <2> QED BY <2>1, <2>2 DEF Common, Present
  <1> QED BY <1>2, <1>3, <1>4

-----------------------------------------------------------------------------
(* One request at a time is past the locks *)

\* A request gets past the locks by holding every row it sees.
LEMMA PastStep ==
    ASSUME FamilyAssumption, Types, [Next]_vars, NEW q \in Requests, Past(q)'
    PROVE  /\ Active(q)
           /\ \A g \in Generations : locked[g] = q => locked'[g] = q
           /\ \/ Past(q)
              \/ /\ HasAll(q) /\ rows' = rows
                 /\ \A p \in Requests \ {q} : request'[p] = request[p]
  <1>0. Active(q)'
    BY DEF Active, Past
  <1>1. CASE Moves(q)
    <2>1. /\ rows' = rows
          /\ \A g \in Generations : locked[g] = q => locked'[g] = q
          /\ Starts(q) \/ request'[q] = request[q] \/ HasAll(q) \/ Exchanges(q) \/ Revokes(q)
      BY <1>0, <1>1, OwnStep
    <2>2. Active(q) /\ (Past(q) \/ HasAll(q))
      BY <2>1 DEF Starts, HasAll, Exchanges, Revokes, Active, Past
    <2>3. \A p \in Requests \ {q} : request'[p] = request[p]
      BY <1>1, OthersStay
    <2> QED BY <2>1, <2>2, <2>3
  <1>2. CASE ~Moves(q)
    <2>1. request'[q] = request[q] /\ \A g \in Generations : locked[g] = q => locked'[g] = q
      BY <1>2, OthersStay, OtherStep
    <2> QED BY <2>1 DEF Active, Past
  <1> QED BY <1>1, <1>2

LEMMA AliveStep ==
    ASSUME FamilyAssumption, Types, Chain, OldAreOver, Writing, [Next]_vars, Alive'
    PROVE  Alive
  <1>1. PICK g \in Generations : rows'[g] = "live"
    BY DEF Alive
  <1> QED BY <1>1, RowsStep

LEMMA HoldsStep ==
    ASSUME FamilyAssumption, Types, Chain, OldAreOver, Writing, Meet, Holds, [Next]_vars
    PROVE  Holds'
  <1> SUFFICES ASSUME NEW q \in Requests, NEW r \in Requests, Alive', Past(q)', Active(r)'
               PROVE  \E x \in Generations : Common(q, r, x)' /\ locked'[x] = q
    BY DEF Holds
  <1>0. Alive /\ Active(q) /\ Active(q)'
    BY AliveStep, PastStep DEF Active, Past
  <1>1. \A g \in Generations : locked[g] = q => locked'[g] = q
    BY PastStep
  <1>2. CASE Active(r)
    <2>1. PICK x \in Generations : Common(q, r, x) /\ locked[x] = q
      <3>1. CASE Past(q)
        BY <1>0, <1>2, <3>1 DEF Holds
      <3>2. CASE HasAll(q)
        <4>1. PICK x \in Generations : Common(q, r, x)
          BY <1>0, <1>2 DEF Meet
        <4> QED BY <3>2, <4>1 DEF HasAll, Wanted, Common
      <3> QED BY <3>1, <3>2, PastStep
    <2>2. Common(q, r, x)'
      BY <1>0, <1>2, <2>1, CommonStep
    <2> QED BY <1>1, <2>1, <2>2
  <1>3. CASE ~Active(r)
    <2>0. r # q
      BY <1>0, <1>3
    <2>1. /\ request'[r].sees = Present /\ rows' = rows /\ old' = old
          /\ request'[q] = request[q]
      BY <1>3, <2>0, SeesStep
    <2>2. Past(q)
      BY <2>1 DEF Past
    <2>3. PICK x \in Generations : Common(q, q, x) /\ locked[x] = q
      BY <1>0, <2>2 DEF Holds
    <2> QED BY <1>1, <2>1, <2>3 DEF Common, Present
  <1> QED BY <1>2, <1>3

LEMMA OnePastStep ==
    ASSUME FamilyAssumption, Types, Chain, OldAreOver, Writing, Holds, OnePast, [Next]_vars
    PROVE  OnePast'
  <1> SUFFICES ASSUME NEW q \in Requests, NEW r \in Requests, Alive', Past(q)', Past(r)', q # r
               PROVE  FALSE
    BY DEF OnePast
  <1>0. Alive /\ Active(q) /\ Active(r)
    BY AliveStep, PastStep
  <1>1. ASSUME NEW p \in Requests, NEW s \in Requests, p # s, HasAll(p), Past(s), Active(p)
        PROVE  FALSE
    <2>1. PICK x \in Generations : Common(s, p, x) /\ locked[x] = s
      BY <1>0, <1>1 DEF Holds
    <2> QED BY <1>1, <2>1 DEF HasAll, Wanted, Common
  <1>2. ASSUME NEW p \in Requests, NEW s \in Requests, p # s, HasAll(p), Past(s)',
               \A o \in Requests \ {p} : request'[o] = request[o]
        PROVE  Past(s)
    BY <1>2 DEF Past
  <1>3. (Past(q) \/ HasAll(q)) /\ (Past(r) \/ HasAll(r))
    BY PastStep
  <1>4. CASE Past(q) /\ Past(r)
    BY <1>0, <1>4 DEF OnePast
  <1>5. CASE ~Past(q)
    <2>1. HasAll(q) /\ Past(r)
      BY <1>2, <1>5, PastStep
    <2> QED BY <1>0, <1>1, <2>1
  <1>6. CASE ~Past(r)
    <2>1. HasAll(r) /\ Past(q)
      BY <1>2, <1>6, PastStep
    <2> QED BY <1>0, <1>1, <2>1
  <1> QED BY <1>4, <1>5, <1>6

-----------------------------------------------------------------------------
(* The end of the family *)

\* No row becomes live behind the back of a revocation.
LEMMA SeesAllStep ==
    ASSUME FamilyAssumption, Types, Types', Chain, OldAreOver, Writing, OnePast, SeesAll, [Next]_vars
    PROVE  SeesAll'
  <1> SUFFICES ASSUME NEW q \in Requests, NEW g \in Generations,
                      request'[q].at = "revoking", rows'[g] = "live"
               PROVE  g \in request'[q].sees
    BY DEF SeesAll
  <1>0. Active(q)' /\ Past(q)'
    BY DEF Active, Past
  <1>1. CASE request'[q].sees = Present /\ rows' = rows
    BY <1>1 DEF Present
  <1>2. CASE request'[q] = request[q]
    <2>1. rows[g] = "live"
      <3>1. SUFFICES ASSUME NEW r \in Requests, CommitExchange(r) PROVE FALSE
        BY RowsStep
      <3>2. Alive /\ Past(r) /\ Past(q)
        BY <1>2, <3>1 DEF CommitExchange, Writing, Alive, Past, Types, RequestStates
      <3>3. r = q
        BY <3>2 DEF OnePast
      <3> QED BY <1>2, <3>1, <3>3 DEF CommitExchange
    <2> QED BY <1>2, <2>1 DEF SeesAll
  <1>3. CASE Moves(q)
    <2>1. Starts(q) \/ request'[q] = request[q] \/ HasAll(q) \/ Exchanges(q) \/ Revokes(q)
      BY <1>0, <1>3, OwnStep
    <2>2. rows' = rows
      BY <1>0, <1>3, OwnStep
    <2>3. request'[q] = request[q] \/ request'[q].sees = Present
      BY <2>1 DEF Starts, HasAll, Exchanges, Revokes, Types, RequestStates
    <2> QED BY <1>1, <1>2, <2>2, <2>3
  <1>4. CASE ~Moves(q)
    BY <1>2, <1>4, OthersStay, OtherStep
  <1> QED BY <1>3, <1>4

LEMMA EndedStep ==
    ASSUME FamilyAssumption, Types, Chain, OldAreOver, Writing, SeesAll, EndedStaysEnded, [Next]_vars
    PROVE  EndedStaysEnded'
  <1>1. ASSUME NEW r \in Requests, CommitRevocation(r) PROVE ~Alive'
    BY <1>1 DEF CommitRevocation, SeesAll, Alive, Types
  <1>2. CASE ended' = ended
    BY <1>2, AliveStep DEF EndedStaysEnded, Alive
  <1> QED
    BY <1>1, <1>2 DEF EndedStaysEnded, Alive, Next, Works, Begin, LockNext, Locked, Decide,
       CommitExchange, RollBack, Age, Clean, vars

-----------------------------------------------------------------------------
(* The theorems *)

LEMMA InvInit == ASSUME FamilyAssumption, Init PROVE Inv
  <1> USE DEF Init, Idle
  <1>1. Types
    BY TypesInit
  <1>2. Chain
    BY DEF Chain, Generations, FamilyAssumption
  <1>3. OldAreOver /\ EndedStaysEnded
    BY DEF OldAreOver, EndedStaysEnded
  <1>4. \A r \in Requests : request[r].at = "none"
    OBVIOUS
  <1>5. Refreshing /\ Writing /\ Meet /\ Holds /\ OnePast /\ SeesAll
    BY <1>4 DEF Refreshing, Writing, Meet, Holds, OnePast, SeesAll, Active, Past
  <1> QED BY <1>1, <1>2, <1>3, <1>5 DEF Inv

LEMMA InvStep == ASSUME FamilyAssumption, Inv, [Next]_vars PROVE Inv'
  BY TypesStep, ChainStep, OldStep, RefreshingStep, WritingStep, MeetStep, HoldsStep, OnePastStep,
     SeesAllStep, EndedStep DEF Inv

LEMMA InvHolds == ASSUME FamilyAssumption PROVE Spec => []Inv
  <1>1. Init => Inv
    BY InvInit
  <1>2. Inv /\ [Next]_vars => Inv'
    BY InvStep
  <1> QED BY <1>1, <1>2, PTL DEF Spec

\* What a request may find in the tables (session_store.go, the schema of
\* auth_sessions): an exchange has a request that made it.
THEOREM FamilyTypes == ASSUME FamilyAssumption PROVE Spec => []TypeOK
  <1> DEFINE Asked == (\E g \in Generations : exchanged[g] # 0) => Requests # {}
  <1>1. Init => Asked
    BY DEF Init
  <1>2. Inv /\ Asked /\ [Next]_vars => Asked'
    <2>1. ASSUME Requests = {}, Next PROVE exchanged' = exchanged
      BY <2>1 DEF Next, Age, Clean
    <2> QED BY <2>1 DEF vars
  <1>3. Inv /\ Asked => TypeOK
    <2> SUFFICES ASSUME Inv, Asked PROVE TypeOK
      OBVIOUS
    <2>1. Cardinality(Requests) \in Nat /\ (Requests # {} => Cardinality(Requests) # 0)
      BY FS_CardinalityType, FS_EmptySet DEF FamilyAssumption
    <2>2. exchanged \in [Generations -> 0 .. Cardinality(Requests)]
      BY <2>1 DEF Inv, Types
    <2> QED BY <2>2 DEF Inv, Types, RequestStates, TypeOK
  <1> QED BY <1>1, <1>2, <1>3, InvHolds, PTL DEF Spec

\* A refresh token is good for one exchange, by one request, while its family
\* lives; once the family has ended none of its tokens is, also if a refresh was
\* under way (session_store.go:155-233, :267-273, :378-382).
THEOREM SpentOnce == ASSUME FamilyAssumption PROVE Spec => []TokensAreSpentOnce
  <1>1. ASSUME Types, Chain PROVE Cardinality({g \in Generations : rows[g] = "live"}) <= 1
    <2> DEFINE L == {g \in Generations : rows[g] = "live"}
    <2>1. \A g, h \in L : g = h
      <3> SUFFICES ASSUME NEW g \in L, NEW h \in L, g < h PROVE FALSE
        BY DEF Generations, FamilyAssumption
      <3>1. exchanged[g] = 1
        BY <1>1 DEF Chain
      <3> QED BY <1>1, <3>1 DEF Chain
    <2> HIDE DEF L
    <2>2. ASSUME L = {} PROVE Cardinality(L) = 0
      BY <2>2, FS_EmptySet
    <2>3. ASSUME NEW g \in L PROVE Cardinality(L) = 1
      <3>1. L = {g}
        BY <2>1
      <3> QED BY <3>1, FS_Singleton
    <2>4. Cardinality(L) <= 1
      BY <2>2, <2>3, FS_EmptySet
    <2> QED BY <2>4 DEF L
  <1>2. Inv => TokensAreSpentOnce
    <2> SUFFICES ASSUME Inv PROVE TokensAreSpentOnce
      OBVIOUS
    <2>1. \A g \in Generations : exchanged[g] <= 1
      BY DEF Inv, Types
    <2> QED BY <1>1, <2>1 DEF Inv, ExchangedOnce, TokensAreSpentOnce
  <1> QED BY <1>2, InvHolds, PTL
=============================================================================
