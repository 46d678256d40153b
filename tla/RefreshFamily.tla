---------------------------- MODULE RefreshFamily ----------------------------
(***************************************************************************)
(* One family of refresh tokens (store/session_store.go: Rotate,           *)
(* RevokeByRefreshTokenHash, lockRefreshTokenFamily,                       *)
(* lockAndRevokeSessions; store/retention_postgres.go).                    *)
(*                                                                         *)
(* The rows of auth_sessions with the family's id are its generations.     *)
(* Transactions are READ COMMITTED: each statement sees the rows that were *)
(* committed when it began, waits for the row locks of others, and sees a  *)
(* row it has waited for as the other transaction left it.  A row that was *)
(* inserted after a statement began is not seen by it.                     *)
(***************************************************************************)
EXTENDS Naturals, FiniteSets

CONSTANTS
    Requests,        \* requests to the server: refreshes, logouts and revocations
    MaxGeneration    \* bound: generations of the family

Nobody == "nobody"

FamilyAssumption ==
    MaxGeneration \in Nat /\ IsFiniteSet(Requests) /\ Nobody \notin Requests

Generations == 0 .. MaxGeneration

VARIABLES
    rows,       \* committed rows: "none", "live", "rotated", "revoked"
    locked,     \* who holds the lock of a row
    request,    \* what a request does, where it is, and what its statement sees
    old,        \* rows whose retention is over
    exchanged,  \* successful exchanges of a generation
    ended       \* a revocation of the family has been committed

vars == <<rows, locked, request, old, exchanged, ended>>

Idle == [kind |-> "none", token |-> 0, at |-> "none", sees |-> {}]

Kinds == {"refresh", "logout", "revoke"}

TypeOK ==
    /\ rows \in [Generations -> {"none", "live", "rotated", "revoked"}]
    /\ locked \in [Generations -> Requests \cup {Nobody}]
    /\ \A r \in Requests :
          /\ request[r].kind \in Kinds \cup {"none"}
          /\ request[r].token \in Generations
          /\ request[r].at \in {"none", "locking", "locked", "revoking", "writing", "done"}
          /\ request[r].sees \subseteq Generations
    /\ exchanged \in [Generations -> 0 .. Cardinality(Requests)]
    /\ old \subseteq Generations
    /\ ended \in BOOLEAN

Init ==
    /\ rows = [g \in Generations |-> IF g = 0 THEN "live" ELSE "none"]
    /\ locked = [g \in Generations |-> Nobody]
    /\ request = [r \in Requests |-> Idle]
    /\ exchanged = [g \in Generations |-> 0]
    /\ old = {}
    /\ ended = FALSE

Present == {g \in Generations : rows[g] # "none"}

Unlocked(r) == [g \in Generations |-> IF locked[g] = r THEN Nobody ELSE locked[g]]

\* A request finds the family of its token, and the statement that locks the
\* family begins.  A revocation by user or device begins with that statement.
Begin(r, kind, g) ==
    /\ request[r].at = "none"
    /\ rows[g] # "none" \/ kind = "revoke"
    /\ request' = [request EXCEPT ![r] = [kind |-> kind, token |-> g, at |-> "locking",
                                          sees |-> Present]]
    /\ UNCHANGED <<rows, locked, old, exchanged, ended>>

\* What a statement has still to lock; a row that was deleted is passed over.
Wanted(r) == {g \in request[r].sees : rows[g] # "none" /\ locked[g] # r}

\* Faulty variant of LockNext: the rows are locked in any order.
LockAny(r) ==
    /\ request[r].at \in {"locking", "revoking"}
    /\ \E g \in Wanted(r) : locked[g] = Nobody /\ locked' = [locked EXCEPT ![g] = r]
    /\ UNCHANGED <<rows, request, old, exchanged, ended>>

\* ORDER BY generation FOR UPDATE.
LockNext(r) ==
    /\ request[r].at \in {"locking", "revoking"}
    /\ \E g \in Wanted(r) :
          /\ \A other \in Wanted(r) : g <= other
          /\ locked[g] = Nobody
          /\ locked' = [locked EXCEPT ![g] = r]
    /\ UNCHANGED <<rows, request, old, exchanged, ended>>

\* The family is locked.
Locked(r) ==
    /\ request[r].at = "locking" /\ Wanted(r) = {}
    /\ request' = [request EXCEPT ![r].at = "locked"]
    /\ UNCHANGED <<rows, locked, old, exchanged, ended>>

\* Faulty variant of Decide: the update that revokes the family takes the rows
\* the lock statement saw.
DecideOfTheSnapshot(r) ==
    LET g == request[r].token
    IN  /\ request[r].at = "locked"
        /\ IF request[r].kind = "refresh" /\ rows[g] = "live" /\ g < MaxGeneration
           THEN request' = [request EXCEPT ![r].at = "writing"]
           ELSE IF request[r].kind # "refresh" \/ rows[g] = "rotated"
           THEN request' = [request EXCEPT ![r].at = "revoking"]
           ELSE request' = [request EXCEPT ![r].at = "done"]
        /\ locked' = IF request'[r].at = "done" THEN Unlocked(r) ELSE locked
        /\ UNCHANGED <<rows, old, exchanged, ended>>

\* The statements after the lock.  A token that is live is exchanged; for one
\* that was exchanged before, and for a logout or a revocation, the update of
\* the family begins, with a view of its own; anything else is refused.
Decide(r) ==
    LET g == request[r].token
    IN  /\ request[r].at = "locked"
        /\ IF request[r].kind = "refresh" /\ rows[g] = "live"
           THEN /\ g < MaxGeneration
                /\ request' = [request EXCEPT ![r].at = "writing"]
                /\ locked' = locked
           ELSE IF request[r].kind # "refresh" \/ rows[g] = "rotated"
           THEN /\ request' = [request EXCEPT ![r].at = "revoking", ![r].sees = Present]
                /\ locked' = locked
           ELSE /\ request' = [request EXCEPT ![r].at = "done"]
                /\ locked' = Unlocked(r)
        /\ UNCHANGED <<rows, old, exchanged, ended>>

\* Faulty variant of CommitExchange: the old row stays as it was.
CommitUnconsumed(r) ==
    LET g == request[r].token
    IN  /\ request[r].at = "writing"
        /\ rows' = [rows EXCEPT ![g + 1] = "live"]
        /\ exchanged' = [exchanged EXCEPT ![g] = @ + 1]
        /\ request' = [request EXCEPT ![r].at = "done"]
        /\ locked' = Unlocked(r)
        /\ UNCHANGED <<old, ended>>

\* Rotate commits: the old row is consumed, the next one is there.  Should it be
\* there already the unique index refuses it.
CommitExchange(r) ==
    LET g == request[r].token
    IN  /\ request[r].at = "writing"
        /\ IF rows[g + 1] = "none"
           THEN /\ rows' = [rows EXCEPT ![g] = "rotated", ![g + 1] = "live"]
                /\ exchanged' = [exchanged EXCEPT ![g] = @ + 1]
           ELSE UNCHANGED <<rows, exchanged>>
        /\ request' = [request EXCEPT ![r].at = "done"]
        /\ locked' = Unlocked(r)
        /\ UNCHANGED <<old, ended>>

\* The update of the family has all its rows and commits.
CommitRevocation(r) ==
    /\ request[r].at = "revoking" /\ Wanted(r) = {}
    /\ rows' = [g \in Generations |-> IF g \in request[r].sees /\ rows[g] = "live" THEN "revoked" ELSE rows[g]]
    /\ ended' = TRUE
    /\ request' = [request EXCEPT ![r].at = "done"]
    /\ locked' = Unlocked(r)
    /\ UNCHANGED <<old, exchanged>>

\* A request that fails, or whose time is over, is rolled back.
RollBack(r) ==
    /\ request[r].at \in {"locking", "locked", "revoking", "writing"}
    /\ request' = [request EXCEPT ![r].at = "done"]
    /\ locked' = Unlocked(r)
    /\ UNCHANGED <<rows, old, exchanged, ended>>

UnderWay == {r \in Requests : request[r].at \notin {"none", "done"}}

\* Revoked rows become old; no request lasts as long as that takes.
Age ==
    /\ UnderWay = {}
    /\ old' = {g \in Generations : rows[g] \in {"rotated", "revoked"}}
    /\ old' # old
    /\ UNCHANGED <<rows, locked, request, exchanged, ended>>

\* Faulty variant of Clean: rows that are locked are deleted too, live ones as well.
CleanAny(g) ==
    /\ rows' = [rows EXCEPT ![g] = "expired"]
    /\ old' = old \ {g}
    /\ UNCHANGED <<locked, request, exchanged, ended>>

\* CleanupAuthSessions: old rows that nobody has locked.
Clean(g) ==
    /\ g \in old /\ locked[g] = Nobody
    /\ rows' = [rows EXCEPT ![g] = "none"]
    /\ old' = old \ {g}
    /\ UNCHANGED <<locked, request, exchanged, ended>>

Works(r) ==
    LockNext(r) \/ Locked(r) \/ Decide(r) \/ CommitExchange(r) \/ CommitRevocation(r)

Next ==
    \/ \E r \in Requests :
          \/ \E kind \in Kinds, g \in Generations : Begin(r, kind, g)
          \/ Works(r) \/ RollBack(r)
    \/ Age
    \/ \E g \in Generations : Clean(g)

Spec == Init /\ [][Next]_vars

LiveSpec == Spec /\ \A r \in Requests : WF_vars(Works(r))

(***************************************************************************)
(* Properties                                                              *)
(***************************************************************************)

\* A token is exchanged once, by one of the requests that hold it, and the
\* family has one generation that is live (session_store.go:155-233).
ExchangedOnce ==
    /\ \A g \in Generations : exchanged[g] <= 1
    /\ Cardinality({g \in Generations : rows[g] = "live"}) <= 1

\* Once a logout, a revocation or a replayed token has ended the family, none of
\* its generations is live, also if a refresh was under way
\* (session_store.go:176-187, :267-273, :378-382).
EndedStaysEnded ==
    ended => \A g \in Generations : rows[g] # "live"

\* A refresh token is good for one exchange, by one request, while its family
\* lives (RotateRefreshToken, RevokeSession and the replay check between them).
TokensAreSpentOnce == ExchangedOnce /\ EndedStaysEnded

\* The requests never wait for each other in a circle: each one ends, as long as
\* the others do (the order of the locks, session_store.go:300).
RequestsEnd ==
    \A r \in Requests : request[r].at = "locking" ~> request[r].at = "done"
=============================================================================
