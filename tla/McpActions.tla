------------------------------ MODULE McpActions ------------------------------
(***************************************************************************)
(* McpActionService: a client asks for an operation on a plan, a human      *)
(* approves it, and the domain service is called at most once, whatever is  *)
(* repeated, changed in between, or interrupted.                            *)
(***************************************************************************)
EXTENDS Naturals, FiniteSets

CONSTANTS
    Requests,     \* the idempotency keys one client uses
    Plans,
    PlanOf,       \* the plan each request is about
    MaxPending,   \* live actions one token may have (10 in the code)
    MaxChanges,   \* bound: changes of one plan, and revisions of the token
    MaxRestarts   \* bound: crashes of the server

ASSUME ActionsAssumption ==
    /\ PlanOf \in [Requests -> Plans]
    /\ {MaxPending, MaxChanges, MaxRestarts} \subseteq Nat

VARIABLES
    actions,    \* mcp_actions: status, expires_at has passed, and what was previewed
    token,      \* the client's token
    plans,      \* what state_hash is taken of, one number per plan
    calls,      \* requests whose call of the domain service has not returned
    restarts

actionVars == <<actions, token, plans, calls, restarts>>

NewAction ==
    [status |-> "none", overdue |-> FALSE, tokenRevision |-> 0, stateHash |-> 0]
LiveStatus == {"pending_approval", "executing", "uncertain"}

\* expire, the first thing every handler does
Expire(rows) ==
    [r \in Requests |-> IF rows[r].status = "pending_approval" /\ rows[r].overdue
                        THEN [rows[r] EXCEPT !.status = "expired"] ELSE rows[r]]

\* A repeated request finds the row of the first one, however it ended.
Known(r) == actions[r].status # "none"

\* What counts when a request is admitted: submit expires rows first.
Live == {r \in Requests : Expire(actions)[r].status \in LiveStatus}

Occupied(p) == \E k \in Live : PlanOf[k] = p

Submit(r) ==
    /\ token.state = "enabled" /\ ~Known(r)
    /\ Cardinality(Live) < MaxPending /\ ~Occupied(PlanOf[r])
    /\ actions' = [Expire(actions) EXCEPT ![r] =
         [status |-> "pending_approval", overdue |-> FALSE,
          tokenRevision |-> token.revision, stateHash |-> plans[PlanOf[r]]]]
    /\ UNCHANGED <<token, plans, calls, restarts>>

\* list, status, pendingCount and a repeated submit change nothing else.
Read ==
    /\ Expire(actions) # actions /\ actions' = Expire(actions)
    /\ UNCHANGED <<token, plans, calls, restarts>>

Pending(r) == actions[r].status = "pending_approval" /\ ~actions[r].overdue

Reject(r) ==
    /\ Pending(r)
    /\ actions' = [Expire(actions) EXCEPT ![r].status = "rejected"]
    /\ UNCHANGED <<token, plans, calls, restarts>>

\* admit and snapshot, taken again in the transaction of the approval
StillAsShown(r) ==
    /\ token.state = "enabled" /\ token.revision = actions[r].tokenRevision
    /\ plans[PlanOf[r]] = actions[r].stateHash

\* approve: the claim is durable, and the service is entered without an await.
Approve(r) ==
    /\ Pending(r) /\ StillAsShown(r)
    /\ actions' = [Expire(actions) EXCEPT ![r].status = "executing"]
    /\ calls' = calls \cup {r}
    /\ UNCHANGED <<token, plans, restarts>>

\* The call returns, or throws after it may have done anything.
Complete(r, status) ==
    /\ r \in calls
    /\ actions' = [actions EXCEPT ![r].status = status]
    /\ calls' = calls \ {r}
    /\ UNCHANGED <<token, plans, restarts>>

ReconcileAction(r) ==
    /\ actions[r].status = "uncertain"
    /\ actions' = [actions EXCEPT ![r].status = "failed"]
    /\ UNCHANGED <<token, plans, calls, restarts>>

\* Mutant of Recovered: an interrupted action is offered again.
RecoveredPending(rows) ==
    [r \in Requests |-> IF rows[r].status = "executing"
                        THEN [rows[r] EXCEPT !.status = "pending_approval"] ELSE rows[r]]

\* recoverInterrupted, at the next start
Recovered(rows) ==
    [r \in Requests |-> IF rows[r].status = "executing"
                        THEN [rows[r] EXCEPT !.status = "uncertain"] ELSE rows[r]]

Restart ==
    /\ restarts < MaxRestarts /\ restarts' = restarts + 1
    /\ actions' = Recovered(Expire(actions))
    /\ calls' = {}
    /\ UNCHANGED <<token, plans>>
-----------------------------------------------------------------------------
(* The rest of the server. *)

\* expires_at passes.
Lapse(r) ==
    /\ Pending(r)
    /\ actions' = [actions EXCEPT ![r].overdue = TRUE]
    /\ UNCHANGED <<token, plans, calls, restarts>>

\* A user, a backup or the called service changes what the hash covers.
ChangePlan(p) ==
    /\ plans[p] < MaxChanges
    /\ plans' = [plans EXCEPT ![p] = @ + 1]
    /\ UNCHANGED <<actions, token, calls, restarts>>

\* configure, setDisabled, revoke
EditToken ==
    /\ token.revision < MaxChanges
    /\ \E state \in {"enabled", "disabled", "revoked"} :
         /\ token.state = "revoked" => state = "revoked"
         /\ token' = [state |-> state, revision |-> token.revision + 1]
    /\ UNCHANGED <<actions, plans, calls, restarts>>

ActionsInit ==
    /\ actions = [r \in Requests |-> NewAction]
    /\ token = [state |-> "enabled", revision |-> 0]
    /\ plans = [p \in Plans |-> 0]
    /\ calls = {} /\ restarts = 0

ActionsNext ==
    \/ \E r \in Requests :
         \/ Submit(r) \/ Reject(r) \/ Approve(r) \/ Lapse(r) \/ ReconcileAction(r)
         \/ \E status \in {"dispatched", "uncertain"} : Complete(r, status)
    \/ \E p \in Plans : ChangePlan(p)
    \/ Read \/ EditToken \/ Restart

ActionsSpec == ActionsInit /\ [][ActionsNext]_actionVars
-----------------------------------------------------------------------------
(* Properties. *)

ActionRow ==
    [status : LiveStatus \cup {"none", "rejected", "expired", "dispatched", "failed"},
     overdue : BOOLEAN, tokenRevision : Nat, stateHash : Nat]

\* Every variable holds what the table, the token and the service keep.
ActionTypeOK ==
    /\ actions \in [Requests -> ActionRow]
    /\ token \in [state : {"enabled", "disabled", "revoked"}, revision : Nat]
    /\ plans \in [Plans -> Nat]
    /\ calls \subseteq Requests /\ restarts \in Nat

\* A request whose time has passed counts as withdrawn, whether or not it is marked yet.
ActionPhase(row) ==
    CASE row.status = "none"                             -> "new"
      [] row.status = "pending_approval" /\ ~row.overdue -> "open"
      [] row.status = "executing"                        -> "held"
      [] row.status = "uncertain"                        -> "doubt"
      [] OTHER                                           -> "done"

actionPhases == [r \in Requests |-> ActionPhase(actions[r])]

ActionTable == INSTANCE DurableClaim WITH
    Items   <- Requests,
    Rivals  <- [r \in Requests |-> {k \in Requests : PlanOf[k] = PlanOf[r]}],
    phase   <- actionPhases,
    working <- calls

\* McpActionService implements DurableClaim with the actions of one plan as rivals: a
\* request calls the domain service at most once and never after it was rejected, expired
\* or interrupted, however often it is submitted or approved and whenever the server
\* restarts; and no two calls for one plan are under way at once.
ActionClaim == ActionTable!ClaimSpec
=============================================================================
