--------------------------- MODULE McpActionsProofs ---------------------------
(***************************************************************************)
(* For any number of requests, plans, changes and restarts, McpActions      *)
(* implements DurableClaim.                                                 *)
(***************************************************************************)
EXTENDS McpActions, TLAPS

\* A plan has at most one live action, and the calls under way are those of the rows
\* that are executing.
OneLiveAction ==
    /\ \A r, k \in Requests : /\ PlanOf[r] = PlanOf[k]
                              /\ actions[r].status \in LiveStatus
                              /\ actions[k].status \in LiveStatus
                              => r = k
    /\ calls = {r \in Requests : actions[r].status = "executing"}

ActionInv == ActionTypeOK /\ OneLiveAction

\* expire only marks rows that are pending and overdue.
LEMMA ExpireIs ==
    ASSUME ActionTypeOK, NEW r \in Requests
    PROVE  /\ Expire(actions)[r] \in ActionRow
           /\ Expire(actions)[r].status =
                IF actions[r].status = "pending_approval" /\ actions[r].overdue
                THEN "expired" ELSE actions[r].status
           /\ Expire(actions)[r].overdue = actions[r].overdue
BY DEF Expire, ActionTypeOK, ActionRow, LiveStatus

\* The table starts empty.
LEMMA ActionInvInit == ActionsInit => ActionInv
BY DEF ActionsInit, ActionInv, ActionTypeOK, OneLiveAction, NewAction, LiveStatus, ActionRow

\* Every action keeps the types.
LEMMA ActionTypeNext == ActionTypeOK /\ [ActionsNext]_actionVars => ActionTypeOK'
<1> SUFFICES ASSUME ActionTypeOK, [ActionsNext]_actionVars
             PROVE  ActionTypeOK'
  OBVIOUS
<1> USE ActionsAssumption DEF LiveStatus, ActionRow
<1>0. Expire(actions) \in [Requests -> ActionRow]
  BY DEF Expire, ActionTypeOK
<1>1. ASSUME NEW r \in Requests, Submit(r) \/ Reject(r) \/ Approve(r) PROVE ActionTypeOK'
  <2>1. CASE Submit(r)
    BY <1>0, <2>1 DEF Submit, ActionTypeOK
  <2>2. CASE Reject(r)
    BY <1>0, <2>2 DEF Reject, ActionTypeOK
  <2>3. CASE Approve(r)
    BY <1>0, <2>3 DEF Approve, ActionTypeOK
  <2>4. QED
    BY <1>1, <2>1, <2>2, <2>3
<1>2. ASSUME NEW r \in Requests, NEW s \in {"dispatched", "uncertain"}, Complete(r, s)
      PROVE  ActionTypeOK'
  BY <1>2 DEF Complete, ActionTypeOK
<1>3. ASSUME NEW r \in Requests, ReconcileAction(r) \/ Lapse(r) PROVE ActionTypeOK'
  <2>1. CASE ReconcileAction(r)
    BY <2>1 DEF ReconcileAction, ActionTypeOK
  <2>2. CASE Lapse(r)
    BY <2>2 DEF Lapse, ActionTypeOK
  <2>3. QED
    BY <1>3, <2>1, <2>2
<1>4. ASSUME NEW p \in Plans, ChangePlan(p) PROVE ActionTypeOK'
  BY <1>4 DEF ChangePlan, ActionTypeOK
<1>5. CASE Read
  BY <1>0, <1>5 DEF Read, ActionTypeOK
<1>6. CASE EditToken
  BY <1>6 DEF EditToken, ActionTypeOK
<1>7. CASE Restart
  BY <1>0, <1>7 DEF Restart, Recovered, ActionTypeOK
<1>8. CASE UNCHANGED actionVars
  BY <1>8 DEF actionVars, ActionTypeOK
<1>9. QED
  BY <1>1, <1>2, <1>3, <1>4, <1>5, <1>6, <1>7, <1>8 DEF ActionsNext

\* Every action leaves a plan with at most one live action.
LEMMA OneLiveActionNext == ActionInv /\ [ActionsNext]_actionVars => OneLiveAction'
<1> SUFFICES ASSUME ActionTypeOK, ActionTypeOK', OneLiveAction, [ActionsNext]_actionVars
             PROVE  OneLiveAction'
  BY ActionTypeNext DEF ActionInv
<1> USE DEF LiveStatus, ActionRow
<1>1. ASSUME NEW r \in Requests, Submit(r) PROVE OneLiveAction'
  <2>1. /\ actions[r].status = "none"
        /\ \A k \in Requests : PlanOf[k] = PlanOf[r] => Expire(actions)[k].status \notin LiveStatus
    BY <1>1 DEF Submit, Known, Occupied, Live
  <2>2. \A k \in Requests : actions'[k].status =
           IF k = r THEN "pending_approval" ELSE Expire(actions)[k].status
    BY <1>1, ExpireIs DEF Submit, Expire, ActionTypeOK
  <2>3. QED
    BY <1>1, <2>1, <2>2, ExpireIs DEF Submit, OneLiveAction
<1>2. ASSUME NEW r \in Requests, Reject(r) PROVE OneLiveAction'
  <2>1. \A k \in Requests : actions'[k].status =
           IF k = r THEN "rejected" ELSE Expire(actions)[k].status
    BY <1>2, ExpireIs DEF Reject, Expire, ActionTypeOK
  <2>2. QED
    BY <1>2, <2>1, ExpireIs DEF Reject, Pending, OneLiveAction
<1>3. ASSUME NEW r \in Requests, Approve(r) PROVE OneLiveAction'
  <2>1. \A k \in Requests : actions'[k].status =
           IF k = r THEN "executing" ELSE Expire(actions)[k].status
    BY <1>3, ExpireIs DEF Approve, Expire, ActionTypeOK
  <2>2. QED
    BY <1>3, <2>1, ExpireIs DEF Approve, Pending, OneLiveAction
<1>4. ASSUME NEW r \in Requests, NEW s \in {"dispatched", "uncertain"}, Complete(r, s)
      PROVE  OneLiveAction'
  BY <1>4 DEF Complete, ActionTypeOK, OneLiveAction
<1>5. ASSUME NEW r \in Requests, ReconcileAction(r) \/ Lapse(r) PROVE OneLiveAction'
  BY <1>5 DEF ReconcileAction, Lapse, ActionTypeOK, OneLiveAction
<1>6. CASE Read
  BY <1>6, ExpireIs DEF Read, OneLiveAction
<1>7. CASE Restart
  <2>1. \A k \in Requests : actions'[k].status =
           IF actions[k].status = "executing" THEN "uncertain" ELSE Expire(actions)[k].status
    BY <1>7, ExpireIs DEF Restart, Recovered
  <2>2. QED
    BY <1>7, <2>1, ExpireIs DEF Restart, OneLiveAction
<1>8. CASE (\E p \in Plans : ChangePlan(p)) \/ EditToken \/ UNCHANGED actionVars
  BY <1>8 DEF ChangePlan, EditToken, actionVars, OneLiveAction
<1>9. QED
  BY <1>1, <1>2, <1>3, <1>4, <1>5, <1>6, <1>7, <1>8 DEF ActionsNext

\* Every reachable state of the table satisfies the invariant: no interleaving, crash or
\* repeated request gives one plan two live actions.
THEOREM ActionInvHolds == ActionsSpec => []ActionInv
BY ActionInvInit, ActionTypeNext, OneLiveActionNext, PTL DEF ActionsSpec, ActionInv
-----------------------------------------------------------------------------
(* The refinement of DurableClaim. *)

\* A step that gives the rows of S another phase, and no other row, moves them.
LEMMA ActionsMove ==
    ASSUME NEW S \in SUBSET Requests, NEW from, NEW to,
           \A r \in S : ActionPhase(actions[r]) = from /\ ActionPhase(actions'[r]) = to,
           \A r \in Requests \ S : ActionPhase(actions'[r]) = ActionPhase(actions[r])
    PROVE  ActionTable!Moves(S, from, to)
BY DEF ActionTable!Moves, actionPhases

\* A step that keeps every phase and every call leaves the claims alone.
LEMMA ActionsStutter ==
    ASSUME \A r \in Requests : ActionPhase(actions'[r]) = ActionPhase(actions[r]), UNCHANGED calls
    PROVE  UNCHANGED ActionTable!claimVars
BY DEF ActionTable!claimVars, actionPhases

\* Marking overdue rows as expired changes no phase.
LEMMA ExpireKeepsPhase ==
    ASSUME ActionTypeOK, NEW r \in Requests
    PROVE  ActionPhase(Expire(actions)[r]) = ActionPhase(actions[r])
BY ExpireIs DEF ActionPhase, ActionTypeOK, ActionRow, LiveStatus

\* Every step of McpActionService is a step of DurableClaim or leaves it alone.
LEMMA ActionsImplementStep ==
    ActionInv /\ [ActionsNext]_actionVars => [ActionTable!ClaimNext]_ActionTable!claimVars
<1> SUFFICES ASSUME ActionTypeOK, OneLiveAction, [ActionsNext]_actionVars
             PROVE  [ActionTable!ClaimNext]_ActionTable!claimVars
  BY DEF ActionInv
<1> DEFINE Goal == [ActionTable!ClaimNext]_ActionTable!claimVars
<1>0. \A r \in Requests : /\ actions[r] \in ActionRow
                          /\ actions[r].overdue \in BOOLEAN
  BY DEF ActionTypeOK, ActionRow
<1>a. ASSUME NEW r \in Requests, NEW row, actions' = [Expire(actions) EXCEPT ![r] = row]
      PROVE  /\ actions'[r] = row
             /\ \A k \in Requests \ {r} : ActionPhase(actions'[k]) = ActionPhase(actions[k])
  <2>1. \A k \in Requests \ {r} : actions'[k] = Expire(actions)[k]
    BY <1>a DEF Expire
  <2>2. actions'[r] = row
    BY <1>a DEF Expire
  <2>3. QED
    BY <2>1, <2>2, ExpireKeepsPhase
<1>1. ASSUME NEW r \in Requests, Submit(r) PROVE Goal
  <2>1. actions'[r].status = "pending_approval" /\ ~actions'[r].overdue
    BY <1>1 DEF Submit, Expire
  <2>2. ActionPhase(actions[r]) = "new" /\ ActionPhase(actions'[r]) = "open"
    BY <1>1, <2>1 DEF Submit, Known, ActionPhase
  <2>3. ActionTable!Moves({r}, "new", "open")
    BY <1>1, <1>a, <2>2, ActionsMove DEF Submit
  <2>4. QED
    BY <1>1, <2>3 DEF Submit, ActionTable!ClaimNext, ActionTable!Accept
<1>2. ASSUME NEW r \in Requests, Reject(r) PROVE Goal
  <2>1. actions' = [Expire(actions) EXCEPT ![r] = [Expire(actions)[r] EXCEPT !.status = "rejected"]]
    BY <1>2 DEF Reject
  <2>2. actions'[r].status = "rejected"
    <3>1. actions'[r] = [Expire(actions)[r] EXCEPT !.status = "rejected"]
      BY <2>1, <1>a
    <3>2. QED
      BY <3>1, ExpireIs DEF ActionRow
  <2>3. ActionPhase(actions[r]) = "open" /\ ActionPhase(actions'[r]) = "done"
    BY <1>2, <2>2 DEF Reject, Pending, ActionPhase
  <2>4. ActionTable!Moves({r}, "open", "done")
    BY <2>1, <1>a, <2>3, ActionsMove
  <2>5. QED
    BY <1>2, <2>4 DEF Reject, ActionTable!ClaimNext, ActionTable!Withdraw
<1>3. ASSUME NEW r \in Requests, Approve(r) PROVE Goal
  <2>1. actions' = [Expire(actions) EXCEPT ![r] = [Expire(actions)[r] EXCEPT !.status = "executing"]]
    BY <1>3 DEF Approve
  <2>2. actions'[r].status = "executing"
    <3>1. actions'[r] = [Expire(actions)[r] EXCEPT !.status = "executing"]
      BY <2>1, <1>a
    <3>2. QED
      BY <3>1, ExpireIs DEF ActionRow
  <2>3. ActionPhase(actions[r]) = "open" /\ ActionPhase(actions'[r]) = "held"
    BY <1>3, <2>2 DEF Approve, Pending, ActionPhase
  <2>4. ActionTable!Moves({r}, "open", "held")
    BY <2>1, <1>a, <2>3, ActionsMove
  <2>5. \A k \in calls : k \in Requests /\ PlanOf[k] # PlanOf[r]
    BY <1>3 DEF Approve, Pending, OneLiveAction, LiveStatus
  <2>6. ActionTable!Begin(r)
    BY <1>3, <2>4, <2>5 DEF Approve, ActionTable!Begin
  <2>7. QED
    BY <2>6 DEF ActionTable!ClaimNext
<1>4. ASSUME NEW r \in Requests, NEW s \in {"dispatched", "uncertain"}, Complete(r, s)
      PROVE  Goal
  <2>1. actions[r].status = "executing" /\ actions'[r].status = s
        /\ \A k \in Requests \ {r} : actions'[k] = actions[k]
    BY <1>4 DEF Complete, OneLiveAction, ActionTypeOK, ActionRow
  <2>2. ActionPhase(actions[r]) = "held"
    BY <2>1 DEF ActionPhase
  <2>3. CASE s = "dispatched"
    <3>1. ActionPhase(actions'[r]) = "done"
      BY <2>1, <2>3 DEF ActionPhase
    <3>2. ActionTable!Moves({r}, "held", "done")
      BY <2>1, <2>2, <3>1, ActionsMove
    <3>3. QED
      BY <1>4, <3>2 DEF Complete, ActionTable!ClaimNext, ActionTable!Settle
  <2>4. CASE s = "uncertain"
    <3>1. ActionPhase(actions'[r]) = "doubt"
      BY <2>1, <2>4 DEF ActionPhase
    <3>2. ActionTable!Moves({r}, "held", "doubt")
      BY <2>1, <2>2, <3>1, ActionsMove
    <3>3. ActionTable!Lose({r}, {r}) /\ {r} \in SUBSET Requests
      BY <1>4, <3>2 DEF Complete, ActionTable!Lose
    <3>4. QED
      BY <3>3 DEF ActionTable!ClaimNext
  <2>5. QED
    BY <2>3, <2>4
<1>5. ASSUME NEW r \in Requests, ReconcileAction(r) PROVE Goal
  <2>1. actions[r].status = "uncertain" /\ actions'[r].status = "failed"
        /\ \A k \in Requests \ {r} : actions'[k] = actions[k]
    BY <1>5 DEF ReconcileAction, ActionTypeOK, ActionRow
  <2>2. ActionPhase(actions[r]) = "doubt" /\ ActionPhase(actions'[r]) = "done"
    BY <2>1 DEF ActionPhase
  <2>3. ActionTable!Moves({r}, "doubt", "done")
    BY <2>1, <2>2, ActionsMove
  <2>4. r \notin calls
    BY <2>1 DEF OneLiveAction
  <2>5. QED
    BY <1>5, <2>3, <2>4 DEF ReconcileAction, ActionTable!ClaimNext, ActionTable!Resolve
<1>6. ASSUME NEW r \in Requests, Lapse(r) PROVE Goal
  <2>1. actions'[r].status = "pending_approval" /\ actions'[r].overdue
        /\ \A k \in Requests \ {r} : actions'[k] = actions[k]
    BY <1>6 DEF Lapse, Pending, ActionTypeOK, ActionRow
  <2>2. ActionPhase(actions[r]) = "open" /\ ActionPhase(actions'[r]) = "done"
    BY <1>6, <2>1 DEF Lapse, Pending, ActionPhase
  <2>3. ActionTable!Moves({r}, "open", "done")
    BY <2>1, <2>2, ActionsMove
  <2>4. QED
    BY <1>6, <2>3 DEF Lapse, ActionTable!ClaimNext, ActionTable!Withdraw
<1>7. CASE Read
  BY <1>7, ExpireKeepsPhase, ActionsStutter DEF Read
<1>8. CASE Restart
  <2>1. \A r \in Requests : IF r \in calls
                            THEN actions[r].status = "executing" /\ actions'[r].status = "uncertain"
                            ELSE actions'[r] = Expire(actions)[r]
    BY <1>0, <1>8, ExpireIs DEF Restart, Recovered, OneLiveAction, ActionRow
  <2>2. \A r \in calls : ActionPhase(actions[r]) = "held" /\ ActionPhase(actions'[r]) = "doubt"
    BY <2>1 DEF ActionPhase, OneLiveAction
  <2>3. calls \in SUBSET Requests
    BY DEF OneLiveAction
  <2>4. ActionTable!Moves(calls, "held", "doubt")
    BY <2>1, <2>2, <2>3, ExpireKeepsPhase, ActionsMove
  <2>5. ActionTable!Lose(calls, calls)
    BY <1>8, <2>4 DEF Restart, ActionTable!Lose
  <2>6. QED
    BY <2>3, <2>5 DEF ActionTable!ClaimNext
<1>9. CASE (\E p \in Plans : ChangePlan(p)) \/ EditToken \/ UNCHANGED actionVars
  BY <1>9, ActionsStutter DEF ChangePlan, EditToken, actionVars
<1>10. QED
  BY <1>1, <1>2, <1>3, <1>4, <1>5, <1>6, <1>7, <1>8, <1>9 DEF ActionsNext

\* McpActionService implements DurableClaim: its at-most-once dispatch holds for any
\* number of clients' requests, repeated approvals and restarts.
THEOREM ActionsImplementClaim == ActionsSpec => ActionClaim
<1>1. ActionsInit => ActionTable!ClaimInit
  BY DEF ActionsInit, ActionTable!ClaimInit, actionPhases, ActionPhase, NewAction
<1>2. QED
  BY <1>1, ActionsImplementStep, ActionInvHolds, PTL
     DEF ActionsSpec, ActionClaim, ActionTable!ClaimSpec
=============================================================================
