-------------------------- MODULE DurableClaimProofs --------------------------
(***************************************************************************)
(* What every implementation of DurableClaim inherits, for any items and    *)
(* any rivals.                                                              *)
(***************************************************************************)
EXTENDS DurableClaim, TLAPS

\* The effects of two rivals are never under way at once, and whatever has effects under
\* way is held or in doubt: nothing that ended, or was never begun, is at work.
RivalsExcluded ==
    /\ \A i, k \in working : i # k => k \notin Rivals[i]
    /\ \A i \in working : i \in Items /\ phase[i] \in {"held", "doubt"}

\* An item that is done stays done.
DoneIsFinal == [][\A i \in Items : phase[i] = "done" => phase'[i] = "done"]_claimVars

\* A step of the claims keeps rivals apart.
LEMMA RivalsExcludedNext == RivalsExcluded /\ [ClaimNext]_claimVars => RivalsExcluded'
<1> SUFFICES ASSUME RivalsExcluded, [ClaimNext]_claimVars
             PROVE  RivalsExcluded'
  OBVIOUS
<1> USE DEF RivalsExcluded, Moves
<1>1. ASSUME NEW i \in Items, Accept(i) \/ Withdraw(i) \/ Reopen(i) \/ Resolve(i)
      PROVE  RivalsExcluded'
  BY <1>1 DEF Accept, Withdraw, Reopen, Resolve
<1>2. ASSUME NEW i \in Items, Begin(i) PROVE RivalsExcluded'
  BY <1>2 DEF Begin
<1>3. ASSUME NEW i \in Items, NEW to \in {"done", "settled"}, Settle(i, to)
      PROVE  RivalsExcluded'
  BY <1>3 DEF Settle
<1>4. ASSUME NEW i \in Items, Stop(i) PROVE RivalsExcluded'
  BY <1>4 DEF Stop
<1>5. ASSUME NEW S \in SUBSET Items, NEW T \in SUBSET Items, Lose(S, T) PROVE RivalsExcluded'
  BY <1>5 DEF Lose
<1>6. CASE UNCHANGED claimVars
  BY <1>6 DEF claimVars
<1>7. QED
  BY <1>1, <1>2, <1>3, <1>4, <1>5, <1>6 DEF ClaimNext

\* No two rivals are ever at work at once: with ReplicationImplementsClaim, no two restic
\* processes of managed replication, and with ActionsImplementClaim, no two calls for a plan.
THEOREM RivalsExcludedHolds == ClaimSpec => []RivalsExcluded
<1>1. ClaimInit => RivalsExcluded
  BY DEF ClaimInit, RivalsExcluded
<1>2. QED
  BY <1>1, RivalsExcludedNext, PTL DEF ClaimSpec

\* What is done is never begun again: a completed replica is not copied again, and an MCP
\* action that was rejected, expired, dispatched or reconciled never reaches its service.
THEOREM DoneIsFinalHolds == ClaimSpec => DoneIsFinal
<1>1. [ClaimNext]_claimVars => [\A i \in Items : phase[i] = "done" => phase'[i] = "done"]_claimVars
  BY DEF ClaimNext, claimVars, Accept, Withdraw, Begin, Settle, Reopen, Lose, Stop, Resolve, Moves
<1>2. QED
  BY <1>1, PTL DEF ClaimSpec, DoneIsFinal
=============================================================================
