----------------------------- MODULE DurableClaim -----------------------------
(***************************************************************************)
(* What a table of durable claims promises about work that has effects      *)
(* outside the table: an item is begun only while it is open and no rival   *)
(* may still be at work, and an item whose outcome is in doubt is never     *)
(* begun again.  ManagedReplication and McpActions implement it.            *)
(***************************************************************************)
CONSTANTS
    Items,
    Rivals     \* for each item, the items whose work must not overlap with its own

VARIABLES
    phase,     \* where each item is
    working    \* the items whose effects may be under way

claimVars == <<phase, working>>

Moves(S, from, to) ==
    /\ \A i \in S : phase[i] = from
    /\ phase' = [i \in Items |-> IF i \in S THEN to ELSE phase[i]]

Accept(i) == Moves({i}, "new", "open") /\ UNCHANGED working

\* Rejected, expired or refused before anything was begun.
Withdraw(i) == Moves({i}, "open", "done") /\ UNCHANGED working

Begin(i) ==
    /\ Moves({i}, "open", "held")
    /\ \A k \in working : k \notin Rivals[i] /\ i \notin Rivals[k]
    /\ working' = working \cup {i}

\* The work ended: for good, or so that it may be asked for again.
Settle(i, to) ==
    /\ to \in {"done", "settled"} /\ Moves({i}, "held", to)
    /\ working' = working \ {i}

Reopen(i) == Moves({i}, "settled", "open") /\ UNCHANGED working

\* The outcomes of the items S are not known; the work of those not in T goes on.
Lose(S, T) == T \subseteq S /\ Moves(S, "held", "doubt") /\ working' = working \ T

\* Work nobody waits for any more comes to its end.
Stop(i) == phase[i] = "doubt" /\ working' = working \ {i} /\ UNCHANGED phase

\* Somebody looked at what was done; it is not begun again.
Resolve(i) == i \notin working /\ Moves({i}, "doubt", "done") /\ UNCHANGED working

ClaimInit == phase = [i \in Items |-> "new"] /\ working = {}

ClaimNext ==
    \/ \E i \in Items :
         \/ Accept(i) \/ Withdraw(i) \/ Begin(i) \/ Reopen(i) \/ Stop(i) \/ Resolve(i)
         \/ \E to \in {"done", "settled"} : Settle(i, to)
    \/ \E S, T \in SUBSET Items : Lose(S, T)

ClaimSpec == ClaimInit /\ [][ClaimNext]_claimVars
=============================================================================
