----------------------------- MODULE LeaseQueue -----------------------------
(***************************************************************************)
(* What every durable job queue of the repository promises, whatever its   *)
(* table, locks and clock: a job is leased under a fencing token that only *)
(* grows; it is finished by the holder of the current token and only once; *)
(* it is buried only when its budget of tries is spent; and once finished  *)
(* or buried it never changes again.  The concrete queues are shown to     *)
(* implement this specification.                                           *)
(***************************************************************************)
EXTENDS Naturals

CONSTANTS
    Jobs,
    Budget    \* tries a job may be leased for before it may only be buried

VARIABLES
    phase,    \* [Jobs -> {"none", "waiting", "leased", "done", "buried"}]
    token,    \* fencing token of the latest lease
    tries,    \* leases charged against the budget
    doneBy    \* token under which the job was finished, 0 if it is not

qvars == <<phase, token, tries, doneBy>>

QInit ==
    /\ phase = [j \in Jobs |-> "none"]
    /\ token = [j \in Jobs |-> 0]
    /\ tries = [j \in Jobs |-> 0]
    /\ doneBy = [j \in Jobs |-> 0]

Add(j) ==
    /\ phase[j] = "none"
    /\ phase' = [phase EXCEPT ![j] = "waiting"]
    /\ UNCHANGED <<token, tries, doneBy>>

\* The holder gives the job back; the try may be refunded.
GiveBack(j) ==
    /\ phase[j] = "leased"
    /\ phase' = [phase EXCEPT ![j] = "waiting"]
    /\ \/ tries' = tries
       \/ tries[j] > 0 /\ tries' = [tries EXCEPT ![j] = @ - 1]
    /\ UNCHANGED <<token, doneBy>>

Finish(j) ==
    /\ phase[j] = "leased"
    /\ phase' = [phase EXCEPT ![j] = "done"]
    /\ doneBy' = [doneBy EXCEPT ![j] = token[j]]
    /\ UNCHANGED <<token, tries>>

Buriable(j) == phase[j] = "leased" /\ tries[j] >= Budget

\* Exhausted jobs are buried, several at once when a sweep finds them; the
\* sweep's transaction may lease another job in the same step.
BuryAndLease(js, ls) ==
    /\ \A j \in js : Buriable(j)
    /\ \A j \in ls : phase[j] \in {"waiting", "leased"} /\ tries[j] < Budget
    /\ phase' = [j \in Jobs |-> IF j \in js THEN "buried"
                                ELSE IF j \in ls THEN "leased" ELSE phase[j]]
    /\ token' = [j \in Jobs |-> IF j \in ls THEN token[j] + 1 ELSE token[j]]
    /\ tries' = [j \in Jobs |-> IF j \in ls THEN tries[j] + 1 ELSE tries[j]]
    /\ UNCHANGED doneBy

QNext ==
    \/ \E j \in Jobs : Add(j) \/ GiveBack(j) \/ Finish(j)
    \/ \E js \in SUBSET Jobs :
       \E ls \in {{}} \cup {{j} : j \in Jobs} : BuryAndLease(js, ls)

QSpec == QInit /\ [][QNext]_qvars
=============================================================================
