--------------------------- MODULE DatasetPromise ---------------------------
(***************************************************************************)
(* What the data layer promises to the clients of the delivery API: every  *)
(* dataset is a register that is written once.  A request is offered one   *)
(* version and answered with it, or with an error.  As long as nothing is  *)
(* published, what is offered may get newer and never gets older; once a   *)
(* version is published, it is what everybody is offered from then on.     *)
(* Versions are numbers, the provider's first one is 1.                    *)
(***************************************************************************)
EXTENDS Naturals

CONSTANTS Requests,   \* requests of clients
          Datasets,   \* what can be asked for
          Want,       \* Want[r]: the dataset request r asks for
          Versions    \* the versions there are

VARIABLES published,  \* published[d]: the version that is d for good, 0 before
          shown,      \* shown[d]: the newest version of d a client was answered with
          offered     \* offered[r]: the version r is about to be answered with, or 0

promiseVars == <<published, shown, offered>>

PromiseInit ==
    /\ published = [d \in Datasets |-> 0]
    /\ shown = [d \in Datasets |-> 1]
    /\ offered = [r \in Requests |-> 0]

\* Nobody was answered with, or is offered, anything newer of d than v.
Newest(d, v) ==
    /\ shown[d] <= v
    /\ \A r \in Requests : Want[r] = d => offered[r] <= v

Offer(r, v) ==
    /\ offered[r] = 0
    /\ IF published[Want[r]] # 0 THEN v = published[Want[r]] ELSE Newest(Want[r], v)
    /\ offered' = [offered EXCEPT ![r] = v]
    /\ UNCHANGED <<published, shown>>

\* The request that publishes a version is offered it.
Publish(r, v) ==
    /\ offered[r] = 0
    /\ published[Want[r]] = 0
    /\ Newest(Want[r], v)
    /\ published' = [published EXCEPT ![Want[r]] = v]
    /\ offered' = [offered EXCEPT ![r] = v]
    /\ UNCHANGED shown

Give(r) ==
    /\ offered[r] # 0
    /\ shown' = [shown EXCEPT ![Want[r]] = IF offered[r] > @ THEN offered[r] ELSE @]
    /\ offered' = [offered EXCEPT ![r] = 0]
    /\ UNCHANGED published

\* Requests end with an error: one of them, or all there are.
Withdraw(R) ==
    /\ offered' = [r \in Requests |-> IF r \in R THEN 0 ELSE offered[r]]
    /\ UNCHANGED <<published, shown>>

PromiseNext ==
    \/ \E r \in Requests :
        \/ \E v \in Versions : Offer(r, v) \/ Publish(r, v)
        \/ Give(r)
    \/ \E R \in SUBSET Requests : Withdraw(R)

PromiseSpec == PromiseInit /\ [][PromiseNext]_promiseVars
=============================================================================
