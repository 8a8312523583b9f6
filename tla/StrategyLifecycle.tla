------------------------- MODULE StrategyLifecycle -------------------------
(***************************************************************************)
(* The status of one strategy: PATCH and DELETE of the strategies API, the *)
(* two validations of engines/validation_engine/engine.py, promotion and   *)
(* demotion of engines/promotion/service.py.  Every request has a session  *)
(* of its own, which keeps the status as it loaded it (view): an UPDATE is *)
(* made when the new status differs from that, not from the row.  A client *)
(* may PATCH any status: StrategyUpdate.status is a string nobody checks.  *)
(*                                                                         *)
(* The strategy's backtests come and go as BacktestRun has it; what        *)
(* promotion sees of them is whether they are completed and how good they  *)
(* are.                                                                    *)
(***************************************************************************)
EXTENDS Integers

CONSTANTS Requests,       \* requests for the strategy
          PatchStatuses,  \* what clients write with PATCH, promoted or not
          Backtests,      \* the strategy's backtests
          Sharpe,         \* Sharpe[b]: the ratio, the lowest if it is missing
          None            \* no backtest, no request, no view, no kind

StrategyStatus == {"draft", "backtested", "validated", "promoted", "archived"}
Kinds == {"walk_forward", "cpcv", "promote", "demote", "patch", "delete"}

ASSUME StrategyAssumption ==
    /\ "gone" \notin PatchStatuses \* here it is the row that is gone
    /\ Sharpe \in [Backtests -> Int]
    /\ None \notin Requests \cup Backtests \cup StrategyStatus \cup PatchStatuses \cup Kinds

VARIABLES
    status,     \* the status in the strategy's row, "gone" without a row
    backtest,   \* backtest[b]: "open", "completed" or "gone"
    experiment, \* whether a row of the experiments table names the strategy
    pc,         \* pc[r]: where request r is
    kind,       \* kind[r]: what r asks for
    view,       \* view[r]: the status in r's session
    choice,     \* choice[r]: the backtest a promotion goes by
    passed,     \* passed[r]: r's validation has passed its gates
    steady,     \* steady[r]: backtests completed ever since r loaded the strategy (history)
    during      \* during[r]: what the row has said since then (history)

localVars == <<kind, view, choice, passed>>
history == <<steady, during>>
vars == <<status, backtest, experiment, pc, localVars, history>>

Active == {"gates", "load", "evidence", "commit", "delete", "publish", "track"}
PCs == Active \cup {"idle", "over"}
Completed == {b \in Backtests : backtest[b] = "completed"}

Init ==
    /\ status = "draft"
    /\ backtest = [b \in Backtests |-> "open"]
    /\ experiment = FALSE
    /\ pc = [r \in Requests |-> "idle"]
    /\ kind = [r \in Requests |-> None]
    /\ view = [r \in Requests |-> None]
    /\ choice = [r \in Requests |-> None]
    /\ passed = [r \in Requests |-> FALSE]
    /\ steady = [r \in Requests |-> {}]
    /\ during = [r \in Requests |-> {}]

-----------------------------------------------------------------------------
(* A request *)

\* What the history variables record of a step.
History ==
    /\ steady' = [r \in Requests |-> CASE view'[r] = None -> {}
                                      [] view[r] = None -> Completed'
                                      [] OTHER -> steady[r] \cap Completed']
    /\ during' = [r \in Requests |->
                    IF view'[r] = None THEN {} ELSE during[r] \cup {status'}]

Goto(r, label) == pc' = [pc EXCEPT ![r] = label] /\ UNCHANGED localVars
Over(r) ==
    /\ pc' = [pc EXCEPT ![r] = "over"]
    /\ kind' = [kind EXCEPT ![r] = None]
    /\ view' = [view EXCEPT ![r] = None]
    /\ choice' = [choice EXCEPT ![r] = None]
    /\ passed' = [passed EXCEPT ![r] = FALSE]
Proceed(r, label) == IF label = "over" THEN Over(r) ELSE Goto(r, label)

\* The endpoint or the worker takes the request; CPCV reads the strategy only after
\* its gates.
Ask(r) ==
    /\ pc[r] = "idle"
    /\ \E k \in Kinds :
        /\ kind' = [kind EXCEPT ![r] = k]
        /\ pc' = [pc EXCEPT ![r] = IF k = "cpcv" THEN "gates" ELSE "load"]
    /\ UNCHANGED <<status, backtest, experiment, view, choice, passed>>
    /\ History

\* Mutant: promotion does not ask for the status.
RefusesGone(r) == status = "gone"

\* No such strategy, or a promotion of one that is not validated.
Refuses(r) == status = "gone" \/ (kind[r] = "promote" /\ status # "validated")

AfterLoad == [walk_forward |-> "gates", cpcv |-> "commit", promote |-> "evidence",
              demote |-> "commit", patch |-> "commit", delete |-> "delete"]

\* CPCV logs its run whether there is a strategy or not.
Load(r) ==
    /\ pc[r] = "load"
    /\ IF Refuses(r)
       THEN Proceed(r, IF kind[r] = "cpcv" THEN "track" ELSE "over")
       ELSE /\ pc' = [pc EXCEPT ![r] = AfterLoad[kind[r]]]
            /\ view' = [view EXCEPT ![r] = status]
            /\ UNCHANGED <<kind, choice, passed>>
    /\ UNCHANGED <<status, backtest, experiment>>
    /\ History

\* What the gates say, after the features are assembled and the folds or paths
\* evaluated, which takes long; a strategy that fails is only logged.
Verdict(r, next) ==
    /\ pc[r] = "gates"
    /\ \/ /\ pc' = [pc EXCEPT ![r] = next]
          /\ passed' = [passed EXCEPT ![r] = TRUE]
          /\ UNCHANGED <<kind, view, choice>>
       \/ Goto(r, "track")
    /\ UNCHANGED <<status, backtest, experiment>>
    /\ History

\* The four gates of walk-forward, and the three of CPCV, which loads the strategy next.
WalkForward(r) == kind[r] = "walk_forward" /\ Verdict(r, "commit")
Cpcv(r) == kind[r] = "cpcv" /\ Verdict(r, "load")
Gates(r) == WalkForward(r) \/ Cpcv(r)

\* Mutant: the first of the completed backtests.
BestsAny(S) == S

Bests(S) == {b \in S : \A a \in S : Sharpe[a] <= Sharpe[b]}

\* Promotion goes by the best of the backtests that are completed now.
Evidence(r) ==
    /\ pc[r] = "evidence"
    /\ \/ /\ \E b \in Bests(Completed) : choice' = [choice EXCEPT ![r] = b]
          /\ pc' = [pc EXCEPT ![r] = "commit"]
          /\ UNCHANGED <<kind, view, passed>>
       \/ Completed = {} /\ Over(r)
    /\ UNCHANGED <<status, backtest, experiment>>
    /\ History

Targets(k) == CASE k = "promote" -> {"promoted"}
                [] k = "patch" -> PatchStatuses
                [] OTHER -> {"validated"}

\* A status that is the session's own makes no UPDATE; an UPDATE of a row that is gone
\* raises.
Raises(r, new) == new # view[r] /\ status = "gone"

AfterCommit == [walk_forward |-> "track", cpcv |-> "track", promote |-> "publish",
                demote |-> "publish", patch |-> "over"]

Commit(r) ==
    /\ pc[r] = "commit"
    /\ \E new \in Targets(kind[r]) :
        /\ Proceed(r, IF Raises(r, new) THEN "over" ELSE AfterCommit[kind[r]])
        /\ status' = IF new = view[r] \/ status = "gone" THEN status ELSE new
    /\ UNCHANGED <<backtest, experiment>>
    /\ History

\* StrategyValidated from a promotion, StrategyUpdated from a demotion.
Publish(r) ==
    /\ pc[r] = "publish"
    /\ Over(r)
    /\ UNCHANGED <<status, backtest, experiment>>
    /\ History

\* log_validation_run: MLflow, then a row for the strategy.
Track(r) ==
    /\ pc[r] = "track"
    /\ experiment' = TRUE
    /\ Over(r)
    /\ UNCHANGED <<status, backtest>>
    /\ History

\* The rows that name the strategy would lose their NOT NULL strategy_id: with one of
\* them the DELETE raises.
Delete(r) ==
    /\ pc[r] = "delete"
    /\ Over(r)
    /\ status' = IF experiment \/ \E b \in Backtests : backtest[b] # "gone"
                 THEN status ELSE "gone"
    /\ UNCHANGED <<backtest, experiment>>
    /\ History

\* No data for the features, a database that is locked, MLflow or Kafka down: the
\* exception ends the request; what it has committed stays.  A service that dies does
\* this to all requests it has taken.
Fail(r) ==
    /\ pc[r] \in Active
    /\ Over(r)
    /\ UNCHANGED <<status, backtest, experiment>>
    /\ History

Step(r) ==
    \/ Load(r) \/ Gates(r) \/ Evidence(r) \/ Commit(r) \/ Publish(r)
    \/ Track(r) \/ Delete(r)

-----------------------------------------------------------------------------
(* Around the requests *)

\* A backtest completes, is run again or turned FAILED, or is deleted.
Move(b) ==
    /\ backtest[b] # "gone"
    /\ \E s \in {"open", "completed", "gone"} \ {backtest[b]} :
        backtest' = [backtest EXCEPT ![b] = s]
    /\ UNCHANGED <<status, experiment, pc, localVars>>
    /\ History

Next ==
    \/ \E r \in Requests : Ask(r) \/ Step(r) \/ Fail(r)
    \/ \E b \in Backtests : Move(b)

Spec == Init /\ [][Next]_vars

-----------------------------------------------------------------------------
(* Properties *)

Statuses == StrategyStatus \cup PatchStatuses \cup {"gone"}

\* Every variable has its type.
TypeOK ==
    /\ status \in Statuses
    /\ backtest \in [Backtests -> {"open", "completed", "gone"}]
    /\ experiment \in BOOLEAN
    /\ pc \in [Requests -> PCs]
    /\ kind \in [Requests -> Kinds \cup {None}]
    /\ view \in [Requests -> Statuses \cup {None}]
    /\ choice \in [Requests -> Backtests \cup {None}]
    /\ passed \in [Requests -> BOOLEAN]
    /\ steady \in [Requests -> SUBSET Backtests]
    /\ during \in [Requests -> SUBSET Statuses]

Promotion(r) == kind[r] = "promote"

\* A request past a commit that did not raise; a failed or superfluous CPCV had none.
Committed(r) == pc[r] = "publish" \/ (pc[r] = "track" /\ passed[r] /\ view[r] # None)

\* However old the view it was compared with: what a request has committed without an
\* exception was the row's status at some time while the request was under way, also
\* if its UPDATE was left out or others have overwritten it; and a promotion has found
\* the row validated and made it promoted.
TakesEffect ==
    \A r \in Requests : Committed(r) =>
        IF Promotion(r) THEN {"validated", "promoted"} \subseteq during[r]
                        ELSE "validated" \in during[r]

\* While backtests complete and are run again under it, a promotion goes by one that
\* is at least as good as every backtest that was completed all the time.
EvidenceIsBest ==
    \A r \in Requests : Promotion(r) /\ pc[r] \in {"commit", "publish"} =>
        choice[r] \in Backtests /\ \A b \in steady[r] : Sharpe[b] <= Sharpe[choice[r]]
=============================================================================
