---------------------- MODULE StrategyLifecycleProofs ----------------------
(***************************************************************************)
(* What holds of a strategy's status for any number of requests and        *)
(* backtests, and whatever clients write: the types and KindInv; ViewInv,  *)
(* which says when a request has loaded the strategy and what a promotion  *)
(* has loaded; SeenInv, which follows what the row has said since then;    *)
(* EvidenceInv, which follows the choice of a promotion.                   *)
(***************************************************************************)
EXTENDS StrategyLifecycle, TLAPS

\* A request keeps its kind, and is where its kind may be.
KindInv ==
    \A r \in Requests : /\ pc[r] \in Active => kind[r] \in Kinds
                        /\ pc[r] = "gates" => kind[r] \in {"walk_forward", "cpcv"}
                        /\ pc[r] = "evidence" => kind[r] = "promote"
                        /\ pc[r] = "commit" => kind[r] # "delete"

\* When a request has a view and a verdict, and which view a promotion has.
ViewInv ==
    \A r \in Requests :
        /\ pc[r] \in {"idle", "load"} => view[r] = None
        /\ pc[r] \in {"idle", "gates"} => ~passed[r]
        /\ pc[r] = "load" /\ kind[r] # "cpcv" => ~passed[r]
        /\ pc[r] = "gates" => (kind[r] = "cpcv" <=> view[r] = None)
        /\ pc[r] \in {"evidence", "commit", "publish"} => view[r] # None
        /\ pc[r] \in {"evidence", "commit"} /\ Promotion(r) => view[r] = "validated"

\* A view is one of the statuses the row has had since; so is what was committed.
SeenInv ==
    /\ \A r \in Requests : view[r] # None => view[r] \in during[r]
    /\ TakesEffect

\* What was completed all the time is completed now, and no better than the choice.
EvidenceInv ==
    \A r \in Requests :
        /\ steady[r] \subseteq Completed
        /\ pc[r] \in {"commit", "publish"} /\ Promotion(r) =>
            choice[r] \in Backtests /\ \A b \in steady[r] : Sharpe[b] <= Sharpe[choice[r]]

-----------------------------------------------------------------------------
\* One request's local state has its type.
LocalOK ==
    /\ pc \in [Requests -> PCs]
    /\ kind \in [Requests -> Kinds \cup {None}]
    /\ view \in [Requests -> Statuses \cup {None}]
    /\ choice \in [Requests -> Backtests \cup {None}]
    /\ passed \in [Requests -> BOOLEAN]

\* The history variables keep their types.
LEMMA HistoryOK ==
    ASSUME TypeOK, LocalOK', History, status' \in Statuses,
           backtest' \in [Backtests -> {"open", "completed", "gone"}],
           experiment' \in BOOLEAN
    PROVE  TypeOK'
<1>1. steady' \in [Requests -> SUBSET Backtests]
  <2>1. Completed' \subseteq Backtests
    BY DEF Completed
  <2>2. \A r \in Requests : steady[r] \cap Completed' \subseteq Backtests
    BY <2>1
  <2> QED BY <2>1, <2>2 DEF History
<1>2. during' \in [Requests -> SUBSET Statuses]
  <2>1. \A r \in Requests : during[r] \cup {status'} \subseteq Statuses
    BY DEF TypeOK
  <2> QED BY <2>1 DEF History
<1> QED BY <1>1, <1>2 DEF TypeOK, LocalOK

\* Every step keeps the types.
LEMMA TypeOKStep ==
    ASSUME TypeOK, KindInv, [Next]_vars
    PROVE  TypeOK'
<1>0. TypeOK /\ LocalOK
  BY DEF TypeOK, LocalOK
<1>a. ASSUME NEW r \in Requests, Over(r)
      PROVE  LocalOK'
  BY <1>0, <1>a DEF Over, LocalOK, PCs
<1>b. ASSUME NEW r \in Requests, NEW label \in PCs, Goto(r, label)
      PROVE  LocalOK'
  BY <1>0, <1>b DEF Goto, LocalOK, localVars
<1>c. ASSUME NEW r \in Requests, NEW label \in PCs, Proceed(r, label)
      PROVE  LocalOK'
  BY <1>a, <1>b, <1>c DEF Proceed
<1>d. \A k \in Kinds : AfterLoad[k] \in PCs
  BY DEF Kinds, AfterLoad, PCs, Active
<1>e. \A k \in Kinds \ {"delete"} : AfterCommit[k] \in PCs
  BY DEF Kinds, AfterCommit, PCs, Active
<1>f. {"track", "over", "commit", "load"} \subseteq PCs
  BY DEF PCs, Active
<1>1. ASSUME NEW r \in Requests, Ask(r)
      PROVE  TypeOK'
  <2>1. PICK k \in Kinds : /\ kind' = [kind EXCEPT ![r] = k]
                           /\ pc' = [pc EXCEPT ![r] = IF k = "cpcv" THEN "gates" ELSE "load"]
    BY <1>1 DEF Ask
  <2>2. LocalOK'
    BY <1>0, <1>1, <2>1 DEF Ask, LocalOK, PCs, Active
  <2> QED BY <1>0, <1>1, <2>2, HistoryOK DEF Ask, TypeOK
<1>2. ASSUME NEW r \in Requests, Load(r)
      PROVE  TypeOK'
  <2>1. CASE Refuses(r)
    BY <1>0, <1>2, <1>c, <1>f, <2>1, HistoryOK DEF Load, TypeOK
  <2>2. CASE ~Refuses(r)
    <3>1. kind[r] \in Kinds
      BY <1>2 DEF Load, KindInv, Active
    <3>2. LocalOK'
      BY <1>0, <1>2, <1>d, <2>2, <3>1 DEF Load, LocalOK, TypeOK
    <3> QED BY <1>0, <1>2, <2>2, <3>2, HistoryOK DEF Load, TypeOK
  <2> QED BY <2>1, <2>2
<1>3. ASSUME NEW r \in Requests, Gates(r)
      PROVE  TypeOK'
  <2>1. LocalOK'
    <3>1. CASE Goto(r, "track")
      BY <1>b, <1>f, <3>1
    <3>2. CASE /\ pc' = [pc EXCEPT ![r] = IF kind[r] = "cpcv" THEN "load" ELSE "commit"]
               /\ passed' = [passed EXCEPT ![r] = TRUE] /\ UNCHANGED <<kind, view, choice>>
      BY <1>0, <1>f, <3>2 DEF LocalOK
    <3> QED BY <1>3, <3>1, <3>2 DEF Gates, WalkForward, Cpcv, Verdict
  <2> QED BY <1>0, <1>3, <2>1, HistoryOK DEF Gates, WalkForward, Cpcv, Verdict, TypeOK
<1>4. ASSUME NEW r \in Requests, Evidence(r)
      PROVE  TypeOK'
  <2>1. LocalOK'
    <3>1. CASE Over(r)
      BY <1>a, <3>1
    <3>2. CASE /\ \E b \in Bests(Completed) : choice' = [choice EXCEPT ![r] = b]
               /\ pc' = [pc EXCEPT ![r] = "commit"] /\ UNCHANGED <<kind, view, passed>>
      <4>1. Bests(Completed) \subseteq Backtests
        BY DEF Bests, Completed
      <4> QED BY <1>0, <1>f, <3>2, <4>1 DEF LocalOK
    <3> QED BY <1>4, <3>1, <3>2 DEF Evidence
  <2> QED BY <1>0, <1>4, <2>1, HistoryOK DEF Evidence, TypeOK
<1>5. ASSUME NEW r \in Requests, Commit(r)
      PROVE  TypeOK'
  <2>1. kind[r] \in Kinds \ {"delete"} /\ Targets(kind[r]) \subseteq Statuses
    BY <1>5 DEF Commit, KindInv, Active, Targets, StrategyStatus, Statuses
  <2>2. PICK new \in Targets(kind[r]) :
            /\ Proceed(r, IF Raises(r, new) THEN "over" ELSE AfterCommit[kind[r]])
            /\ status' = IF new = view[r] \/ status = "gone" THEN status ELSE new
    BY <1>5 DEF Commit
  <2>3. status' \in Statuses
    BY <2>1, <2>2 DEF TypeOK
  <2>4. LocalOK'
    BY <1>c, <1>e, <1>f, <2>1, <2>2
  <2> QED BY <1>0, <1>5, <2>3, <2>4, HistoryOK DEF Commit, TypeOK
<1>6. ASSUME NEW r \in Requests, Publish(r) \/ Fail(r) \/ Track(r)
      PROVE  TypeOK'
  <2>1. Over(r) /\ History /\ UNCHANGED <<status, backtest>> /\ experiment' \in BOOLEAN
    BY <1>0, <1>6 DEF Publish, Fail, Track, TypeOK
  <2> QED BY <1>0, <1>a, <2>1, HistoryOK DEF TypeOK
<1>7. ASSUME NEW r \in Requests, Delete(r)
      PROVE  TypeOK'
  <2>1. status' \in Statuses
    BY <1>0, <1>7 DEF Delete, TypeOK, Statuses
  <2> QED BY <1>0, <1>7, <1>a, <2>1, HistoryOK DEF Delete, TypeOK
<1>8. ASSUME NEW b \in Backtests, Move(b)
      PROVE  TypeOK'
  <2>1. backtest' \in [Backtests -> {"open", "completed", "gone"}]
    BY <1>0, <1>8 DEF Move, TypeOK
  <2>2. LocalOK'
    BY <1>0, <1>8 DEF Move, LocalOK, localVars
  <2> QED BY <1>0, <1>8, <2>1, <2>2, HistoryOK DEF Move, TypeOK
<1>9. CASE UNCHANGED vars
  BY <1>0, <1>9 DEF vars, localVars, history, TypeOK
<1> QED BY <1>1, <1>2, <1>3, <1>4, <1>5, <1>6, <1>7, <1>8, <1>9 DEF Next, Step

\* One request's step, the others where they were.
LEMMA OneRequest ==
    ASSUME TypeOK, NEW r \in Requests, Step(r) \/ Ask(r) \/ Fail(r)
    PROVE  \A q \in Requests \ {r} : /\ pc'[q] = pc[q] /\ kind'[q] = kind[q]
                                     /\ view'[q] = view[q] /\ choice'[q] = choice[q]
                                     /\ passed'[q] = passed[q]
<1> DEFINE Others == \A q \in Requests \ {r} : /\ pc'[q] = pc[q] /\ kind'[q] = kind[q]
                                                /\ view'[q] = view[q] /\ choice'[q] = choice[q]
                                                /\ passed'[q] = passed[q]
<1>1. ASSUME Over(r)
      PROVE  Others
  BY <1>1 DEF Over, TypeOK
<1>2. ASSUME NEW label, Goto(r, label)
      PROVE  Others
  BY <1>2 DEF Goto, TypeOK, localVars
<1>3. CASE Ask(r)
  BY <1>3 DEF Ask, TypeOK
<1>4. CASE Load(r)
  <2>1. CASE Refuses(r)
    BY <1>1, <1>2, <1>4, <2>1 DEF Load, Proceed
  <2>2. CASE ~Refuses(r)
    BY <1>4, <2>2 DEF Load, TypeOK
  <2> QED BY <2>1, <2>2
<1>5. CASE Evidence(r)
  <2>1. CASE Over(r)
    BY <1>1, <2>1
  <2>2. CASE /\ \E b \in Bests(Completed) : choice' = [choice EXCEPT ![r] = b]
             /\ pc' = [pc EXCEPT ![r] = "commit"] /\ UNCHANGED <<kind, view, passed>>
    BY <2>2 DEF TypeOK
  <2> QED BY <1>5, <2>1, <2>2 DEF Evidence
<1>6. CASE Gates(r)
  <2>1. CASE Goto(r, "track")
    BY <1>2, <2>1
  <2>2. CASE ~Goto(r, "track")
    BY <1>6, <2>2 DEF Gates, WalkForward, Cpcv, Verdict, TypeOK
  <2> QED BY <2>1, <2>2
<1>7. CASE Commit(r)
  BY <1>1, <1>2, <1>7 DEF Commit, Proceed
<1>8. CASE Publish(r) \/ Track(r) \/ Delete(r) \/ Fail(r)
  BY <1>1, <1>8 DEF Publish, Track, Delete, Fail
<1> QED BY <1>3, <1>4, <1>5, <1>6, <1>7, <1>8 DEF Step

\* Where one request's step leaves it.
LEMMA StepLabels ==
    ASSUME TypeOK, KindInv, NEW r \in Requests
    PROVE  /\ Ask(r) => pc'[r] = (IF kind'[r] = "cpcv" THEN "gates" ELSE "load") /\ kind'[r] \in Kinds
           /\ Load(r) => \/ Refuses(r) /\ pc'[r] \in {"over", "track"}
                         \/ ~Refuses(r) /\ pc'[r] = AfterLoad[kind[r]]
           /\ Gates(r) => pc'[r] \in {"load", "commit", "track"}
           /\ Evidence(r) => pc'[r] \in {"commit", "over"}
           /\ Commit(r) => pc'[r] \in {"over", "publish", "track"}
           /\ Publish(r) \/ Track(r) \/ Delete(r) \/ Fail(r) => pc'[r] = "over"
           /\ Step(r) \/ Fail(r) => kind'[r] = kind[r] \/ pc'[r] = "over"
<1> USE DEF TypeOK
<1>1. ASSUME NEW label, Goto(r, label)
      PROVE  pc'[r] = label /\ kind'[r] = kind[r]
  BY <1>1 DEF Goto, localVars
<1>2. ASSUME Over(r)
      PROVE  pc'[r] = "over"
  BY <1>2 DEF Over
<1>3. ASSUME NEW label, Proceed(r, label)
      PROVE  pc'[r] = label /\ (kind'[r] = kind[r] \/ pc'[r] = "over")
  BY <1>1, <1>2, <1>3 DEF Proceed
<1>4. ASSUME Ask(r)
      PROVE  pc'[r] = (IF kind'[r] = "cpcv" THEN "gates" ELSE "load") /\ kind'[r] \in Kinds
  BY <1>4 DEF Ask
<1>5. ASSUME Load(r)
      PROVE  /\ \/ Refuses(r) /\ pc'[r] \in {"over", "track"}
                \/ ~Refuses(r) /\ pc'[r] = AfterLoad[kind[r]]
             /\ kind'[r] = kind[r] \/ pc'[r] = "over"
  BY <1>3, <1>5 DEF Load
<1>6. ASSUME Gates(r)
      PROVE  pc'[r] \in {"load", "commit", "track"} /\ kind'[r] = kind[r]
  BY <1>1, <1>6 DEF Gates, WalkForward, Cpcv, Verdict
<1>7. ASSUME Evidence(r)
      PROVE  pc'[r] \in {"commit", "over"} /\ (kind'[r] = kind[r] \/ pc'[r] = "over")
  BY <1>2, <1>7 DEF Evidence
<1>8. ASSUME Commit(r)
      PROVE  pc'[r] \in {"over", "publish", "track"} /\ (kind'[r] = kind[r] \/ pc'[r] = "over")
  <2>1. kind[r] \in Kinds \ {"delete"}
    BY <1>8 DEF Commit, KindInv, Active
  <2>2. AfterCommit[kind[r]] \in {"over", "publish", "track"}
    BY <2>1 DEF Kinds, AfterCommit
  <2> QED BY <1>2, <1>3, <1>8, <2>2 DEF Commit
<1>9. ASSUME Publish(r) \/ Track(r) \/ Delete(r) \/ Fail(r)
      PROVE  pc'[r] = "over"
  BY <1>2, <1>9 DEF Publish, Track, Delete, Fail
<1> QED BY <1>4, <1>5, <1>6, <1>7, <1>8, <1>9 DEF Step

\* A request keeps its kind.
LEMMA KindStep ==
    ASSUME TypeOK, KindInv, [Next]_vars
    PROVE  KindInv'
<1>1. ASSUME NEW r \in Requests, Step(r) \/ Ask(r) \/ Fail(r)
      PROVE  KindInv'
  <2>1. pc'[r] \in Active => kind'[r] \in Kinds
    BY <1>1, StepLabels
    DEF KindInv, Active, Step, Ask, Load, Gates, WalkForward, Cpcv, Verdict, Evidence,
        Commit, Publish, Track, Delete, Fail
  <2>2. /\ pc'[r] = "gates" => kind'[r] \in {"walk_forward", "cpcv"}
        /\ pc'[r] = "evidence" => kind'[r] = "promote"
        /\ pc'[r] = "commit" => kind'[r] # "delete"
    <3>1. CASE Load(r)
      <4>1. kind[r] \in Kinds
        BY <3>1 DEF Load, KindInv, Active
      <4>2. \/ AfterLoad[kind[r]] = "gates" /\ kind[r] = "walk_forward"
            \/ AfterLoad[kind[r]] = "evidence" /\ kind[r] = "promote"
            \/ AfterLoad[kind[r]] = "commit" /\ kind[r] # "delete"
            \/ AfterLoad[kind[r]] = "delete"
        BY <4>1 DEF Kinds, AfterLoad
      <4> QED BY <3>1, <4>2, StepLabels DEF Step
    <3>2. CASE Gates(r)
      BY <3>2, StepLabels DEF Step, Gates, WalkForward, Cpcv, Verdict, KindInv
    <3>3. CASE Evidence(r)
      BY <3>3, StepLabels DEF Step, Evidence, KindInv
    <3>4. CASE ~(Load(r) \/ Gates(r) \/ Evidence(r))
      BY <1>1, <3>4, StepLabels DEF Step
    <3> QED BY <3>1, <3>2, <3>3, <3>4
  <2> QED BY <1>1, <2>1, <2>2, OneRequest DEF KindInv
<1>2. ASSUME NEW b \in Backtests, Move(b)
      PROVE  KindInv'
  BY <1>2 DEF Move, KindInv, localVars
<1>3. CASE UNCHANGED vars
  BY <1>3 DEF vars, localVars, KindInv
<1> QED BY <1>1, <1>2, <1>3 DEF Next

\* A request loads the strategy before it commits, and a promotion loads it validated.
LEMMA ViewStep ==
    ASSUME TypeOK, KindInv, ViewInv, [Next]_vars
    PROVE  ViewInv'
<1> USE DEF Promotion
<1>1. ASSUME NEW r \in Requests, Step(r) \/ Ask(r) \/ Fail(r),
             /\ pc'[r] \in {"idle", "load"} => view'[r] = None
             /\ pc'[r] \in {"idle", "gates"} => ~passed'[r]
             /\ pc'[r] = "load" /\ kind'[r] # "cpcv" => ~passed'[r]
             /\ pc'[r] = "gates" => (kind'[r] = "cpcv" <=> view'[r] = None)
             /\ pc'[r] \in {"evidence", "commit", "publish"} => view'[r] # None
             /\ pc'[r] \in {"evidence", "commit"} /\ kind'[r] = "promote"
                    => view'[r] = "validated"
      PROVE  ViewInv'
  BY <1>1, OneRequest DEF ViewInv
<1>2. ASSUME NEW r \in Requests, Over(r), Step(r) \/ Fail(r)
      PROVE  ViewInv'
  <2>1. pc'[r] = "over"
    BY <1>2 DEF Over, TypeOK
  <2> QED BY <1>1, <1>2, <2>1
<1>3. ASSUME NEW r \in Requests, Ask(r)
      PROVE  ViewInv'
  <2>1. pc[r] = "idle" /\ UNCHANGED <<view, passed>>
    BY <1>3 DEF Ask
  <2>2. pc'[r] = (IF kind'[r] = "cpcv" THEN "gates" ELSE "load")
    BY <1>3, StepLabels
  <2>3. view[r] = None /\ ~passed[r]
    BY <2>1 DEF ViewInv
  <2> QED BY <1>1, <1>3, <2>1, <2>2, <2>3
<1>4. ASSUME NEW r \in Requests, Load(r)
      PROVE  ViewInv'
  <2>1. pc[r] = "load" /\ Step(r) /\ kind[r] \in Kinds
    BY <1>4 DEF Load, Step, KindInv, Active
  <2>2. CASE Refuses(r)
    <3>1. CASE Over(r)
      BY <1>2, <2>1, <3>1
    <3>2. CASE Goto(r, "track")
      <4>1. pc'[r] = "track"
        BY <3>2 DEF Goto, TypeOK
      <4> QED BY <1>1, <2>1, <4>1
    <3> QED BY <1>4, <2>2, <3>1, <3>2 DEF Load, Proceed
  <2>3. CASE ~Refuses(r)
    <3>1. /\ pc'[r] = AfterLoad[kind[r]] /\ kind'[r] = kind[r] /\ view'[r] = status
          /\ passed'[r] = passed[r]
      BY <1>4, <2>3 DEF Load, TypeOK
    <3>2. status # None
      BY <2>3, StrategyAssumption DEF Refuses, TypeOK, Statuses
    <3>3. kind[r] = "promote" => status = "validated"
      BY <2>3 DEF Refuses
    <3>4. AfterLoad[kind[r]] \in {"gates", "commit", "evidence", "delete"}
      BY <2>1 DEF AfterLoad, Kinds
    <3>5. AfterLoad[kind[r]] = "gates" => kind[r] = "walk_forward"
      BY <2>1 DEF AfterLoad, Kinds
    <3>6. kind[r] # "cpcv" => ~passed[r]
      BY <2>1 DEF ViewInv
    <3> QED BY <1>1, <2>1, <3>1, <3>2, <3>3, <3>4, <3>5, <3>6
  <2> QED BY <2>2, <2>3
<1>5. ASSUME NEW r \in Requests, Gates(r)
      PROVE  ViewInv'
  <2>1. pc[r] = "gates" /\ Step(r) /\ kind[r] \in {"walk_forward", "cpcv"}
    BY <1>5 DEF Gates, WalkForward, Cpcv, Verdict, Step, KindInv
  <2>2. CASE Goto(r, "track")
    <3>1. pc'[r] = "track"
      BY <2>2 DEF Goto, TypeOK
    <3> QED BY <1>1, <2>1, <3>1
  <2>3. CASE ~Goto(r, "track")
    <3>1. /\ pc'[r] = (IF kind[r] = "cpcv" THEN "load" ELSE "commit")
          /\ kind'[r] = kind[r] /\ view'[r] = view[r]
      BY <1>5, <2>3 DEF Gates, WalkForward, Cpcv, Verdict, TypeOK
    <3>2. CASE kind[r] = "cpcv"
      <4>1. view[r] = None
        BY <2>1, <3>2 DEF ViewInv
      <4> QED BY <1>1, <2>1, <3>1, <3>2, <4>1
    <3>3. CASE kind[r] = "walk_forward"
      BY <1>1, <2>1, <3>1, <3>3 DEF ViewInv
    <3> QED BY <2>1, <3>2, <3>3
  <2> QED BY <2>2, <2>3
<1>6. ASSUME NEW r \in Requests, Evidence(r)
      PROVE  ViewInv'
  <2>1. pc[r] = "evidence" /\ Step(r)
    BY <1>6 DEF Evidence, Step
  <2>2. CASE Over(r)
    BY <1>2, <2>1, <2>2
  <2>3. CASE ~Over(r)
    <3>1. pc'[r] = "commit" /\ kind'[r] = kind[r] /\ view'[r] = view[r]
      BY <1>6, <2>3 DEF Evidence, TypeOK
    <3> QED BY <1>1, <2>1, <3>1 DEF ViewInv
  <2> QED BY <2>2, <2>3
<1>7. ASSUME NEW r \in Requests, Commit(r)
      PROVE  ViewInv'
  <2>1. pc[r] = "commit" /\ Step(r) /\ pc'[r] \in {"over", "publish", "track"}
    BY <1>7, StepLabels DEF Commit, Step
  <2>2. PICK label : Proceed(r, label)
    BY <1>7 DEF Commit
  <2>3. CASE label = "over"
    BY <1>2, <2>1, <2>2, <2>3 DEF Proceed
  <2>4. CASE label # "over"
    <3>1. UNCHANGED localVars
      BY <2>2, <2>4 DEF Proceed, Goto
    <3> QED BY <1>1, <2>1, <3>1 DEF ViewInv, localVars
  <2> QED BY <2>3, <2>4
<1>8. ASSUME NEW r \in Requests, Publish(r) \/ Track(r) \/ Delete(r) \/ Fail(r)
      PROVE  ViewInv'
  BY <1>2, <1>8 DEF Publish, Track, Delete, Fail, Step
<1>9. ASSUME NEW b \in Backtests, Move(b)
      PROVE  ViewInv'
  BY <1>9 DEF Move, ViewInv, localVars
<1>10. CASE UNCHANGED vars
  BY <1>10 DEF vars, localVars, ViewInv
<1> QED BY <1>3, <1>4, <1>5, <1>6, <1>7, <1>8, <1>9, <1>10 DEF Next, Step

\* What a request has committed was in the row while the request was under way.
LEMMA SeenStep ==
    ASSUME TypeOK, KindInv, ViewInv, SeenInv, [Next]_vars
    PROVE  SeenInv'
<1> USE DEF Promotion
<1> DEFINE Effect(r) == IF kind[r] = "promote" THEN {"validated", "promoted"} \subseteq during[r]
                                               ELSE "validated" \in during[r]
<1>1. ASSUME History
      PROVE  \A r \in Requests : view'[r] # None => during'[r] = during[r] \cup {status'}
  BY <1>1 DEF History
\* Whose view, place and verdict stay, has what it had.
<1>2. ASSUME History, NEW q \in Requests, pc'[q] = pc[q], kind'[q] = kind[q],
             view'[q] = view[q], passed'[q] = passed[q]
      PROVE  (view'[q] # None => view'[q] \in during'[q]) /\ (Committed(q)' => Effect(q)')
  <2>1. view'[q] # None => view'[q] \in during'[q]
    BY <1>1, <1>2 DEF SeenInv
  <2>2. ASSUME Committed(q)'
        PROVE  Effect(q)'
    <3>1. Committed(q) /\ view'[q] # None
      BY <1>2, <2>2 DEF Committed, ViewInv
    <3> QED BY <1>1, <1>2, <3>1 DEF SeenInv, TakesEffect
  <2> QED BY <2>1, <2>2
<1>3. ASSUME NEW r \in Requests, Step(r) \/ Ask(r) \/ Fail(r), History,
             view'[r] # None => view'[r] \in during'[r], Committed(r)' => Effect(r)'
      PROVE  SeenInv'
  <2>1. \A q \in Requests :
            (view'[q] # None => view'[q] \in during'[q]) /\ (Committed(q)' => Effect(q)')
    BY <1>2, <1>3, OneRequest
  <2> QED BY <2>1 DEF SeenInv, TakesEffect
\* A step that ends no commit and keeps the view.
<1>4. ASSUME NEW r \in Requests, Step(r) \/ Ask(r) \/ Fail(r), History,
             view'[r] = view[r] \/ view'[r] = None, ~Committed(r)'
      PROVE  SeenInv'
  BY <1>1, <1>3, <1>4 DEF SeenInv
<1>5. ASSUME NEW r \in Requests, Over(r), Step(r) \/ Fail(r), History
      PROVE  SeenInv'
  BY <1>4, <1>5 DEF Over, TypeOK, Committed
<1>6. ASSUME NEW r \in Requests, Ask(r)
      PROVE  SeenInv'
  <2>1. pc'[r] \in {"gates", "load"}
    BY <1>6, StepLabels
  <2> QED BY <1>4, <1>6, <2>1 DEF Ask, Committed
<1>7. ASSUME NEW r \in Requests, Load(r)
      PROVE  SeenInv'
  <2>1. History /\ Step(r) /\ UNCHANGED status /\ view[r] = None
    BY <1>7 DEF Load, Step, ViewInv
  <2>2. CASE Over(r)
    BY <1>5, <2>1, <2>2
  <2>3. CASE Goto(r, "track")
    BY <1>4, <2>1, <2>3 DEF Goto, localVars, Committed, TypeOK
  <2>4. CASE ~Refuses(r)
    <3>1. view'[r] = status' /\ pc'[r] = AfterLoad[kind[r]] /\ kind[r] \in Kinds
      BY <1>7, <2>4 DEF Load, TypeOK, KindInv, Active
    <3>2. view'[r] # None => view'[r] \in during'[r]
      BY <1>1, <2>1, <3>1
    <3>3. ~Committed(r)'
      BY <3>1 DEF AfterLoad, Kinds, Committed
    <3> QED BY <1>3, <2>1, <3>2, <3>3
  <2> QED BY <1>7, <2>2, <2>3, <2>4 DEF Load, Proceed
<1>8. ASSUME NEW r \in Requests, Gates(r)
      PROVE  SeenInv'
  <2>1. History /\ Step(r) /\ ~passed[r] /\ view'[r] = view[r]
    BY <1>8 DEF Gates, WalkForward, Cpcv, Verdict, Step, ViewInv, Goto, localVars
  <2>2. ~Committed(r)'
    <3>1. CASE Goto(r, "track")
      BY <2>1, <3>1 DEF Goto, localVars, Committed, TypeOK
    <3>2. CASE ~Goto(r, "track")
      BY <1>8, <3>2 DEF Gates, WalkForward, Cpcv, Verdict, Committed, TypeOK
    <3> QED BY <3>1, <3>2
  <2> QED BY <1>4, <2>1, <2>2
<1>9. ASSUME NEW r \in Requests, Evidence(r)
      PROVE  SeenInv'
  <2>1. History /\ Step(r) /\ pc'[r] \in {"commit", "over"}
    BY <1>9, StepLabels DEF Evidence, Step
  <2>2. view'[r] = view[r] \/ view'[r] = None
    BY <1>9 DEF Evidence, Over, TypeOK
  <2> QED BY <1>4, <2>1, <2>2 DEF Committed
<1>10. ASSUME NEW r \in Requests, Commit(r)
       PROVE  SeenInv'
  <2>1. History /\ Step(r) /\ pc[r] = "commit" /\ kind[r] \in Kinds \ {"delete"}
    BY <1>10 DEF Commit, Step, KindInv, Active
  <2>2. PICK new \in Targets(kind[r]) :
            /\ Proceed(r, IF Raises(r, new) THEN "over" ELSE AfterCommit[kind[r]])
            /\ status' = IF new = view[r] \/ status = "gone" THEN status ELSE new
    BY <1>10 DEF Commit
  <2>3. CASE Over(r)
    BY <1>5, <2>1, <2>3
  <2>4. CASE ~Over(r)
    <3>1. ~Raises(r, new) /\ Goto(r, AfterCommit[kind[r]]) /\ AfterCommit[kind[r]] # "over"
      BY <2>2, <2>4 DEF Proceed
    <3>2. view'[r] = view[r] /\ view[r] # None /\ view[r] \in during[r] /\ kind'[r] = kind[r]
      BY <2>1, <3>1 DEF Goto, localVars, ViewInv, SeenInv
    <3>3. during'[r] = during[r] \cup {status'}
      BY <1>1, <2>1, <3>2
    <3>4. new \in during'[r]
      BY <2>2, <3>1, <3>2, <3>3 DEF Raises
    <3>5. kind[r] = "promote" => new = "promoted" /\ "validated" \in during'[r]
      BY <2>1, <2>2, <3>2, <3>3 DEF Targets, ViewInv
    <3>6. kind[r] # "promote" => new = "validated"
      BY <2>1, <2>2, <3>1 DEF Targets, AfterCommit
    <3> QED BY <1>3, <2>1, <3>2, <3>3, <3>4, <3>5, <3>6
  <2> QED BY <2>3, <2>4
<1>11. ASSUME NEW r \in Requests, Publish(r) \/ Track(r) \/ Delete(r) \/ Fail(r)
       PROVE  SeenInv'
  BY <1>5, <1>11 DEF Publish, Track, Delete, Fail, Step
<1>12. ASSUME NEW b \in Backtests, Move(b)
       PROVE  SeenInv'
  <2>1. \A q \in Requests :
            (view'[q] # None => view'[q] \in during'[q]) /\ (Committed(q)' => Effect(q)')
    BY <1>2, <1>12 DEF Move, localVars
  <2> QED BY <2>1 DEF SeenInv, TakesEffect
<1>13. CASE UNCHANGED vars
  BY <1>13 DEF vars, localVars, history, SeenInv, TakesEffect, Committed
<1> QED BY <1>6, <1>7, <1>8, <1>9, <1>10, <1>11, <1>12, <1>13 DEF Next, Step

\* A choice stays as good as what stays completed.
LEMMA EvidenceStep ==
    ASSUME TypeOK, KindInv, ViewInv, EvidenceInv, [Next]_vars
    PROVE  EvidenceInv'
<1> USE DEF Promotion
<1> DEFINE Best(r) == choice[r] \in Backtests /\ \A b \in steady[r] : Sharpe[b] <= Sharpe[choice[r]]
<1>1. ASSUME History, NEW q \in Requests
      PROVE  /\ steady'[q] \subseteq Completed'
             /\ view[q] # None => steady'[q] \subseteq steady[q]
  <2>1. steady'[q] = CASE view'[q] = None -> {}
                       [] view[q] = None -> Completed'
                       [] OTHER -> steady[q] \cap Completed'
    BY <1>1 DEF History
  <2> QED BY <2>1
\* Whose place, view and choice stay, has what it had.
<1>2. ASSUME History, NEW q \in Requests, pc[q] \in {"commit", "publish"}, kind'[q] = kind[q],
             choice'[q] = choice[q], kind[q] = "promote"
      PROVE  Best(q)'
  BY <1>1, <1>2 DEF EvidenceInv, ViewInv
<1>3. ASSUME NEW r \in Requests, Step(r) \/ Ask(r) \/ Fail(r), History,
             pc'[r] \in {"commit", "publish"} /\ kind'[r] = "promote" => Best(r)'
      PROVE  EvidenceInv'
  <2>1. \A q \in Requests :
            pc'[q] \in {"commit", "publish"} /\ kind'[q] = "promote" => Best(q)'
    BY <1>2, <1>3, OneRequest
  <2> QED BY <1>1, <1>3, <2>1 DEF EvidenceInv
<1>4. ASSUME NEW r \in Requests, Evidence(r)
      PROVE  EvidenceInv'
  <2>1. History /\ Step(r) /\ pc[r] = "evidence" /\ view[r] # None
    BY <1>4 DEF Evidence, Step, ViewInv
  <2>2. CASE Over(r)
    BY <1>3, <2>1, <2>2 DEF Over, TypeOK
  <2>3. CASE ~Over(r)
    <3>1. PICK b \in Bests(Completed) : choice' = [choice EXCEPT ![r] = b]
      BY <1>4, <2>3 DEF Evidence
    <3>2. choice'[r] = b /\ b \in Backtests /\ \A a \in Completed : Sharpe[a] <= Sharpe[b]
      BY <3>1 DEF Bests, Completed, TypeOK
    <3>3. steady'[r] \subseteq Completed
      BY <1>1, <2>1 DEF EvidenceInv
    <3> QED BY <1>3, <2>1, <3>2, <3>3
  <2> QED BY <2>2, <2>3
<1>5. ASSUME NEW r \in Requests, Commit(r)
      PROVE  EvidenceInv'
  <2>1. History /\ Step(r) /\ pc[r] = "commit"
    BY <1>5 DEF Commit, Step
  <2>2. CASE Over(r)
    BY <1>3, <2>1, <2>2 DEF Over, TypeOK
  <2>3. CASE ~Over(r)
    <3>1. UNCHANGED localVars
      BY <1>5, <2>3 DEF Commit, Proceed, Goto
    <3> QED BY <1>2, <1>3, <2>1, <3>1 DEF localVars
  <2> QED BY <2>2, <2>3
<1>6. ASSUME NEW r \in Requests, Load(r) \/ Gates(r)
      PROVE  EvidenceInv'
  <2>1. History /\ Step(r)
    BY <1>6 DEF Load, Gates, WalkForward, Cpcv, Verdict, Step
  <2>2. pc'[r] \in {"commit", "publish"} => kind'[r] # "promote"
    <3>1. CASE Load(r)
      <4>1. kind[r] \in Kinds /\ (kind'[r] = kind[r] \/ pc'[r] = "over")
        BY <3>1, StepLabels DEF Load, KindInv, Active, Step
      <4>2. AfterLoad["promote"] = "evidence"
        BY DEF AfterLoad
      <4> QED BY <3>1, <4>1, <4>2, StepLabels
    <3>2. CASE Gates(r)
      BY <3>2, StepLabels DEF Gates, WalkForward, Cpcv, Verdict, KindInv, Step
    <3> QED BY <1>6, <3>1, <3>2
  <2> QED BY <1>3, <2>1, <2>2
<1>7. ASSUME NEW r \in Requests,
             Ask(r) \/ Publish(r) \/ Track(r) \/ Delete(r) \/ Fail(r)
      PROVE  EvidenceInv'
  <2>1. pc'[r] \notin {"commit", "publish"}
    BY <1>7, StepLabels
  <2>2. History /\ (Step(r) \/ Ask(r) \/ Fail(r))
    BY <1>7 DEF Ask, Publish, Track, Delete, Fail, Step
  <2> QED BY <1>3, <2>1, <2>2
<1>8. ASSUME NEW b \in Backtests, Move(b)
      PROVE  EvidenceInv'
  <2>1. History /\ UNCHANGED <<pc, kind, choice>>
    BY <1>8 DEF Move, localVars
  <2>2. \A q \in Requests :
            pc'[q] \in {"commit", "publish"} /\ kind'[q] = "promote" => Best(q)'
    BY <1>2, <2>1
  <2> QED BY <1>1, <2>1, <2>2 DEF EvidenceInv
<1>9. CASE UNCHANGED vars
  BY <1>9 DEF vars, localVars, history, EvidenceInv, Completed
<1> QED BY <1>4, <1>5, <1>6, <1>7, <1>8, <1>9 DEF Next, Step

-----------------------------------------------------------------------------
StrategyInv == TypeOK /\ KindInv /\ ViewInv /\ SeenInv /\ EvidenceInv

LEMMA StrategyInvAlways == Spec => []StrategyInv
<1>1. Init => StrategyInv
  <2> SUFFICES ASSUME Init
               PROVE  StrategyInv
    OBVIOUS
  <2>1. TypeOK
    BY DEF Init, TypeOK, PCs, StrategyStatus, Statuses
  <2>2. KindInv /\ ViewInv /\ SeenInv /\ EvidenceInv
    BY DEF Init, KindInv, Active, ViewInv, SeenInv, TakesEffect, Committed, EvidenceInv
  <2> QED BY <2>1, <2>2 DEF StrategyInv
<1>2. StrategyInv /\ [Next]_vars => StrategyInv'
  BY TypeOKStep, KindStep, ViewStep, SeenStep, EvidenceStep DEF StrategyInv
<1> QED BY <1>1, <1>2, PTL DEF Spec

\* Every variable keeps its type, whatever clients write into the status.
THEOREM StrategyTypes == Spec => []TypeOK
<1>1. StrategyInv => TypeOK
  BY DEF StrategyInv
<1> QED BY <1>1, StrategyInvAlways, PTL

\* However old the view a commit was compared with, and whoever else writes or deletes
\* the row: what it committed was the row's status while the request was under way, and
\* a promotion has found the row validated and made it promoted.
THEOREM CommitsTakeEffect == Spec => []TakesEffect
<1>1. StrategyInv => TakesEffect
  BY DEF StrategyInv, SeenInv
<1> QED BY <1>1, StrategyInvAlways, PTL

\* Promotion goes by a backtest no worse than any that was completed all along.
THEOREM PromotionGoesByBest == Spec => []EvidenceIsBest
<1>1. StrategyInv => EvidenceIsBest
  BY DEF StrategyInv, EvidenceInv, EvidenceIsBest
<1> QED BY <1>1, StrategyInvAlways, PTL
=============================================================================
