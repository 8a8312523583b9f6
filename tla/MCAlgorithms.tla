---------------------------- MODULE MCAlgorithms ----------------------------
(***************************************************************************)
(* Every small configuration of the splits: enough rows that folds are     *)
(* kept, skipped, cut short and refused.  Rule trees of two groups, with a *)
(* branch in the first, over rules of which some cannot be evaluated.      *)
(* Selections of up to four candidates,  with ties and failures.           *)
(***************************************************************************)
EXTENDS Algorithms

MCCVJobs ==
    [kind : {"cv"}, rows : 1..9, splits : {0, 1, 2, 3, 5}, test : 1..3, train : 1..4,
     method : Methods \ {"anchored"}]

MCWalkJobs ==
    [kind : {"walk"}, rows : {6, 9, 12, 13}, splits : 0..3, test : 1..4,
     train : {1, 4, 6, 12}, gap : 0..2, method : Methods, refit : BOOLEAN, horizon : {2}]

MCCPCVJobs ==
    [kind : {"cpcv"}, rows : {3, 7, 12, 17}, splits : 0..4, tested : 0..3,
     embargo : 0..2, purge : BOOLEAN, horizon : 0..3]

Rule(f, op, v) == [kind |-> "leaf", field |-> f, operator |-> op, value |-> v]
Branch(c, kids) == [kind |-> "branch", combinator |-> c, kids |-> kids]

MCRules == {Rule("prediction", ">", 0), Rule("prediction", "!=", 1), Rule("prediction", "<=", 1),
            Rule("rsi", "<", 1), Rule("prediction", "~", 0), Rule("prediction", ">", Text)}

MCTrees ==
    {[nodes |-> <<>>, groups |-> <<>>]}
    \cup {[nodes |-> <<Branch(c, <<3, 4>>), Branch(d, IF x = b THEN <<>> ELSE <<6>>),
                       a, Branch(d, <<5, 6>>), b, x>>,
           groups |-> <<[action |-> "SELL", node |-> 1], [action |-> "BUY", node |-> 2]>>] :
          c \in {"AND", "OR"}, d \in {"AND", "OR", "XOR"}, a, b, x \in MCRules}

MCTables ==
    {[columns |-> {"prediction"},
      rows |-> <<[prediction |-> 2], [prediction |-> NaN], [prediction |-> 1]>>],
     [columns |-> {"prediction", "rsi"},
      rows |-> <<[prediction |-> 0, rsi |-> 0], [prediction |-> 1, rsi |-> 2]>>]}

MCSelections ==
    [kind : {"tune", "tune_async"}, metric : {"error", "accuracy"},
     direction : {"minimize", "maximize"}, candidates : {1}, trials : {3}]
    \cup [kind : {"tune_candidates"}, metric : {"error", "accuracy"},
          direction : {"minimize"}, candidates : {2}, trials : {2}]
    \cup [kind : {"automl", "sweep"}, metric : {"error", "accuracy"}, direction : {"minimize"},
          candidates : 1..4, trials : {1}]
=============================================================================
