------------------------------- MODULE Splits -------------------------------
(***************************************************************************)
(* How the rows of a data set are divided into rows to train on and rows   *)
(* to test on: the time-series folds of model training                     *)
(* (cross_validation.py), the walk-forward folds (walk_forward.py) and the *)
(* combinatorial purged splits (cpcv.py) with the loops that evaluate them *)
(* (WalkForwardEngine.run, CPCVEngine.run).                                *)
(*                                                                         *)
(* One behaviour is one job.  A step is one turn of the job's loop.  Rows  *)
(* are 0..rows-1, windows are half open as Python's ranges are.  The       *)
(* fractions of a configuration appear as the numbers of rows they come to *)
(* (at least one, by the code's max(1, ...)); training and prediction      *)
(* appear as the window the model was trained on.                          *)
(***************************************************************************)
EXTENDS Integers, FiniteSets

CONSTANTS
    CVJobs,     \* jobs of TimeSeriesCV.split
    WalkJobs,   \* jobs of WalkForwardEngine.run
    CPCVJobs    \* jobs of CPCVEngine.run

Methods == {"rolling", "expanding", "anchored"}

ASSUME SplitsAssumption ==
    /\ CVJobs \subseteq [kind : {"cv"}, rows : Nat, splits : Nat, test : Nat \ {0},
                         train : Nat \ {0}, method : Methods \ {"anchored"}]
    /\ WalkJobs \subseteq [kind : {"walk"}, rows : Nat, splits : Nat, test : Nat \ {0},
                           train : Nat \ {0}, gap : Nat, method : Methods, refit : BOOLEAN,
                           horizon : Nat]
    /\ CPCVJobs \subseteq [kind : {"cpcv"}, rows : Nat, splits : Nat, tested : Nat,
                           embargo : Nat, purge : BOOLEAN, horizon : Nat]

VARIABLES
    job,     \* the configuration and the number of rows
    phase,   \* "split", "evaluate", "done", "refused" (a ValueError) or "raised" (from a fold)
    at,      \* the number of folds, of CPCV the number of paths, the loop has been through
    folds,   \* fold -> its windows, for the folds that were kept
    model,   \* fold -> the fold whose training window its model has seen
    paths,   \* set of test folds -> its rows to train on and to test on
    reported \* the folds or paths that the result has

splitVars == <<job, phase, at, folds, model, paths, reported>>

Smaller(a, b) == IF a < b THEN a ELSE b
Larger(a, b) == IF a > b THEN a ELSE b
Least(S) == CHOOSE x \in S : \A y \in S : x <= y
Greatest(S) == CHOOSE x \in S : \A y \in S : y <= x

Window(trainStart, trainEnd, testStart, testEnd) ==
    [trainStart |-> trainStart, trainEnd |-> trainEnd,
     testStart |-> testStart, testEnd |-> testEnd]

Extend(f, x, v) == [y \in DOMAIN f \cup {x} |-> IF y = x THEN v ELSE f[y]]

-----------------------------------------------------------------------------
(***************************************************************************)
(* TimeSeriesCV.split: a generator that refuses when nothing is left       *)
(* between the first training window and the test window, and breaks off   *)
(* when a fold would have nothing to test.                                 *)
(***************************************************************************)

Usable(n, train, test) == n - train - test

Stride ==
    IF job.splits > 1
    THEN Larger(1, Usable(job.rows, job.train, job.test) \div (job.splits - 1))
    ELSE Usable(job.rows, job.train, job.test)

\* Mutant: a rolling window that slides by the test's length and so looks into it.
CVWindowLate(i) ==
    LET trainEnd == job.train + i * Stride
        start == IF job.method = "expanding" THEN 0 ELSE Larger(0, trainEnd - job.train)
    IN  Window(start, trainEnd + 1, trainEnd, Smaller(trainEnd + job.test, job.rows))

CVWindow(i) ==
    LET trainEnd == job.train + i * Stride
        start == IF job.method = "expanding" THEN 0 ELSE Larger(0, trainEnd - job.train)
    IN  Window(start, trainEnd, trainEnd, Smaller(trainEnd + job.test, job.rows))

Empty(w) == w.testEnd <= w.testStart \/ w.trainEnd > job.rows

CVRefuse ==
    /\ job.kind = "cv" /\ phase = "split"
    /\ Usable(job.rows, job.train, job.test) <= 0
    /\ phase' = "refused"
    /\ UNCHANGED <<job, at, folds, model, paths, reported>>

CVFold ==
    /\ job.kind = "cv" /\ phase = "split"
    /\ Usable(job.rows, job.train, job.test) > 0
    /\ at < job.splits /\ ~Empty(CVWindow(at))
    /\ folds' = Extend(folds, at, CVWindow(at))
    /\ model' = Extend(model, at, at)
    /\ at' = at + 1
    /\ UNCHANGED <<job, phase, paths, reported>>

CVEnd ==
    /\ job.kind = "cv" /\ phase = "split"
    /\ Usable(job.rows, job.train, job.test) > 0
    /\ at = job.splits \/ Empty(CVWindow(at))
    /\ phase' = "done"
    /\ UNCHANGED <<job, at, folds, model, paths, reported>>

-----------------------------------------------------------------------------
(***************************************************************************)
(* _make_splits of the walk-forward engine: the test windows end with the  *)
(* last row and are laid backwards from there; folds without enough rows   *)
(* to train on are left out.                                               *)
(***************************************************************************)

\* Mutant: the windows are laid forwards from the first row that can be trained on.
WalkWindowForwards(i) ==
    LET testStart == job.train + i * job.test
        trainEnd == testStart - job.gap
    IN  Window(IF job.method = "rolling" THEN Larger(0, trainEnd - job.train) ELSE 0,
               trainEnd, testStart, testStart + job.test)

WalkWindow(i) ==
    LET testEnd == job.rows - (job.splits - 1 - i) * job.test
        testStart == testEnd - job.test
        trainEnd == testStart - job.gap
    IN  Window(IF job.method = "rolling" THEN Larger(0, trainEnd - job.train) ELSE 0,
               trainEnd, testStart, testEnd)

\* Mutant: half of the minimum is enough however few rows that is.
KeepHalf(w) ==
    /\ w.trainEnd > w.trainStart /\ w.testStart < w.testEnd
    /\ w.trainEnd - w.trainStart >= job.train \div 2

Keep(w) ==
    /\ w.trainEnd > w.trainStart /\ w.testStart < w.testEnd
    /\ w.trainEnd - w.trainStart >= Larger(5, job.train \div 2)

WalkFold ==
    /\ job.kind = "walk" /\ phase = "split"
    /\ at < job.splits /\ Keep(WalkWindow(at))
    /\ folds' = Extend(folds, at, WalkWindow(at))
    /\ at' = at + 1
    /\ UNCHANGED <<job, phase, model, paths, reported>>

WalkSkip ==
    /\ job.kind = "walk" /\ phase = "split"
    /\ at < job.splits /\ ~Keep(WalkWindow(at))
    /\ at' = at + 1
    /\ UNCHANGED <<job, phase, folds, model, paths, reported>>

WalkSplit ==
    /\ job.kind = "walk" /\ phase = "split"
    /\ at = job.splits
    /\ phase' = IF DOMAIN folds = {} THEN "refused" ELSE "evaluate"
    /\ UNCHANGED <<job, at, folds, model, paths, reported>>

\* The cross-validation inside a fold or path (three folds, the test 0.2, the first training
\* window 0.4) accepts n rows.
Fits(n) == Usable(n, Larger(1, (2 * n) \div 5), Larger(1, n \div 5)) > 0

FoldLeft == Least(DOMAIN folds \ DOMAIN model)
TrainRows(i) == folds[i].trainEnd - folds[i].trainStart

\* The loop of WalkForwardEngine.run over the folds that were kept, in their order: with
\* refit each trains a model of its own, otherwise the first one's model predicts for all.
\* A fold for which no prediction is a number is left out of the result.
WalkEvaluate ==
    /\ job.kind = "walk" /\ phase = "evaluate"
    /\ DOMAIN model # DOMAIN folds
    /\ Fits(TrainRows(FoldLeft))
    /\ model' = Extend(model, FoldLeft, IF job.refit \/ DOMAIN model = {} THEN FoldLeft
                                        ELSE Least(DOMAIN model))
    /\ reported' \in {reported, reported \cup {FoldLeft}}
    /\ UNCHANGED <<job, phase, at, folds, paths>>

\* The training or the prediction of a fold raises, and so does its inner cross-validation
\* when it does not accept the rows; nothing catches it.
WalkRaise ==
    /\ job.kind = "walk" /\ phase = "evaluate"
    /\ DOMAIN model # DOMAIN folds
    /\ phase' = "raised"
    /\ UNCHANGED <<job, at, folds, model, paths, reported>>

WalkEnd ==
    /\ job.kind = "walk" /\ phase = "evaluate"
    /\ DOMAIN model = DOMAIN folds
    /\ phase' = "done"
    /\ UNCHANGED <<job, at, folds, model, paths, reported>>

-----------------------------------------------------------------------------
(***************************************************************************)
(* generate_cpcv_splits: every choice of test folds, in lexicographic      *)
(* order, purged before the first test row and embargoed after the last.   *)
(***************************************************************************)

\* Mutant: all folds have the same size, and the rows that are left over are in none.
FoldRowsEven(k) ==
    LET size == job.rows \div job.splits
    IN  (k * size) .. ((k + 1) * size - 1)

FoldRows(k) ==
    LET size == job.rows \div job.splits
    IN  (k * size) .. ((IF k < job.splits - 1 THEN (k + 1) * size ELSE job.rows) - 1)

RowsOf(chosen) == UNION {FoldRows(k) : k \in chosen}

\* Mutant: the label's last row is not counted.
PurgeShort(train, test) ==
    IF test = {} THEN train ELSE {t \in train : t <= Least(test) - job.horizon + 1}

Purge(train, test) ==
    IF test = {} THEN train ELSE {t \in train : t <= Least(test) - job.horizon}

Embargo(train, test) ==
    IF test = {} \/ job.embargo = 0 THEN train
    ELSE {t \in train : \/ t < Least(test)
                        \/ t > Smaller(job.rows - 1, Greatest(test) + job.embargo)}

Path(chosen) ==
    LET test == RowsOf(chosen)
        rest == RowsOf((0 .. job.splits - 1) \ chosen)
        purged == IF job.purge /\ job.horizon > 0 THEN Purge(rest, test) ELSE rest
    IN  [train |-> Embargo(purged, test), test |-> test]

Combinations == {c \in SUBSET (0 .. job.splits - 1) : Cardinality(c) = job.tested}

\* itertools.combinations: of two choices of one size the one with the least fold that
\* the other does not have comes first.
Before(c, d) == IF c = d THEN TRUE ELSE Least((c \cup d) \ (c \cap d)) \in c

CPCVRefuse ==
    /\ job.kind = "cpcv" /\ phase = "split"
    /\ job.tested >= job.splits \/ job.tested = 0
    /\ phase' = "refused"
    /\ UNCHANGED <<job, at, folds, model, paths, reported>>

CPCVSplit ==
    /\ job.kind = "cpcv" /\ phase = "split"
    /\ job.tested \in 1 .. job.splits - 1
    /\ \E c \in Combinations \ DOMAIN paths :
          /\ \A d \in Combinations \ DOMAIN paths : Before(c, d)
          /\ paths' = Extend(paths, c, Path(c))
    /\ UNCHANGED <<job, phase, at, folds, model, reported>>

CPCVEnd ==
    /\ job.kind = "cpcv" /\ phase = "split"
    /\ job.tested \in 1 .. job.splits - 1
    /\ DOMAIN paths = Combinations
    /\ phase' = "evaluate"
    /\ UNCHANGED <<job, at, folds, model, paths, reported>>

\* Rows enough for a path to be evaluated.
Enough(path) == Cardinality(path.train) >= 10 /\ Cardinality(path.test) >= 5

\* The loop of CPCVEngine.run takes the paths in the order they were made.
PathLeft == CHOOSE c \in DOMAIN paths : Cardinality({d \in DOMAIN paths \ {c} : Before(d, c)}) = at

\* A path with too few rows, or without a prediction that is a number, is left out.
CPCVEvaluate ==
    /\ job.kind = "cpcv" /\ phase = "evaluate"
    /\ at < Cardinality(DOMAIN paths)
    /\ \/ ~Enough(paths[PathLeft]) /\ reported' = reported
       \/ /\ Enough(paths[PathLeft]) /\ Fits(Cardinality(paths[PathLeft].train))
          /\ reported' \in {reported, reported \cup {PathLeft}}
    /\ at' = at + 1
    /\ UNCHANGED <<job, phase, folds, model, paths>>

\* The plugin of the request is unknown, or a path that is evaluated raises.
CPCVRaise ==
    /\ job.kind = "cpcv" /\ phase = "evaluate"
    /\ at < Cardinality(DOMAIN paths)
    /\ at = 0 \/ Enough(paths[PathLeft])
    /\ phase' = "raised"
    /\ UNCHANGED <<job, at, folds, model, paths, reported>>

CPCVReturn ==
    /\ job.kind = "cpcv" /\ phase = "evaluate"
    /\ at = Cardinality(DOMAIN paths)
    /\ phase' = "done"
    /\ UNCHANGED <<job, at, folds, model, paths, reported>>

-----------------------------------------------------------------------------
SplitInit ==
    /\ job \in CVJobs \cup WalkJobs \cup CPCVJobs
    /\ phase = "split"
    /\ at = 0
    /\ folds = [i \in {} |-> 0]
    /\ model = [i \in {} |-> 0]
    /\ paths = [c \in {} |-> 0]
    /\ reported = {}

SplitNext ==
    \/ CVRefuse \/ CVFold \/ CVEnd
    \/ WalkFold \/ WalkSkip \/ WalkSplit \/ WalkEvaluate \/ WalkRaise \/ WalkEnd
    \/ CPCVRefuse \/ CPCVSplit \/ CPCVEnd \/ CPCVEvaluate \/ CPCVRaise \/ CPCVReturn

SplitSpec == SplitInit /\ [][SplitNext]_splitVars

-----------------------------------------------------------------------------
(***************************************************************************)
(* Properties                                                              *)
(***************************************************************************)

\* A model never predicts a row that it, or anything before it in its window, has seen:
\* every window lies within the rows, and the model that predicts a fold was trained on
\* rows that end before the fold's test begins, by the gap of a walk-forward.
\* (split of TimeSeriesCV, _make_splits, and the model of the first fold without refit)
NoLookAhead ==
    /\ \A i \in DOMAIN folds :
          /\ 0 <= folds[i].trainStart /\ folds[i].trainStart < folds[i].trainEnd
          /\ folds[i].testStart < folds[i].testEnd /\ folds[i].testEnd <= job.rows
    /\ \A i \in DOMAIN model :
          folds[model[i]].trainEnd + (IF job.kind = "walk" THEN job.gap ELSE 0)
             <= folds[i].testStart

\* The folds a walk-forward leaves out are the first ones; the test windows of the others
\* follow one another without a gap or an overlap, up to the last row.  (_make_splits
\* tests each fold for itself and continues with the next)
TestsTile ==
    job.kind = "walk" =>
       \A i \in DOMAIN folds :
          IF i + 1 < at THEN /\ i + 1 \in DOMAIN folds
                             /\ folds[i + 1].testStart = folds[i].testEnd
          ELSE i + 1 = job.splits => folds[i].testEnd = job.rows

\* The moves of the price that make the label of row t: y[t] = close[t + h] / close[t] - 1
\* is made by the moves from each of the closes t .. t + h - 1 to the next.
Moves(t) == t .. t + job.horizon - 1

\* Nothing leaks into a path's training rows: none is tested, with purging no move of the
\* price makes both a training label and a label that is tested, and with an embargo none
\* is in it.  The last close of a training label may be the close of the first row that is
\* tested: only moves are kept apart.  (_purge_train and _embargo_train, which see the
\* least and the greatest test row only)
LabelsPurged ==
    \A c \in DOMAIN paths : \A t \in paths[c].train :
       /\ t \notin paths[c].test
       /\ job.purge => \A r \in paths[c].test : Moves(t) \cap Moves(r) = {}
       /\ job.embargo > 0 => \A r \in paths[c].test : ~(r < t /\ t <= r + job.embargo)

\* Once the paths are made every row is tested, and every row in the same number of paths
\* as any other.  (_fold_boundaries, whose last fold has what the division leaves)
PathsCover ==
    job.kind = "cpcv" /\ phase \in {"evaluate", "raised", "done"} /\ job.rows >= job.splits =>
       /\ UNION {paths[c].test : c \in DOMAIN paths} = 0 .. job.rows - 1
       /\ \A r, q \in 0 .. job.rows - 1 :
             Cardinality({c \in DOMAIN paths : r \in paths[c].test})
             = Cardinality({c \in DOMAIN paths : q \in paths[c].test})

\* The training rows of a fold or path that is evaluated always suffice for the
\* cross-validation inside it, which would refuse otherwise and end the whole validation.
\* (the tests for 5 and 10 rows)
NestedFits ==
    /\ job.kind = "walk" => \A i \in DOMAIN folds : Fits(TrainRows(i))
    /\ \A c \in DOMAIN paths : Enough(paths[c]) => Fits(Cardinality(paths[c].train))
=============================================================================
