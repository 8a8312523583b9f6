---------------------------- MODULE AlgorithmProofs ----------------------------
(***************************************************************************)
(* The sequential algorithms, for any of their inputs.  Splits: no model   *)
(* has seen what it predicts, the test windows tile the end of the data,   *)
(* the purged paths leak nothing and cover every row equally often, and    *)
(* what is evaluated suffices for the cross-validation inside it.          *)
(* Selections: a ranking is complete and begins with a best candidate.     *)
(* Rules: a signal is what the tree means, whatever was evaluated first.   *)
(* Each has an invariant of its own: SplitInv, RankInv and RuleInv.        *)
(***************************************************************************)
EXTENDS Algorithms, FiniteSetTheorems, FunctionTheorems, WellFoundedInduction, TLAPS

-----------------------------------------------------------------------------
(***************************************************************************)
(* Numbers                                                                 *)
(***************************************************************************)

\* A set of numbers has a least one.
LEMMA LeastExists ==
    ASSUME NEW S \in SUBSET Nat, S # {}
    PROVE  Least(S) \in S /\ \A y \in S : Least(S) <= y
<1> DEFINE R == {p \in Nat \X Nat : p[1] < p[2]}
<1>1. IsWellFoundedOn(R, Nat)
  BY NatLessThanWellFounded DEF OpToRel
<1>2. \A x, y \in Nat : x < y => <<x, y>> \in R
  OBVIOUS
<1> HIDE DEF R
<1>3. \E x \in S : \A y \in S : ~ (<<y, x>> \in R)
  BY <1>1, WFMin
<1>4. PICK x \in S : \A y \in S : ~ (<<y, x>> \in R)
  BY <1>3
<1>5. ASSUME NEW y \in S
      PROVE  x <= y
  <2>1. x \in Nat /\ y \in Nat /\ ~ (<<y, x>> \in R)
    BY <1>4
  <2>2. ~ (y < x)
    BY <1>2, <2>1
  <2> QED BY <2>1, <2>2
<1> QED BY <1>5 DEF Least

\* A bounded set of numbers has a greatest one.
LEMMA GreatestExists ==
    ASSUME NEW S \in SUBSET Nat, S # {}, NEW n \in Nat, \A y \in S : y <= n
    PROVE  Greatest(S) \in S /\ \A y \in S : y <= Greatest(S)
<1> DEFINE B == {b \in Nat : \A y \in S : y <= b}
           m == Least(B)
<1>1. m \in B /\ \A b \in B : m <= b
  <2>1. B \in SUBSET Nat /\ n \in B
    OBVIOUS
  <2> HIDE DEF B
  <2> QED BY <2>1, LeastExists
<1> HIDE DEF m
<1>2. m \in Nat /\ \A y \in S : y <= m
  BY <1>1
<1>3. m \in S
  <2> SUFFICES ASSUME m \notin S PROVE FALSE
    OBVIOUS
  <2>1. \A y \in S : y <= m - 1
    BY <1>2
  <2>2. PICK y \in S : TRUE
    OBVIOUS
  <2>3. m - 1 \in B
    BY <1>2, <2>1, <2>2
  <2> QED BY <1>1, <1>2, <2>3
<1> QED BY <1>2, <1>3 DEF Greatest

\* Multiples of a number grow with the factor.
LEMMA Multiples ==
    ASSUME NEW a \in Nat, NEW b \in Nat, NEW c \in Nat, a <= b
    PROVE  a * c \in Nat /\ a * c <= b * c /\ (a + 1) * c = a * c + c
<1>1. PICK d \in Nat : b = a + d
  <2>1. b - a \in Nat /\ b = a + (b - a)
    OBVIOUS
  <2> QED BY <2>1
<1>2. b * c = a * c + d * c /\ a * c \in Nat /\ d * c \in Nat
  BY <1>1
<1> QED BY <1>2

\* What a division rounds down to.
LEMMA Quotients ==
    ASSUME NEW a \in Nat, NEW b \in Nat, b > 0
    PROVE  a \div b \in Nat /\ (a \div b) * b <= a /\ a < (a \div b + 1) * b
OBVIOUS

-----------------------------------------------------------------------------
(***************************************************************************)
(* What the loops of the splits keep                                       *)
(***************************************************************************)

\* A time-series split keeps the windows it computes until one has nothing to test.
CVInv ==
    job.kind = "cv" =>
       /\ job \in CVJobs /\ at \in Nat
       /\ \A i \in DOMAIN folds : /\ i \in Nat /\ folds[i] = CVWindow(i) /\ ~Empty(CVWindow(i))
                                  /\ Usable(job.rows, job.train, job.test) > 0
       /\ \A i \in DOMAIN model : i \in DOMAIN folds /\ model[i] = i

\* A walk-forward keeps the windows that it may, and its models go through them in order.
WalkInv ==
    job.kind = "walk" =>
       /\ job \in WalkJobs /\ at \in 0 .. job.splits
       /\ DOMAIN folds = {i \in 0 .. at - 1 : Keep(WalkWindow(i))}
       /\ \A i \in DOMAIN folds : folds[i] = WalkWindow(i)
       /\ phase = "split" => DOMAIN model = {}
       /\ DOMAIN model \subseteq DOMAIN folds
       /\ \A i \in DOMAIN model : model[i] \in DOMAIN folds /\ model[i] <= i
       /\ \A i \in DOMAIN model, j \in DOMAIN folds \ DOMAIN model : i < j

\* The loop that makes the folds or paths is through.
Made == phase \in {"evaluate", "raised", "done"}

\* The paths are those of the combinations, in the end of all.
CPCVInv ==
    job.kind = "cpcv" =>
       /\ job \in CPCVJobs /\ DOMAIN folds = {} /\ DOMAIN model = {}
       /\ DOMAIN paths \subseteq Combinations
       /\ \A c \in DOMAIN paths : paths[c] = Path(c)
       /\ DOMAIN paths # {} \/ Made => job.tested \in 1 .. job.splits - 1
       /\ Made => DOMAIN paths = Combinations

\* There are the three kinds of jobs, or none.
JobInv ==
    /\ job.kind \in {"cv", "walk", "cpcv", "none"}
    /\ job.kind # "cpcv" => DOMAIN paths = {}
    /\ job.kind = "none" => DOMAIN folds = {} /\ DOMAIN model = {}

SplitInv == JobInv /\ CVInv /\ WalkInv /\ CPCVInv

\* What is computed from the job alone stays as it is.
LEMMA JobKept ==
    ASSUME UNCHANGED job
    PROVE  /\ \A i : CVWindow(i)' = CVWindow(i) /\ WalkWindow(i)' = WalkWindow(i)
           /\ \A w : (Empty(w)' <=> Empty(w)) /\ (Keep(w)' <=> Keep(w))
           /\ \A c : Path(c)' = Path(c)
           /\ Combinations' = Combinations
<1>1. \A i : CVWindow(i)' = CVWindow(i) /\ WalkWindow(i)' = WalkWindow(i)
  BY DEF CVWindow, Stride, WalkWindow
<1>2. \A w : (Empty(w)' <=> Empty(w)) /\ (Keep(w)' <=> Keep(w))
  BY DEF Empty, Keep
<1>3. \A c : Path(c)' = Path(c)
  BY DEF Path, RowsOf, FoldRows, Purge, Embargo
<1>4. Combinations' = Combinations
  BY DEF Combinations
<1> QED BY <1>1, <1>2, <1>3, <1>4

\* Every step is of the job's kind and leaves the job alone.
LEMMA StepKind ==
    ASSUME SplitNext
    PROVE  /\ UNCHANGED job
           /\ \/ /\ CVRefuse \/ CVFold \/ CVEnd
                 /\ job.kind = "cv"
              \/ /\ WalkFold \/ WalkSkip \/ WalkSplit \/ WalkEvaluate \/ WalkRaise \/ WalkEnd
                 /\ job.kind = "walk"
              \/ /\ CPCVRefuse \/ CPCVSplit \/ CPCVEnd \/ CPCVEvaluate \/ CPCVRaise \/ CPCVReturn
                 /\ job.kind = "cpcv"
BY DEF SplitNext, CVRefuse, CVFold, CVEnd, WalkFold, WalkSkip, WalkSplit, WalkEvaluate, WalkRaise, WalkEnd,
       CPCVRefuse, CPCVSplit, CPCVEnd, CPCVEvaluate, CPCVRaise, CPCVReturn

\* A step of a time-series split.
LEMMA CVStep ==
    ASSUME SplitInv, job.kind = "cv", CVRefuse \/ CVFold \/ CVEnd
    PROVE  SplitInv'
<1>1. UNCHANGED <<job, paths>> /\ CVInv /\ JobInv
  BY DEF CVRefuse, CVFold, CVEnd, SplitInv
<1>2. JobInv' /\ WalkInv' /\ CPCVInv'
  BY <1>1 DEF JobInv, WalkInv, CPCVInv
<1>3. CVInv'
  <2>1. CASE CVRefuse \/ CVEnd
    <3>1. UNCHANGED <<at, folds, model>>
      BY <2>1 DEF CVRefuse, CVEnd
    <3> QED BY <1>1, <3>1, JobKept DEF CVInv, Usable
  <2>2. CASE CVFold
    <3>1. /\ at' = at + 1 /\ at \in Nat /\ ~Empty(CVWindow(at))
          /\ Usable(job.rows, job.train, job.test) > 0
          /\ DOMAIN folds' = DOMAIN folds \cup {at} /\ folds'[at] = CVWindow(at)
          /\ \A y \in DOMAIN folds : y # at => folds'[y] = folds[y]
          /\ DOMAIN model' = DOMAIN model \cup {at} /\ model'[at] = at
          /\ \A y \in DOMAIN model : y # at => model'[y] = model[y]
      BY <1>1, <2>2 DEF CVFold, CVInv, Extend
    <3>2. \A i \in DOMAIN folds' : folds'[i] = CVWindow(i) /\ ~Empty(CVWindow(i)) /\ i \in Nat
      BY <1>1, <3>1 DEF CVInv
    <3> QED BY <1>1, <3>1, <3>2, JobKept DEF CVInv, Usable
  <2> QED BY <2>1, <2>2
<1> QED BY <1>2, <1>3 DEF SplitInv

\* A step of a walk-forward.
LEMMA WalkStep ==
    ASSUME SplitInv, job.kind = "walk",
           WalkFold \/ WalkSkip \/ WalkSplit \/ WalkEvaluate \/ WalkRaise \/ WalkEnd
    PROVE  SplitInv'
<1>1. UNCHANGED <<job, paths>> /\ WalkInv /\ JobInv
  BY DEF WalkFold, WalkSkip, WalkSplit, WalkEvaluate, WalkRaise, WalkEnd, SplitInv
<1>2. JobInv' /\ CVInv' /\ CPCVInv'
  BY <1>1 DEF JobInv, CVInv, CPCVInv
<1>3. /\ job \in WalkJobs /\ at \in 0 .. job.splits /\ job.splits \in Nat
      /\ DOMAIN folds = {i \in 0 .. at - 1 : Keep(WalkWindow(i))}
  BY <1>1, SplitsAssumption DEF WalkInv
<1>4. CASE WalkSplit \/ WalkRaise \/ WalkEnd
  <2>1. UNCHANGED <<at, folds, model>> /\ phase' # "split"
    BY <1>4 DEF WalkSplit, WalkRaise, WalkEnd
  <2>2. WalkInv'
    BY <1>1, <2>1, JobKept DEF WalkInv
  <2> QED BY <1>2, <2>2 DEF SplitInv
<1>5. CASE WalkFold \/ WalkSkip
  <2>1. /\ at' = at + 1 /\ at < job.splits /\ UNCHANGED <<phase, model>> /\ DOMAIN model = {}
    BY <1>1, <1>5 DEF WalkFold, WalkSkip, WalkInv
  <2>2. /\ DOMAIN folds' = {i \in 0 .. at' - 1 : Keep(WalkWindow(i))}
        /\ \A i \in DOMAIN folds' : folds'[i] = WalkWindow(i)
    <3>1. 0 .. at' - 1 = (0 .. at - 1) \cup {at}
      BY <1>3, <2>1
    <3>2. CASE WalkFold
      <4>1. /\ DOMAIN folds' = DOMAIN folds \cup {at} /\ folds'[at] = WalkWindow(at)
            /\ \A y \in DOMAIN folds : y # at => folds'[y] = folds[y]
            /\ Keep(WalkWindow(at))
        BY <3>2 DEF WalkFold, Extend
      <4>2. DOMAIN folds' = {i \in 0 .. at' - 1 : Keep(WalkWindow(i))}
        BY <1>3, <3>1, <4>1
      <4>3. \A i \in DOMAIN folds' : folds'[i] = WalkWindow(i)
        BY <1>1, <4>1 DEF WalkInv
      <4> QED BY <4>2, <4>3
    <3>3. CASE WalkSkip
      <4>1. folds' = folds /\ ~Keep(WalkWindow(at))
        BY <3>3 DEF WalkSkip
      <4>2. DOMAIN folds' = {i \in 0 .. at' - 1 : Keep(WalkWindow(i))}
        BY <1>3, <3>1, <4>1
      <4> QED BY <1>1, <4>1, <4>2 DEF WalkInv
    <3> QED BY <1>5, <3>2, <3>3
  <2>3. at' \in 0 .. job.splits
    BY <1>3, <2>1
  <2>4. WalkInv'
    BY <1>1, <1>3, <2>1, <2>2, <2>3, JobKept DEF WalkInv
  <2> QED BY <1>2, <2>4 DEF SplitInv
<1>6. CASE WalkEvaluate
  <2> DEFINE left == DOMAIN folds \ DOMAIN model
             i == Least(left)
             m == IF job.refit \/ DOMAIN model = {} THEN i ELSE Least(DOMAIN model)
  <2>1. /\ UNCHANGED <<phase, at, folds>> /\ phase # "split"
        /\ DOMAIN model \subseteq DOMAIN folds /\ DOMAIN model # DOMAIN folds
    BY <1>1, <1>6 DEF WalkEvaluate, WalkInv
  <2>2. DOMAIN folds \subseteq Nat
    BY <1>3
  <2>3. i \in left /\ \A j \in left : i <= j
    <3>1. left \in SUBSET Nat /\ left # {}
      BY <2>1, <2>2
    <3> HIDE DEF left
    <3> QED BY <3>1, LeastExists
  <2>4. m \in DOMAIN folds /\ m <= i
    <3>1. CASE job.refit \/ DOMAIN model = {}
      BY <2>2, <2>3, <3>1
    <3>2. CASE ~job.refit /\ DOMAIN model # {}
      <4>1. Least(DOMAIN model) \in DOMAIN model
        BY <2>1, <2>2, <3>2, LeastExists
      <4>2. Least(DOMAIN model) < i
        BY <1>1, <2>3, <4>1 DEF WalkInv
      <4> QED BY <2>1, <2>2, <2>3, <3>2, <4>1, <4>2
    <3> QED BY <3>1, <3>2
  <2>5. model' = Extend(model, i, m)
    BY <1>6 DEF WalkEvaluate, FoldLeft
  <2> HIDE DEF i, m
  <2>6. /\ DOMAIN model' = DOMAIN model \cup {i} /\ model'[i] = m
        /\ \A y \in DOMAIN model : y # i => model'[y] = model[y]
    BY <2>5 DEF Extend
  <2>7. \A j \in DOMAIN model' : model'[j] \in DOMAIN folds /\ model'[j] <= j
    BY <1>1, <2>4, <2>6 DEF WalkInv
  <2>8. \A j \in DOMAIN model', k \in DOMAIN folds \ DOMAIN model' : j < k
    <3>1. ASSUME NEW j \in DOMAIN model', NEW k \in DOMAIN folds \ DOMAIN model'
          PROVE  j < k
      <4>1. k \in left /\ k # i /\ i <= k /\ k \in Nat /\ i \in Nat
        BY <2>2, <2>3, <2>6
      <4>2. CASE j = i
        BY <4>1, <4>2
      <4>3. CASE j # i
        BY <1>1, <2>6, <4>1, <4>3 DEF WalkInv
      <4> QED BY <4>2, <4>3
    <3> QED BY <3>1
  <2>9. WalkInv'
    BY <1>1, <2>1, <2>3, <2>6, <2>7, <2>8, JobKept DEF WalkInv
  <2> QED BY <1>2, <2>9 DEF SplitInv
<1> QED BY <1>4, <1>5, <1>6

\* A step of a combinatorial split.
LEMMA CPCVStep ==
    ASSUME SplitInv, job.kind = "cpcv",
           CPCVRefuse \/ CPCVSplit \/ CPCVEnd \/ CPCVEvaluate \/ CPCVRaise \/ CPCVReturn
    PROVE  SplitInv'
<1>1. UNCHANGED <<job, folds, model>> /\ CPCVInv /\ JobInv
  BY DEF CPCVRefuse, CPCVSplit, CPCVEnd, CPCVEvaluate, CPCVRaise, CPCVReturn, SplitInv
<1>2. JobInv' /\ CVInv' /\ WalkInv'
  BY <1>1 DEF JobInv, CVInv, WalkInv
<1>3. CPCVInv'
  <2>1. CASE CPCVRefuse
    BY <1>1, <2>1, JobKept DEF CPCVRefuse, CPCVInv, Made
  <2>2. CASE CPCVEnd
    BY <1>1, <2>2, JobKept DEF CPCVEnd, CPCVInv
  <2>4. CASE CPCVEvaluate \/ CPCVRaise \/ CPCVReturn
    <3>1. UNCHANGED paths /\ Made
      BY <2>4 DEF CPCVEvaluate, CPCVRaise, CPCVReturn, Made
    <3> QED BY <1>1, <3>1, JobKept DEF CPCVInv
  <2>3. CASE CPCVSplit
    <3>1. PICK c \in Combinations \ DOMAIN paths : paths' = Extend(paths, c, Path(c))
      BY <2>3 DEF CPCVSplit
    <3>2. job.tested \in 1 .. job.splits - 1 /\ ~ Made'
      BY <2>3 DEF CPCVSplit, Made
    <3>3. /\ DOMAIN paths' = DOMAIN paths \cup {c} /\ paths'[c] = Path(c)
          /\ \A d \in DOMAIN paths : d # c => paths'[d] = paths[d]
      BY <3>1 DEF Extend
    <3>4. \A d \in DOMAIN paths' : paths'[d] = Path(d)
      BY <1>1, <3>3 DEF CPCVInv
    <3> QED BY <1>1, <3>1, <3>2, <3>3, <3>4, JobKept DEF CPCVInv
  <2> QED BY <2>1, <2>2, <2>3, <2>4
<1> QED BY <1>2, <1>3 DEF SplitInv

\* The jobs begin with no fold and no path, and every step of any of the algorithms keeps
\* what the loops have made.
LEMMA SplitAlways == Spec => []SplitInv
<1>1. Init => SplitInv
  <2>1. ASSUME SplitInit
        PROVE  SplitInv
    <3>1. /\ job \in CVJobs => job.kind = "cv"
          /\ job \in WalkJobs => job.kind = "walk" /\ job.splits \in Nat
          /\ job \in CPCVJobs => job.kind = "cpcv"
          /\ job \in CVJobs \cup WalkJobs \cup CPCVJobs
      BY <2>1, SplitsAssumption DEF SplitInit
    <3>2. /\ at = 0 /\ phase = "split"
          /\ DOMAIN folds = {} /\ DOMAIN model = {} /\ DOMAIN paths = {}
      BY <2>1 DEF SplitInit
    <3>3. WalkInv
      BY <3>1, <3>2 DEF WalkInv
    <3> QED BY <3>1, <3>2, <3>3 DEF SplitInv, JobInv, CVInv, CPCVInv, Made
  <2>2. ASSUME NoSplit
        PROVE  SplitInv
    BY <2>2 DEF NoSplit, NoJob, SplitInv, JobInv, CVInv, WalkInv, CPCVInv
  <2> QED BY <2>1, <2>2 DEF Init
<1>2. SplitInv /\ [Next]_<<splitVars, ruleVars, selectionVars>> => SplitInv'
  <2> SUFFICES ASSUME SplitInv, [Next]_<<splitVars, ruleVars, selectionVars>> PROVE SplitInv'
    OBVIOUS
  <2>1. CASE SplitNext
    BY <2>1, StepKind, CVStep, WalkStep, CPCVStep
  <2>2. ASSUME UNCHANGED splitVars
        PROVE  SplitInv'
    <3>1. UNCHANGED <<job, phase, at, folds, model, paths, reported>>
      BY <2>2 DEF splitVars
    <3> QED BY <3>1, JobKept DEF SplitInv, JobInv, CVInv, WalkInv, CPCVInv, Made, Usable
  <2> QED BY <2>1, <2>2 DEF Next, SplitIdle
<1> QED BY <1>1, <1>2, PTL DEF Spec

-----------------------------------------------------------------------------
(***************************************************************************)
(* The windows                                                             *)
(***************************************************************************)

\* The numbers of a walk-forward.
LEMMA WalkNumbers ==
    ASSUME job \in WalkJobs
    PROVE  /\ job.rows \in Nat /\ job.splits \in Nat /\ job.gap \in Nat
           /\ job.test \in Nat /\ job.test > 0 /\ job.train \in Nat /\ job.train > 0
BY SplitsAssumption

\* The numbers of a time-series split.
LEMMA CVNumbers ==
    ASSUME job \in CVJobs
    PROVE  /\ job.rows \in Nat /\ job.splits \in Nat
           /\ job.test \in Nat /\ job.test > 0 /\ job.train \in Nat /\ job.train > 0
BY SplitsAssumption

\* The window of a time-series fold.
LEMMA CVWindowIs ==
    ASSUME NEW i \in Nat, NEW e \in Nat, e = i * Stride, job.train \in Nat
    PROVE  /\ CVWindow(i).trainEnd = job.train + e /\ CVWindow(i).testStart = job.train + e
           /\ CVWindow(i).testEnd = Smaller(job.train + e + job.test, job.rows)
           /\ CVWindow(i).trainStart = IF job.method = "expanding" THEN 0 ELSE e
BY DEF CVWindow, Window, Larger

\* The window of a time-series fold begins in the rows, and its test where it ends.
LEMMA CVWindowBounds ==
    ASSUME job \in CVJobs, Usable(job.rows, job.train, job.test) > 0, NEW i \in Nat,
           ~Empty(CVWindow(i))
    PROVE  LET w == CVWindow(i)
           IN  /\ 0 <= w.trainStart /\ w.trainStart < w.trainEnd
               /\ w.testStart < w.testEnd /\ w.testEnd <= job.rows
               /\ w.trainEnd = w.testStart /\ w.trainEnd \in Nat
<1> DEFINE e == i * Stride
<1>1. Stride \in Nat
  <2>1. CASE job.splits > 1
    <3> DEFINE u == Usable(job.rows, job.train, job.test)
    <3>1. job.splits - 1 \in Nat /\ job.splits - 1 > 0 /\ u \in Nat
      BY <2>1, CVNumbers DEF Usable
    <3> HIDE DEF u
    <3>2. u \div (job.splits - 1) \in Nat
      BY <3>1, Quotients
    <3> QED BY <2>1, <3>2 DEF Stride, Larger, u
  <2>2. CASE ~(job.splits > 1)
    BY <2>2, CVNumbers DEF Stride, Usable
  <2> QED BY <2>1, <2>2
<1>2. e \in Nat
  BY <1>1
<1>3. /\ CVWindow(i).trainEnd = job.train + e /\ CVWindow(i).testStart = job.train + e
      /\ CVWindow(i).testEnd = Smaller(job.train + e + job.test, job.rows)
      /\ CVWindow(i).trainStart = IF job.method = "expanding" THEN 0 ELSE e
  BY <1>2, CVNumbers, CVWindowIs
<1> HIDE DEF e
<1>4. /\ CVWindow(i).trainStart \in {0, e} /\ CVWindow(i).testEnd <= job.rows
      /\ CVWindow(i).testEnd \in Nat
  BY <1>2, <1>3, CVNumbers DEF Smaller
<1>5. CVWindow(i).testStart < CVWindow(i).testEnd
  BY <1>2, <1>3, <1>4, CVNumbers DEF Empty
<1> QED BY <1>2, <1>3, <1>4, <1>5, CVNumbers

\* Where the windows of a walk-forward lie: the test windows follow one another up to the
\* last row, and each training window ends a gap before its test.
LEMMA WalkWindowBounds ==
    ASSUME job \in WalkJobs, NEW i \in 0 .. job.splits - 1
    PROVE  LET w == WalkWindow(i)
           IN  /\ w.testStart \in Int /\ w.trainEnd \in Int
               /\ w.testEnd \in Int /\ w.testEnd <= job.rows
               /\ w.testEnd = w.testStart + job.test /\ w.trainEnd + job.gap = w.testStart
               /\ w.trainStart \in Nat
               /\ w.trainStart = IF job.method = "rolling" THEN Larger(0, w.trainEnd - job.train)
                                 ELSE 0
               /\ i = job.splits - 1 => w.testEnd = job.rows
               /\ i < job.splits - 1 => WalkWindow(i + 1).testEnd = w.testEnd + job.test
<1> DEFINE left(k) == (job.splits - 1 - k) * job.test
<1>1. /\ left(i) \in Nat /\ (i = job.splits - 1 => left(i) = 0)
      /\ i < job.splits - 1 => left(i) = left(i + 1) + job.test
  <2>1. job.splits - 1 - i \in Nat /\ job.test \in Nat
    BY WalkNumbers
  <2>2. left(i) \in Nat
    BY <2>1, Multiples
  <2>3. i = job.splits - 1 => left(i) = 0
    BY <2>1
  <2>4. ASSUME i < job.splits - 1
        PROVE  left(i) = left(i + 1) + job.test
    <3>1. /\ job.splits - 1 - (i + 1) \in Nat
          /\ job.splits - 1 - i = (job.splits - 1 - (i + 1)) + 1
      BY <2>1, <2>4, WalkNumbers
    <3> QED BY <2>1, <3>1, Multiples
  <2> QED BY <2>2, <2>3, <2>4
<1>2. /\ WalkWindow(i).testEnd = job.rows - left(i)
      /\ WalkWindow(i + 1).testEnd = job.rows - left(i + 1)
      /\ WalkWindow(i).testStart = job.rows - left(i) - job.test
      /\ WalkWindow(i).trainEnd = job.rows - left(i) - job.test - job.gap
      /\ WalkWindow(i).trainStart =
            IF job.method = "rolling"
            THEN Larger(0, job.rows - left(i) - job.test - job.gap - job.train) ELSE 0
  BY DEF WalkWindow, Window
<1>3. i < job.splits - 1 => left(i + 1) \in Int
  BY WalkNumbers
<1> HIDE DEF left
<1>4. /\ WalkWindow(i).trainStart \in Nat
      /\ WalkWindow(i).trainStart =
            IF job.method = "rolling" THEN Larger(0, WalkWindow(i).trainEnd - job.train) ELSE 0
  BY <1>1, <1>2, WalkNumbers DEF Larger
<1> QED BY <1>1, <1>2, <1>3, <1>4, WalkNumbers

\* Later windows test later rows.
LEMMA WalkWindowsOrdered ==
    ASSUME job \in WalkJobs, NEW i \in 0 .. job.splits - 1, NEW j \in 0 .. job.splits - 1, i <= j
    PROVE  WalkWindow(i).testStart <= WalkWindow(j).testStart
<1> DEFINE a == (job.splits - 1 - i) * job.test
           b == (job.splits - 1 - j) * job.test
<1>1. a \in Nat /\ b \in Nat /\ b <= a
  <2>1. /\ job.splits - 1 - i \in Nat /\ job.splits - 1 - j \in Nat /\ job.test \in Nat
        /\ job.splits - 1 - j <= job.splits - 1 - i
    BY WalkNumbers
  <2> QED BY <2>1, Multiples
<1>2. /\ WalkWindow(i).testStart = job.rows - a - job.test
      /\ WalkWindow(j).testStart = job.rows - b - job.test
  BY DEF WalkWindow, Window
<1> HIDE DEF a, b
<1> QED BY <1>1, <1>2, WalkNumbers

\* No model, of training or of a walk-forward, with or without refit, predicts a row that it
\* has seen.  (split of TimeSeriesCV, _make_splits, WalkForwardEngine.run)
THEOREM NobodyLooksAhead == Spec => []NoLookAhead
<1>1. SplitInv => NoLookAhead
  <2> SUFFICES ASSUME SplitInv PROVE NoLookAhead
    OBVIOUS
  <2>1. CASE job.kind = "cv"
    <3>1. /\ job \in CVJobs
          /\ \A i \in DOMAIN folds : /\ i \in Nat /\ folds[i] = CVWindow(i) /\ ~Empty(CVWindow(i))
                                     /\ Usable(job.rows, job.train, job.test) > 0
          /\ \A i \in DOMAIN model : i \in DOMAIN folds /\ model[i] = i
      BY <2>1 DEF SplitInv, CVInv
    <3>2. \A i \in DOMAIN folds :
             /\ 0 <= folds[i].trainStart /\ folds[i].trainStart < folds[i].trainEnd
             /\ folds[i].testStart < folds[i].testEnd /\ folds[i].testEnd <= job.rows
             /\ folds[i].trainEnd = folds[i].testStart /\ folds[i].trainEnd \in Nat
      BY <3>1, CVWindowBounds
    <3> QED BY <2>1, <3>1, <3>2 DEF NoLookAhead
  <2>2. CASE job.kind = "walk"
    <3>1. /\ job \in WalkJobs /\ at \in 0 .. job.splits /\ job.splits \in Nat
          /\ DOMAIN folds = {i \in 0 .. at - 1 : Keep(WalkWindow(i))}
          /\ \A i \in DOMAIN folds : folds[i] = WalkWindow(i)
          /\ DOMAIN model \subseteq DOMAIN folds
          /\ \A i \in DOMAIN model : model[i] \in DOMAIN folds /\ model[i] <= i
      BY <2>2, WalkNumbers DEF SplitInv, WalkInv
    <3>2. \A i \in DOMAIN folds : i \in 0 .. job.splits - 1 /\ Keep(folds[i])
      BY <3>1
    <3>3. ASSUME NEW i \in DOMAIN folds
          PROVE  /\ 0 <= folds[i].trainStart /\ folds[i].trainStart < folds[i].trainEnd
                 /\ folds[i].testStart < folds[i].testEnd /\ folds[i].testEnd <= job.rows
      <4>1. folds[i] = WalkWindow(i) /\ i \in 0 .. job.splits - 1 /\ Keep(folds[i])
        BY <3>1, <3>2
      <4>2. folds[i].testEnd <= job.rows /\ folds[i].trainStart \in Nat
        BY <3>1, <4>1, WalkWindowBounds
      <4>3. folds[i].trainEnd > folds[i].trainStart /\ folds[i].testStart < folds[i].testEnd
        BY <4>1 DEF Keep
      <4> QED BY <3>1, <4>1, <4>2, <4>3, WalkWindowBounds
    <3>4. ASSUME NEW i \in DOMAIN model
          PROVE  folds[model[i]].trainEnd + job.gap <= folds[i].testStart
      <4>1. /\ i \in 0 .. job.splits - 1 /\ model[i] \in 0 .. job.splits - 1 /\ model[i] <= i
            /\ folds[i] = WalkWindow(i) /\ folds[model[i]] = WalkWindow(model[i])
        BY <3>1, <3>2
      <4>2. folds[model[i]].trainEnd + job.gap = folds[model[i]].testStart
        BY <3>1, <4>1, WalkWindowBounds
      <4>3. folds[model[i]].testStart <= folds[i].testStart
        BY <3>1, <4>1, WalkWindowsOrdered
      <4> QED BY <4>2, <4>3
    <3> QED BY <2>2, <3>3, <3>4 DEF NoLookAhead
  <2>3. CASE job.kind \notin {"cv", "walk"}
    BY <2>3 DEF SplitInv, JobInv, CPCVInv, NoLookAhead
  <2> QED BY <2>1, <2>2, <2>3
<1> QED BY <1>1, SplitAlways, PTL

\* With a window every later one is kept.
LEMMA KeepLater ==
    ASSUME job \in WalkJobs, NEW i \in 0 .. job.splits - 1, i < job.splits - 1, Keep(WalkWindow(i))
    PROVE  Keep(WalkWindow(i + 1)) /\ WalkWindow(i + 1).testStart = WalkWindow(i).testEnd
<1> DEFINE w == WalkWindow(i)
           v == WalkWindow(i + 1)
<1>0. i \in 0 .. job.splits - 1 /\ i + 1 \in 0 .. job.splits - 1
  BY WalkNumbers
<1>1. /\ w.testStart \in Int /\ w.trainEnd \in Int /\ w.testEnd \in Int
      /\ w.testEnd = w.testStart + job.test /\ w.trainEnd + job.gap = w.testStart
      /\ w.trainStart = IF job.method = "rolling" THEN Larger(0, w.trainEnd - job.train) ELSE 0
      /\ v.testEnd = w.testEnd + job.test
  BY <1>0, WalkWindowBounds
<1>2. /\ v.testStart \in Int /\ v.trainEnd \in Int
      /\ v.testEnd = v.testStart + job.test /\ v.trainEnd + job.gap = v.testStart
      /\ v.trainStart = IF job.method = "rolling" THEN Larger(0, v.trainEnd - job.train) ELSE 0
  BY <1>0, WalkWindowBounds
<1>3. Keep(w)
  OBVIOUS
<1> HIDE DEF w, v
<1>4. v.trainEnd = w.trainEnd + job.test /\ v.testStart = w.testEnd
  <2>1. job.test \in Nat /\ job.gap \in Nat
    BY WalkNumbers
  <2>2. v.testStart = w.testEnd
    BY <1>1, <1>2, <2>1
  <2>3. v.trainEnd = w.testEnd - job.gap
    BY <1>1, <1>2, <2>1, <2>2
  <2>4. w.trainEnd = w.testEnd - job.test - job.gap
    BY <1>1, <2>1
  <2>5. v.trainEnd = w.trainEnd + job.test
    BY <1>1, <2>1, <2>3, <2>4
  <2> QED BY <2>2, <2>5
<1>5. job.train \div 2 \in Nat
  BY WalkNumbers
<1>6. Keep(v)
  BY <1>1, <1>2, <1>3, <1>4, <1>5, WalkNumbers DEF Keep, Larger
<1> QED BY <1>4, <1>6 DEF w, v

\* The folds that a walk-forward leaves out are the first ones, and the test windows of the
\* others follow one another up to the last row.  (_make_splits, which tests each fold for
\* itself)
THEOREM WindowsTile == Spec => []TestsTile
<1>1. SplitInv => TestsTile
  <2> SUFFICES ASSUME SplitInv, job.kind = "walk", NEW i \in DOMAIN folds
               PROVE  IF i + 1 < at THEN /\ i + 1 \in DOMAIN folds
                                         /\ folds[i + 1].testStart = folds[i].testEnd
                      ELSE i + 1 = job.splits => folds[i].testEnd = job.rows
    BY DEF TestsTile
  <2>1. /\ job \in WalkJobs /\ at \in 0 .. job.splits /\ job.splits \in Nat
        /\ DOMAIN folds = {j \in 0 .. at - 1 : Keep(WalkWindow(j))}
        /\ \A j \in DOMAIN folds : folds[j] = WalkWindow(j)
    BY WalkNumbers DEF SplitInv, WalkInv
  <2>2. i \in 0 .. job.splits - 1 /\ Keep(WalkWindow(i)) /\ folds[i] = WalkWindow(i)
    BY <2>1
  <2>3. CASE i + 1 < at
    <3>1. i < job.splits - 1 /\ i + 1 \in 0 .. at - 1
      BY <2>1, <2>2, <2>3
    <3>2. Keep(WalkWindow(i + 1)) /\ WalkWindow(i + 1).testStart = WalkWindow(i).testEnd
      BY <2>1, <2>2, <3>1, KeepLater
    <3> QED BY <2>1, <2>2, <2>3, <3>1, <3>2
  <2>4. CASE ~(i + 1 < at)
    <3>1. i + 1 = job.splits => i = job.splits - 1
      BY <2>1, <2>2
    <3>2. i = job.splits - 1 => WalkWindow(i).testEnd = job.rows
      BY <2>1, <2>2, WalkWindowBounds
    <3> QED BY <2>2, <2>4, <3>1, <3>2
  <2> QED BY <2>3, <2>4
<1> QED BY <1>1, SplitAlways, PTL

-----------------------------------------------------------------------------
(***************************************************************************)
(* The paths                                                               *)
(***************************************************************************)

\* A job whose paths are made.
Splitting == job \in CPCVJobs /\ job.tested \in 1 .. job.splits - 1

\* The numbers of a combinatorial split.
LEMMA CPCVNumbers ==
    ASSUME Splitting
    PROVE  /\ job.rows \in Nat /\ job.splits \in Nat /\ job.splits > 1 /\ job.tested \in Nat
           /\ job.embargo \in Nat /\ job.horizon \in Nat
           /\ job.rows \div job.splits \in Nat
           /\ job.splits * (job.rows \div job.splits) <= job.rows
<1>1. /\ job.rows \in Nat /\ job.splits \in Nat /\ job.splits > 1 /\ job.tested \in Nat
      /\ job.embargo \in Nat /\ job.horizon \in Nat
  BY SplitsAssumption DEF Splitting
<1>2. job.rows \div job.splits \in Nat /\ (job.rows \div job.splits) * job.splits <= job.rows
  BY <1>1, Quotients
<1>3. (job.rows \div job.splits) * job.splits = job.splits * (job.rows \div job.splits)
  BY <1>1, <1>2
<1> QED BY <1>1, <1>2, <1>3

\* A fold is a window of the rows.
LEMMA FoldBounds ==
    ASSUME Splitting, NEW k \in 0 .. job.splits - 1, NEW r \in FoldRows(k)
    PROVE  /\ r \in 0 .. job.rows - 1 /\ k * (job.rows \div job.splits) <= r
           /\ k < job.splits - 1 => r < (k + 1) * (job.rows \div job.splits)
<1> DEFINE size == job.rows \div job.splits
<1>1. /\ job.rows \in Nat /\ job.splits \in Nat /\ job.splits > 1 /\ size \in Nat
      /\ job.splits * size <= job.rows
  BY CPCVNumbers
<1>2. r \in (k * size) .. ((IF k < job.splits - 1 THEN (k + 1) * size ELSE job.rows) - 1)
  BY DEF FoldRows
<1> HIDE DEF size
<1>3. k * size \in Nat /\ (k + 1) * size \in Nat /\ (k + 1) * size <= job.splits * size
  <2>1. k \in Nat /\ k + 1 \in Nat /\ k + 1 <= job.splits /\ k <= k
    BY <1>1
  <2> QED BY <1>1, <2>1, Multiples
<1>4. job.splits * size \in Nat
  BY <1>1
<1>5. /\ r \in 0 .. job.rows - 1 /\ k * size <= r
      /\ k < job.splits - 1 => r < (k + 1) * size
  BY <1>1, <1>2, <1>3, <1>4
<1> QED BY <1>5 DEF size

\* No row is in two folds.
LEMMA FoldsApart ==
    ASSUME Splitting, NEW k \in 0 .. job.splits - 1, NEW l \in 0 .. job.splits - 1,
           NEW r \in FoldRows(k), r \in FoldRows(l)
    PROVE  k = l
<1> DEFINE size == job.rows \div job.splits
<1>1. job.splits \in Nat /\ size \in Nat
  BY CPCVNumbers
<1>2. ASSUME NEW a \in 0 .. job.splits - 1, NEW b \in 0 .. job.splits - 1, a < b,
             r \in FoldRows(a), r \in FoldRows(b)
      PROVE  FALSE
  <2>1. r \in Nat /\ r < (a + 1) * size /\ b * size <= r
    BY <1>1, <1>2, FoldBounds
  <2> HIDE DEF size
  <2>2. (a + 1) * size <= b * size /\ (a + 1) * size \in Nat /\ b * size \in Nat
    <3>1. a + 1 \in Nat /\ b \in Nat /\ a + 1 <= b
      BY <1>1, <1>2
    <3> QED BY <1>1, <3>1, Multiples
  <2> QED BY <2>1, <2>2
<1>3. k < l \/ l < k \/ k = l
  BY <1>1
<1> QED BY <1>2, <1>3

\* Every row is in a fold.
LEMMA FoldsCover ==
    ASSUME Splitting, NEW r \in 0 .. job.rows - 1
    PROVE  \E k \in 0 .. job.splits - 1 : r \in FoldRows(k)
<1> DEFINE size == job.rows \div job.splits
           last == job.splits - 1
<1>1. job.rows \in Nat /\ last \in Nat /\ last > 0 /\ size \in Nat /\ r \in Nat
  BY CPCVNumbers
<1>2. CASE last * size <= r
  <2>1. r \in FoldRows(last)
    BY <1>1, <1>2 DEF FoldRows
  <2> QED BY <1>1, <2>1
<1>3. CASE ~(last * size <= r)
  <2> DEFINE q == r \div size
  <2> HIDE DEF last
  <2>1. size > 0 /\ r < last * size /\ last * size \in Nat
    BY <1>1, <1>3
  <2> HIDE DEF size
  <2>2. q \in Nat /\ q * size <= r /\ r < (q + 1) * size
    BY <1>1, <2>1, Quotients
  <2> HIDE DEF q
  <2>3. q < last
    <3> SUFFICES ASSUME last <= q PROVE FALSE
      BY <1>1, <2>2
    <3>1. last * size <= q * size /\ q * size \in Nat
      BY <1>1, <2>2, Multiples
    <3> QED BY <1>1, <2>1, <2>2, <3>1
  <2>4. q * size \in Nat /\ (q + 1) * size \in Nat
    BY <1>1, <2>2
  <2>5. r \in (q * size) .. ((q + 1) * size - 1)
    BY <1>1, <2>2, <2>4
  <2>6. r \in FoldRows(q)
    BY <2>3, <2>5 DEF FoldRows, last, size
  <2>7. q \in 0 .. job.splits - 1
    BY <1>1, <2>2, <2>3 DEF last
  <2> QED BY <2>6, <2>7
<1> QED BY <1>2, <1>3

\* Where the rows of folds lie.
LEMMA RowsOfFolds ==
    ASSUME Splitting, NEW c \in SUBSET (0 .. job.splits - 1)
    PROVE  /\ RowsOf(c) \in SUBSET (0 .. job.rows - 1) /\ RowsOf(c) \in SUBSET Nat
           /\ \A r \in RowsOf(c) : r <= job.rows
           /\ \A r \in RowsOf(c) : r \notin RowsOf((0 .. job.splits - 1) \ c)
<1>0. job.rows \in Nat
  BY CPCVNumbers
<1>1. ASSUME NEW r \in RowsOf(c)
      PROVE  /\ r \in 0 .. job.rows - 1 /\ r \in Nat /\ r <= job.rows
             /\ r \notin RowsOf((0 .. job.splits - 1) \ c)
  <2>1. PICK k \in c : r \in FoldRows(k)
    BY <1>1 DEF RowsOf
  <2>2. r \in 0 .. job.rows - 1
    BY <2>1, FoldBounds
  <2>3. ASSUME r \in RowsOf((0 .. job.splits - 1) \ c)
        PROVE  FALSE
    <3>1. PICK l \in (0 .. job.splits - 1) \ c : r \in FoldRows(l)
      BY <2>3 DEF RowsOf
    <3> QED BY <2>1, <3>1, FoldsApart
  <2> QED BY <1>0, <2>2, <2>3
<1>2. RowsOf(c) \subseteq 0 .. job.rows - 1 /\ RowsOf(c) \subseteq Nat
  BY <1>1
<1> QED BY <1>1, <1>2

\* What a path trains on is in the folds that it does not test, purged and embargoed.
LEMMA PathRows ==
    ASSUME NEW c, NEW t \in Path(c).train
    PROVE  LET rest == RowsOf((0 .. job.splits - 1) \ c)
               test == RowsOf(c)
           IN  /\ Path(c).test = test /\ t \in rest
               /\ job.purge /\ job.horizon > 0 => t \in Purge(rest, test)
               /\ t \in Embargo(rest, test)
<1> DEFINE rest == RowsOf((0 .. job.splits - 1) \ c)
           test == RowsOf(c)
           purged == IF job.purge /\ job.horizon > 0 THEN Purge(rest, test) ELSE rest
<1>1. Path(c) = [train |-> Embargo(purged, test), test |-> test]
  BY DEF Path
<1> HIDE DEF rest, test
<1>2. t \in Embargo(purged, test) /\ Path(c).test = test
  BY <1>1
<1>3. t \in purged /\ purged \subseteq rest
  BY <1>2 DEF Embargo, Purge
<1>4. t \in Embargo(rest, test)
  BY <1>2, <1>3 DEF Embargo
<1> QED BY <1>2, <1>3, <1>4 DEF rest, test

\* What may be trained on is neither tested nor labelled with a tested row nor under embargo.
LEMMA PathPurged ==
    ASSUME Splitting, NEW c \in SUBSET (0 .. job.splits - 1), NEW t \in Path(c).train,
           NEW r \in Path(c).test
    PROVE  /\ t \notin Path(c).test
           /\ job.purge => Moves(t) \cap Moves(r) = {}
           /\ job.embargo > 0 => ~(r < t /\ t <= r + job.embargo)
<1> DEFINE rest == RowsOf((0 .. job.splits - 1) \ c)
           test == RowsOf(c)
<1>1. /\ Path(c).test = test /\ t \in rest /\ t \in Embargo(rest, test)
      /\ job.purge /\ job.horizon > 0 => t \in Purge(rest, test)
  BY PathRows
<1>2. /\ test \in SUBSET (0 .. job.rows - 1) /\ test \in SUBSET Nat
      /\ \A x \in test : x <= job.rows /\ x \notin rest
  BY RowsOfFolds
<1>3. (0 .. job.splits - 1) \ c \in SUBSET (0 .. job.splits - 1)
  OBVIOUS
<1>4. rest \in SUBSET (0 .. job.rows - 1)
  BY <1>3, RowsOfFolds
<1>5. job.rows \in Nat /\ job.embargo \in Nat /\ job.horizon \in Nat
  BY CPCVNumbers
<1> HIDE DEF rest, test
<1>6. r \in test /\ test # {} /\ r \in 0 .. job.rows - 1 /\ t \in 0 .. job.rows - 1
  BY <1>1, <1>2, <1>4
<1>7. /\ Least(test) \in Nat /\ Least(test) <= r
      /\ Greatest(test) \in Nat /\ r <= Greatest(test)
  BY <1>2, <1>5, <1>6, LeastExists, GreatestExists
<1>8. t \notin test
  BY <1>1, <1>2
<1>9. ASSUME job.purge, NEW k \in Moves(t), k \in Moves(r)
      PROVE  FALSE
  <2>1. k \in Int /\ t <= k /\ k < t + job.horizon /\ r <= k /\ job.horizon > 0
    BY <1>5, <1>6, <1>9 DEF Moves
  <2>2. t <= Least(test) - job.horizon
    BY <1>1, <1>6, <1>9, <2>1 DEF Purge
  <2> QED BY <1>5, <1>6, <1>7, <2>1, <2>2
<1>10. ASSUME job.embargo > 0, r < t, t <= r + job.embargo
       PROVE  FALSE
  <2>1. t < Least(test) \/ t > Smaller(job.rows - 1, Greatest(test) + job.embargo)
    BY <1>1, <1>5, <1>6, <1>10 DEF Embargo
  <2> QED BY <1>5, <1>6, <1>7, <1>10, <2>1 DEF Smaller
<1> QED BY <1>1, <1>8, <1>9, <1>10

\* No path trains on a row that it tests, on a label that shares a move of the price with a
\* tested label, or on a row under embargo, whatever the folds, the horizon of the labels
\* and the embargo.  (_purge_train and _embargo_train)
THEOREM PathsArePurged == Spec => []LabelsPurged
<1>1. SplitInv => LabelsPurged
  <2> SUFFICES ASSUME SplitInv, NEW c \in DOMAIN paths, NEW t \in paths[c].train
               PROVE  /\ t \notin paths[c].test
                      /\ job.purge => \A r \in paths[c].test : Moves(t) \cap Moves(r) = {}
                      /\ job.embargo > 0 =>
                            \A r \in paths[c].test : ~(r < t /\ t <= r + job.embargo)
    BY DEF LabelsPurged
  <2>1. job.kind = "cpcv"
    BY DEF SplitInv, JobInv
  <2>2. Splitting /\ c \in Combinations /\ paths[c] = Path(c)
    BY <2>1 DEF SplitInv, CPCVInv, Splitting
  <2>3. c \in SUBSET (0 .. job.splits - 1)
    BY <2>2 DEF Combinations
  <2>4. \A r \in Path(c).test :
           /\ t \notin Path(c).test
           /\ job.purge => Moves(t) \cap Moves(r) = {}
           /\ job.embargo > 0 => ~(r < t /\ t <= r + job.embargo)
    BY <2>2, <2>3, PathPurged
  <2> QED BY <2>2, <2>4
<1> QED BY <1>1, SplitAlways, PTL

\* Rows enough for the three folds of the cross-validation inside.
LEMMA EnoughRows ==
    ASSUME NEW n \in Nat, n >= 5
    PROVE  Fits(n)
<1>1. (2 * n) \div 5 + n \div 5 < n /\ (2 * n) \div 5 >= 1 /\ n \div 5 >= 1
  OBVIOUS
<1> QED BY <1>1 DEF Fits, Usable, Larger

\* What is evaluated of any walk-forward or combinatorial split has rows enough for the
\* cross-validation inside.  (the tests for 5 and 10 rows)
THEOREM NestedSplitsFit == Spec => []NestedFits
<1>1. SplitInv => NestedFits
  <2> SUFFICES ASSUME SplitInv PROVE NestedFits
    OBVIOUS
  <2>1. ASSUME job.kind = "walk", NEW i \in DOMAIN folds
        PROVE  Fits(TrainRows(i))
    <3>1. /\ job \in WalkJobs /\ at \in 0 .. job.splits /\ job.splits \in Nat
          /\ i \in 0 .. at - 1 /\ Keep(WalkWindow(i)) /\ folds[i] = WalkWindow(i)
      BY <2>1, WalkNumbers DEF SplitInv, WalkInv
    <3>2. i \in 0 .. job.splits - 1
      BY <3>1
    <3>3. folds[i].trainEnd \in Int /\ folds[i].trainStart \in Nat
      BY <3>1, <3>2, WalkWindowBounds
    <3>4. folds[i].trainEnd - folds[i].trainStart >= 5
      <4>1. /\ folds[i].trainEnd - folds[i].trainStart >= Larger(5, job.train \div 2)
            /\ job.train \div 2 \in Nat
        BY <3>1, WalkNumbers DEF Keep
      <4> QED BY <3>3, <4>1 DEF Larger
    <3>5. folds[i].trainEnd - folds[i].trainStart \in Nat
      BY <3>3, <3>4
    <3> QED BY <3>4, <3>5, EnoughRows DEF TrainRows
  <2>2. ASSUME NEW c \in DOMAIN paths, Enough(paths[c])
        PROVE  Fits(Cardinality(paths[c].train))
    <3>1. c \in DOMAIN paths /\ Cardinality(paths[c].train) >= 10
      BY <2>2 DEF Enough
    <3>2. job.kind = "cpcv"
      BY <3>1 DEF SplitInv, JobInv
    <3>3. Splitting /\ c \in Combinations /\ paths[c] = Path(c)
      BY <3>1, <3>2 DEF SplitInv, CPCVInv, Splitting
    <3>4. Path(c).train \in SUBSET (0 .. job.rows - 1)
      <4>1. \A t \in Path(c).train : t \in RowsOf((0 .. job.splits - 1) \ c)
        BY PathRows
      <4>2. (0 .. job.splits - 1) \ c \in SUBSET (0 .. job.splits - 1)
        OBVIOUS
      <4>3. RowsOf((0 .. job.splits - 1) \ c) \in SUBSET (0 .. job.rows - 1)
        BY <3>3, <4>2, RowsOfFolds
      <4> QED BY <4>1, <4>3
    <3>5. IsFiniteSet(0 .. job.rows - 1)
      <4>1. 0 \in Int /\ job.rows - 1 \in Int
        BY <3>3, CPCVNumbers
      <4> QED BY <4>1, FS_Interval
    <3>6. Cardinality(paths[c].train) \in Nat
      BY <3>3, <3>4, <3>5, FS_Subset, FS_CardinalityType
    <3> QED BY <3>1, <3>6, EnoughRows
  <2> QED BY <2>1, <2>2 DEF NestedFits
<1> QED BY <1>1, SplitAlways, PTL

-----------------------------------------------------------------------------
(***************************************************************************)
(* How often a row is tested                                               *)
(***************************************************************************)

Folds == 0 .. job.splits - 1

\* The choices of folds to test that have fold k.
With(k) == {c \in Combinations : k \in c}

\* A set of folds in which two of them are exchanged.
Swap(k, l, x) == IF x = k THEN l ELSE IF x = l THEN k ELSE x
Swapped(k, l, c) == {x \in Folds : Swap(k, l, x) \in c}

\* The folds are finitely many, and so are the choices of them.
LEMMA FiniteFolds ==
    ASSUME Splitting
    PROVE  /\ IsFiniteSet(Folds) /\ IsFiniteSet(Combinations)
           /\ \A c \in SUBSET Folds : IsFiniteSet(c)
<1>1. IsFiniteSet(Folds)
  <2>1. 0 \in Int /\ job.splits - 1 \in Int
    BY CPCVNumbers
  <2> QED BY <2>1, FS_Interval DEF Folds
<1>2. \A c \in SUBSET Folds : IsFiniteSet(c)
  BY <1>1, FS_Subset
<1>3. IsFiniteSet(SUBSET Folds)
  BY <1>1, FS_SUBSET
<1>4. Combinations \in SUBSET (SUBSET Folds)
  BY DEF Combinations, Folds
<1> QED BY <1>1, <1>2, <1>3, <1>4, FS_Subset

\* Every fold is in some choice.
LEMMA SomeChoice ==
    ASSUME Splitting, NEW k \in Folds
    PROVE  With(k) # {}
<1> DEFINE first == IF k < job.tested THEN 0 ELSE k - job.tested + 1
           final == first + job.tested - 1
           c == first .. final
<1>1. /\ job.splits \in Nat /\ job.tested \in Nat /\ job.tested >= 1
      /\ job.tested <= job.splits - 1 /\ k \in Nat /\ k <= job.splits - 1
  BY CPCVNumbers DEF Splitting, Folds
<1>2. /\ first \in Int /\ final \in Int /\ first >= 0 /\ final <= job.splits - 1
      /\ first <= k /\ k <= final /\ final - first + 1 = job.tested
  BY <1>1
<1> HIDE DEF first, final
<1>3. c \subseteq Folds /\ k \in c
  BY <1>1, <1>2 DEF Folds
<1>4. Cardinality(c) = job.tested
  <2>1. Cardinality(c) = IF first > final THEN 0 ELSE final - first + 1
    BY <1>2, FS_Interval
  <2> QED BY <1>1, <1>2, <2>1
<1> HIDE DEF c
<1> QED BY <1>3, <1>4 DEF With, Combinations, Folds

\* Exchanging two folds twice is no exchange, and a choice stays one of the same size.
LEMMA SwapChoices ==
    ASSUME Splitting, NEW k \in Folds, NEW l \in Folds, NEW c \in With(k)
    PROVE  Swapped(k, l, c) \in With(l) /\ Swapped(k, l, Swapped(k, l, c)) = c
<1> DEFINE d == Swapped(k, l, c)
           f == [x \in c |-> Swap(k, l, x)]
<1>1. c \in SUBSET Folds /\ Cardinality(c) = job.tested /\ k \in c
  BY DEF With, Combinations, Folds
<1>2. \A x \in Folds : Swap(k, l, x) \in Folds /\ Swap(k, l, Swap(k, l, x)) = x
  BY DEF Swap
<1>3. d \in SUBSET Folds /\ \A x \in Folds : x \in d <=> Swap(k, l, x) \in c
  BY DEF Swapped
<1> HIDE DEF d
<1>4. f \in [c -> d] /\ \A x \in c : f[x] = Swap(k, l, x)
  BY <1>1, <1>2, <1>3
<1> HIDE DEF f
<1>5. \A x, y \in c : f[x] = f[y] => x = y
  <2> SUFFICES ASSUME NEW x \in c, NEW y \in c, f[x] = f[y] PROVE x = y
    OBVIOUS
  <2>1. Swap(k, l, x) = Swap(k, l, y) /\ x \in Folds /\ y \in Folds
    BY <1>1, <1>4
  <2>2. Swap(k, l, Swap(k, l, x)) = x /\ Swap(k, l, Swap(k, l, y)) = y
    BY <1>2, <2>1
  <2> QED BY <2>1, <2>2
<1>6. \A y \in d : \E x \in c : f[x] = y
  <2> SUFFICES ASSUME NEW y \in d PROVE \E x \in c : f[x] = y
    OBVIOUS
  <2>1. y \in Folds /\ Swap(k, l, y) \in c
    BY <1>3
  <2>2. f[Swap(k, l, y)] = y
    BY <1>2, <1>4, <2>1
  <2> QED BY <2>1, <2>2
<1>7. f \in Bijection(c, d)
  BY <1>4, <1>5, <1>6, Fun_IsBij
<1>8. Cardinality(d) = job.tested
  <2>1. ExistsBijection(c, d)
    BY <1>7 DEF ExistsBijection
  <2>2. IsFiniteSet(c)
    BY <1>1, FiniteFolds
  <2> QED BY <1>1, <2>1, <2>2, FS_Bijection
<1>9. l \in d
  <2>1. Swap(k, l, l) = k
    BY DEF Swap
  <2> QED BY <1>1, <1>3, <2>1
<1>10. Swapped(k, l, d) = c
  <2>1. \A x \in Folds : x \in Swapped(k, l, d) <=> Swap(k, l, x) \in d
    BY DEF Swapped
  <2>2. \A x \in Folds : Swap(k, l, x) \in d <=> x \in c
    BY <1>2, <1>3
  <2>3. Swapped(k, l, d) \subseteq Folds
    BY DEF Swapped
  <2> QED BY <1>1, <2>1, <2>2, <2>3
<1>11. d \in With(l)
  BY <1>3, <1>8, <1>9 DEF With, Combinations, Folds
<1> QED BY <1>10, <1>11 DEF d

\* Every fold is in the same number of choices.
LEMMA SameMany ==
    ASSUME Splitting, NEW k \in Folds, NEW l \in Folds
    PROVE  Cardinality(With(k)) = Cardinality(With(l))
<1> DEFINE m == [c \in With(k) |-> Swapped(k, l, c)]
<1>0. \A c : Swapped(k, l, c) = Swapped(l, k, c)
  BY DEF Swapped, Swap
<1>1. m \in [With(k) -> With(l)] /\ \A c \in With(k) : m[c] = Swapped(k, l, c)
  BY SwapChoices
<1> HIDE DEF m
<1>2. \A c, d \in With(k) : m[c] = m[d] => c = d
  BY <1>1, SwapChoices
<1>3. \A d \in With(l) : \E c \in With(k) : m[c] = d
  <2> SUFFICES ASSUME NEW d \in With(l) PROVE \E c \in With(k) : m[c] = d
    OBVIOUS
  <2>1. Swapped(l, k, d) \in With(k) /\ Swapped(l, k, Swapped(l, k, d)) = d
    BY SwapChoices
  <2>2. m[Swapped(l, k, d)] = d
    BY <1>0, <1>1, <2>1
  <2> QED BY <2>1, <2>2
<1>4. m \in Bijection(With(k), With(l))
  BY <1>1, <1>2, <1>3, Fun_IsBij
<1>5. ExistsBijection(With(k), With(l))
  BY <1>4 DEF ExistsBijection
<1>6. IsFiniteSet(With(k))
  <2>1. With(k) \in SUBSET Combinations
    BY DEF With
  <2> QED BY <2>1, FiniteFolds, FS_Subset
<1> QED BY <1>5, <1>6, FS_Bijection

\* The paths of a combinatorial split test every row, and each as often as the others.
\* (_fold_boundaries and generate_cpcv_splits)
THEOREM EveryRowIsTested == Spec => []PathsCover
<1>1. SplitInv => PathsCover
  <2> SUFFICES ASSUME SplitInv, job.kind = "cpcv", Made
               PROVE  /\ UNION {paths[c].test : c \in DOMAIN paths} = 0 .. job.rows - 1
                      /\ \A r, q \in 0 .. job.rows - 1 :
                            Cardinality({c \in DOMAIN paths : r \in paths[c].test})
                            = Cardinality({c \in DOMAIN paths : q \in paths[c].test})
    BY DEF PathsCover, Made
  <2>1. Splitting /\ DOMAIN paths = Combinations /\ \A c \in Combinations : paths[c] = Path(c)
    BY DEF SplitInv, CPCVInv, Splitting
  <2>2. \A c \in Combinations : /\ c \in SUBSET Folds /\ c \in SUBSET (0 .. job.splits - 1)
                                /\ paths[c].test = RowsOf(c)
    <3>1. \A c : Path(c).test = RowsOf(c)
      BY DEF Path
    <3> QED BY <2>1, <3>1 DEF Combinations, Folds
  <2>3. ASSUME NEW r \in 0 .. job.rows - 1
        PROVE  \E k \in Folds : {c \in DOMAIN paths : r \in paths[c].test} = With(k)
    <3>1. PICK k \in Folds : r \in FoldRows(k)
      BY <2>1, FoldsCover DEF Folds
    <3>2. ASSUME NEW c \in Combinations
          PROVE  r \in RowsOf(c) <=> k \in c
      <4>1. ASSUME r \in RowsOf(c)
            PROVE  k \in c
        <5>1. PICK l \in c : r \in FoldRows(l)
          BY <4>1 DEF RowsOf
        <5>2. k = l
          BY <2>1, <2>2, <3>1, <5>1, FoldsApart DEF Folds
        <5> QED BY <5>1, <5>2
      <4> QED BY <3>1, <4>1 DEF RowsOf
    <3>3. {c \in DOMAIN paths : r \in paths[c].test} = With(k)
      BY <2>1, <2>2, <3>2 DEF With
    <3> QED BY <3>3
  <2>4. UNION {paths[c].test : c \in DOMAIN paths} \subseteq 0 .. job.rows - 1
    <3> SUFFICES ASSUME NEW c \in Combinations PROVE paths[c].test \subseteq 0 .. job.rows - 1
      BY <2>1
    <3>1. RowsOf(c) \in SUBSET (0 .. job.rows - 1)
      BY <2>1, <2>2, RowsOfFolds
    <3> QED BY <2>2, <3>1
  <2>5. ASSUME NEW r \in 0 .. job.rows - 1
        PROVE  r \in UNION {paths[c].test : c \in DOMAIN paths}
    <3>1. PICK k \in Folds : {c \in DOMAIN paths : r \in paths[c].test} = With(k)
      BY <2>3
    <3>2. With(k) # {}
      BY <2>1, SomeChoice
    <3> QED BY <3>1, <3>2
  <2>6. ASSUME NEW r \in 0 .. job.rows - 1, NEW q \in 0 .. job.rows - 1
        PROVE  Cardinality({c \in DOMAIN paths : r \in paths[c].test})
               = Cardinality({c \in DOMAIN paths : q \in paths[c].test})
    <3>1. PICK k \in Folds : {c \in DOMAIN paths : r \in paths[c].test} = With(k)
      BY <2>3
    <3>2. PICK l \in Folds : {c \in DOMAIN paths : q \in paths[c].test} = With(l)
      BY <2>3
    <3> QED BY <2>1, <3>1, <3>2, SameMany
  <2> QED BY <2>4, <2>5, <2>6
<1> QED BY <1>1, SplitAlways, PTL

-----------------------------------------------------------------------------
(***************************************************************************)
(* The selections                                                          *)
(***************************************************************************)

\* What a score may be, that of a sweep's run without one included.
Marks == Scores \cup {NoScore}
Entries == {e \in [score : Marks, status : {"tuned", "evaluated", "completed", "failed"}] :
               e.status = "failed" => e.score = NoScore}

\* Every score is one, what failed has none and is of a sweep, and a selection that is done
\* has ranked all its candidates.
SelectionInv ==
    task \in Selections =>
       /\ study \in Seq(Scores) /\ results \in Seq(Entries)
       /\ \A i \in DOMAIN results : results[i].status = "failed" => task.kind = "sweep"
       /\ progress = "done" => Len(results) = task.candidates /\ leaderboard = Ranked

RankInv == SelectionInv /\ (task \in Selections \/ progress = "failed")

\* A finite set of numbers has a greatest one: otherwise the next greater one of each would
\* be all of them but the least.
LEMMA FiniteGreatest ==
    ASSUME NEW S \in SUBSET Nat, S # {}, IsFiniteSet(S)
    PROVE  \E x \in S : \A y \in S : y <= x
<1> SUFFICES ASSUME \A x \in S : \E y \in S : x < y PROVE FALSE
  <2>1. ASSUME NEW x \in S, NEW y \in S, ~(x < y)
        PROVE  y <= x
    BY <2>1
  <2> QED BY <2>1
<1> DEFINE Above(x) == {y \in S : x < y}
           next == [x \in S |-> Least(Above(x))]
<1>1. ASSUME NEW x \in S
      PROVE  next[x] \in S /\ x < next[x] /\ \A y \in S : x < y => next[x] <= y
  <2>1. Above(x) \in SUBSET Nat /\ Above(x) # {}
    OBVIOUS
  <2>2. Least(Above(x)) \in Above(x) /\ \A y \in Above(x) : Least(Above(x)) <= y
    BY <2>1, LeastExists
  <2> QED BY <2>2
<1>2. next \in [S -> S]
  BY <1>1
<1> HIDE DEF next
<1>3. \A x, y \in S : next[x] = next[y] => x = y
  <2>1. ASSUME NEW x \in S, NEW y \in S, x < y
        PROVE  next[x] # next[y]
    <3>1. next[x] <= y /\ y < next[y] /\ next[x] \in Nat /\ next[y] \in Nat /\ y \in Nat
      BY <1>1, <2>1
    <3> QED BY <3>1
  <2>2. \A x, y \in S : x < y \/ y < x \/ x = y
    OBVIOUS
  <2> QED BY <2>1, <2>2
<1>4. next \in Injection(S, S)
  BY <1>2, <1>3, Fun_IsInj
<1>5. next \in Surjection(S, S)
  BY <1>4, FS_Injection
<1>6. Least(S) \in S /\ \A y \in S : Least(S) <= y
  BY LeastExists
<1>7. PICK x \in S : next[x] = Least(S)
  BY <1>5, <1>6 DEF Surjection
<1>8. x < Least(S) /\ Least(S) <= x /\ x \in Nat /\ Least(S) \in Nat
  BY <1>1, <1>6, <1>7
<1> QED BY <1>8

\* The best value of a study is one of its trials'.
LEMMA BestIsOne ==
    ASSUME NEW s \in Seq(Nat), Len(s) > 0, NEW d
    PROVE  BestOf({s[i] : i \in DOMAIN s}, d) \in {s[i] : i \in DOMAIN s}
<1> DEFINE S == {s[i] : i \in DOMAIN s}
           f == [i \in 1 .. Len(s) |-> s[i]]
<1>1. Len(s) \in Nat /\ DOMAIN s = 1 .. Len(s) /\ \A i \in 1 .. Len(s) : s[i] \in Nat
  OBVIOUS
<1>2. S \in SUBSET Nat /\ S # {}
  <2>1. 1 \in DOMAIN s
    BY <1>1
  <2>2. S # {}
    BY <2>1
  <2>3. ASSUME NEW x \in S PROVE x \in Nat
    BY <1>1
  <2> QED BY <2>2, <2>3
<1>3. f \in Surjection(1 .. Len(s), S)
  <2>1. \A i \in 1 .. Len(s) : f[i] = s[i] /\ s[i] \in S
    BY <1>1
  <2>2. ASSUME NEW x \in S PROVE \E i \in 1 .. Len(s) : f[i] = x
    <3>1. PICK i \in DOMAIN s : x = s[i]
      OBVIOUS
    <3> QED BY <1>1, <2>1, <3>1
  <2>3. f \in [1 .. Len(s) -> S]
    BY <2>1
  <2> HIDE DEF f, S
  <2> QED BY <2>2, <2>3, Fun_IsSurj
<1>4. IsFiniteSet(1 .. Len(s))
  <2>1. 1 \in Int /\ Len(s) \in Int
    BY <1>1
  <2> QED BY <2>1, FS_Interval
<1> HIDE DEF S, f
<1>5. IsFiniteSet(S)
  BY <1>3, <1>4, FS_Surjection
<1>6. Least(S) \in S /\ \A y \in S : Least(S) <= y
  BY <1>2, LeastExists
<1>7. PICK x \in S : \A y \in S : y <= x
  BY <1>2, <1>5, FiniteGreatest
<1>8. \E b \in S : \A t \in S : IF d = "minimize" THEN b <= t ELSE b >= t
  <2>1. CASE d = "minimize"
    BY <1>6, <2>1
  <2>2. CASE d # "minimize"
    <3>1. \A t \in S : x >= t
      BY <1>2, <1>7
    <3> QED BY <2>2, <3>1
  <2> QED BY <2>1, <2>2
<1>9. BestOf(S, d) \in S
  BY <1>8 DEF BestOf
<1> QED BY <1>9 DEF S

-----------------------------------------------------------------------------
\* Candidates are strictly and totally ordered by their score and then their number.
LEMMA PrecedesIsOrder ==
    ASSUME results \in Seq(Entries)
    PROVE  \A i, j, k \in DOMAIN results :
              /\ ~ Precedes(i, i)
              /\ i # j => Precedes(i, j) \/ Precedes(j, i)
              /\ (Precedes(i, j) /\ Precedes(j, k)) => Precedes(i, k)
<1> SUFFICES ASSUME NEW i \in DOMAIN results, NEW j \in DOMAIN results, NEW k \in DOMAIN results
             PROVE  /\ ~ Precedes(i, i)
                    /\ i # j => Precedes(i, j) \/ Precedes(j, i)
                    /\ (Precedes(i, j) /\ Precedes(j, k)) => Precedes(i, k)
  OBVIOUS
<1>1. \A m \in DOMAIN results : m \in Int /\ results[m] \in Entries
  OBVIOUS
<1>2. \A e \in Entries : e.score \in Int
  <2>1. Marks \subseteq Int
    BY SelectionAssumption DEF Marks, NoScore
  <2>2. \A e \in Entries : e.score \in Marks
    BY DEF Entries
  <2> QED BY <2>1, <2>2
<1>3. /\ i \in Int /\ j \in Int /\ k \in Int
      /\ results[i].score \in Int /\ results[j].score \in Int /\ results[k].score \in Int
  BY <1>1, <1>2
<1>4. ~ Precedes(i, i)
  BY <1>3 DEF Precedes
<1>5. i # j => Precedes(i, j) \/ Precedes(j, i)
  BY <1>3 DEF Precedes
<1>6. (Precedes(i, j) /\ Precedes(j, k)) => Precedes(i, k)
  BY <1>3 DEF Precedes
<1> QED BY <1>4, <1>5, <1>6

\* A place is one of as many as there are candidates, and who precedes has the lower one.
LEMMA PlaceIsOrdered ==
    ASSUME results \in Seq(Entries)
    PROVE  /\ \A i \in DOMAIN results : Place(i) \in DOMAIN results
           /\ \A i, j \in DOMAIN results : Precedes(i, j) => Place(i) < Place(j)
<1> DEFINE D == DOMAIN results
           InFront(i) == {j \in D : Precedes(j, i)}
<1>1. Len(results) \in Nat /\ D = 1 .. Len(results)
  OBVIOUS
<1>2. IsFiniteSet(D) /\ Cardinality(D) = Len(results)
  <2>1. 1 \in Int /\ Len(results) \in Int
    BY <1>1
  <2>2. IsFiniteSet(1 .. Len(results)) /\ Cardinality(1 .. Len(results)) = Len(results)
    BY <1>1, <2>1, FS_Interval
  <2> QED BY <1>1, <2>2
<1>3. \A i \in D : Place(i) = Cardinality(InFront(i)) + 1
  BY DEF Place
<1> HIDE DEF D
<1>4. ASSUME NEW i \in D
      PROVE  /\ IsFiniteSet(InFront(i)) /\ Cardinality(InFront(i)) \in Nat
             /\ Cardinality(InFront(i)) < Len(results)
  <2>1. InFront(i) \in SUBSET D /\ i \notin InFront(i)
    BY PrecedesIsOrder DEF D
  <2>2. IsFiniteSet(InFront(i)) /\ Cardinality(InFront(i)) <= Cardinality(D)
    BY <1>2, <2>1, FS_Subset
  <2>3. Cardinality(InFront(i)) # Cardinality(D)
    BY <1>2, <2>1, FS_Subset
  <2>4. Cardinality(InFront(i)) \in Nat
    BY <2>2, FS_CardinalityType
  <2> HIDE DEF InFront
  <2> QED BY <1>1, <1>2, <2>2, <2>3, <2>4
<1>5. ASSUME NEW i \in D, NEW j \in D, Precedes(i, j)
      PROVE  Cardinality(InFront(i)) < Cardinality(InFront(j))
  <2>1. InFront(i) \in SUBSET InFront(j)
    BY <1>5, PrecedesIsOrder DEF D
  <2>2. i \in InFront(j) /\ i \notin InFront(i)
    BY <1>5, PrecedesIsOrder DEF D
  <2>3. IsFiniteSet(InFront(j)) /\ Cardinality(InFront(j)) \in Nat /\ Cardinality(InFront(i)) \in Nat
    BY <1>4
  <2> HIDE DEF InFront
  <2>4. Cardinality(InFront(i)) <= Cardinality(InFront(j))
    BY <2>1, <2>3, FS_Subset
  <2>5. Cardinality(InFront(i)) # Cardinality(InFront(j))
    BY <2>1, <2>2, <2>3, FS_Subset
  <2> QED BY <2>3, <2>4, <2>5
<1>6. ASSUME NEW i \in D
      PROVE  Place(i) \in D
  <2> HIDE DEF InFront
  <2>1. Place(i) = Cardinality(InFront(i)) + 1
    BY <1>3
  <2> QED BY <1>1, <1>4, <2>1
<1>7. ASSUME NEW i \in D, NEW j \in D, Precedes(i, j)
      PROVE  Place(i) < Place(j)
  <2> HIDE DEF InFront
  <2>1. Place(i) = Cardinality(InFront(i)) + 1 /\ Place(j) = Cardinality(InFront(j)) + 1
    BY <1>3
  <2>2. Cardinality(InFront(i)) \in Nat /\ Cardinality(InFront(j)) \in Nat
    BY <1>4
  <2> QED BY <1>5, <1>7, <2>1, <2>2
<1> QED BY <1>6, <1>7 DEF D

\* Every place is taken by one candidate, the one that is ranked there.
LEMMA RankedHasPlace ==
    ASSUME results \in Seq(Entries)
    PROVE  /\ Ranked \in [DOMAIN results -> DOMAIN results]
           /\ \A p \in DOMAIN results : Place(Ranked[p]) = p
           /\ \A i \in DOMAIN results : Ranked[Place(i)] = i
<1> DEFINE D == DOMAIN results
           f == [i \in D |-> Place(i)]
<1>1. IsFiniteSet(D)
  <2>1. Len(results) \in Nat /\ D = 1 .. Len(results) /\ 1 \in Int /\ Len(results) \in Int
    OBVIOUS
  <2> QED BY <2>1, FS_Interval
<1>2. \A i \in D : Place(i) \in D /\ Place(i) \in Int
  <2>1. D \subseteq Int
    OBVIOUS
  <2> QED BY <2>1, PlaceIsOrdered
<1>3. \A i, j \in D : Place(i) = Place(j) => i = j
  <2> SUFFICES ASSUME NEW i \in D, NEW j \in D, i # j
               PROVE  Place(i) # Place(j)
    OBVIOUS
  <2>1. Precedes(i, j) \/ Precedes(j, i)
    BY PrecedesIsOrder
  <2>2. Place(i) < Place(j) \/ Place(j) < Place(i)
    BY <2>1, PlaceIsOrdered
  <2> QED BY <1>2, <2>2
<1>4. f \in [D -> D]
  BY <1>2
<1>5. \A i \in D : f[i] = Place(i)
  OBVIOUS
<1> HIDE DEF f, D
<1>6. f \in Injection(D, D)
  BY <1>3, <1>4, <1>5, Fun_IsInj
<1>7. f \in Surjection(D, D)
  BY <1>1, <1>6, FS_Injection
<1>8. \A p \in D : \E i \in D : Place(i) = p
  BY <1>5, <1>7 DEF Surjection
<1>9. Ranked = [p \in D |-> CHOOSE i \in D : Place(i) = p]
  BY DEF Ranked, D
<1>10. \A p \in D : Ranked[p] \in D /\ Place(Ranked[p]) = p
  BY <1>8, <1>9
<1>11. Ranked \in [D -> D]
  BY <1>9, <1>10
<1>12. \A i \in D : Ranked[Place(i)] = i
  BY <1>2, <1>3, <1>10
<1> QED BY <1>10, <1>11, <1>12 DEF D

-----------------------------------------------------------------------------
LEMMA RankedIsBestFirst == RankInv => BestFirst
<1> SUFFICES ASSUME RankInv, progress = "done"
             PROVE  BestFirst
  BY DEF BestFirst
<1> DEFINE D == DOMAIN results
<1>1. /\ task \in Selections /\ results \in Seq(Entries) /\ leaderboard = Ranked
      /\ Len(results) = task.candidates
      /\ \A i \in D : results[i].status = "failed" => task.kind = "sweep"
  BY DEF RankInv, SelectionInv
<1>2. Len(results) \in Nat /\ D = 1 .. task.candidates
  BY <1>1
<1>3. /\ leaderboard \in [D -> D] /\ \A p \in D : Place(leaderboard[p]) = p
      /\ \A i \in D : leaderboard[Place(i)] = i /\ Place(i) \in D
  BY <1>1, RankedHasPlace, PlaceIsOrdered
<1>4. \A i \in D : results[i] \in Entries
  BY <1>1
<1> HIDE DEF D
<1>5. {leaderboard[p] : p \in DOMAIN leaderboard} = 1 .. task.candidates
  <2>1. \A p \in DOMAIN leaderboard : leaderboard[p] \in D
    BY <1>3
  <2>2. \A i \in D : Place(i) \in DOMAIN leaderboard /\ leaderboard[Place(i)] = i
    BY <1>3
  <2> QED BY <1>2, <2>1, <2>2
<1>6. Len(leaderboard) = task.candidates
  <2>1. leaderboard \in [1 .. task.candidates -> D] /\ task.candidates \in Nat
    BY <1>1, <1>2, <1>3
  <2> QED BY <2>1
<1>7. ASSUME NEW p \in DOMAIN leaderboard, NEW q \in DOMAIN leaderboard, p < q
      PROVE  /\ task.kind # "sweep" /\ task.metric = "error" =>
                   results[leaderboard[p]].score <= results[leaderboard[q]].score
             /\ task.kind = "sweep" \/ task.metric = "accuracy" =>
                   results[leaderboard[p]].score >= results[leaderboard[q]].score
             /\ results[leaderboard[p]].status = "failed" =>
                   results[leaderboard[q]].score = NoScore
  <2> DEFINE a == leaderboard[p]
             b == leaderboard[q]
  <2>1. /\ p \in D /\ q \in D /\ a \in D /\ b \in D /\ p \in Int /\ q \in Int
        /\ Place(a) = p /\ Place(b) = q
    BY <1>2, <1>3
  <2> HIDE DEF a, b
  <2>2. Precedes(a, b)
    <3>1. ~ Precedes(b, a)
      <4>1. ~ (Place(b) < Place(a))
        BY <1>7, <2>1
      <4> QED BY <1>1, <2>1, <4>1, PlaceIsOrdered DEF D
    <3>2. a # b
      BY <1>7, <2>1
    <3> QED BY <1>1, <2>1, <3>1, <3>2, PrecedesIsOrder DEF D
  <2>3. /\ results[a] \in Entries /\ results[b] \in Entries
        /\ results[a].status = "failed" => task.kind = "sweep"
    BY <1>1, <1>4, <2>1
  <2>4. results[a].score \in Marks /\ results[b].score \in Marks
    BY <2>3 DEF Entries
  <2>5. \A m \in Marks : m \in Int /\ m >= NoScore /\ NoScore \in Int
    BY SelectionAssumption DEF Marks, NoScore
  <2>6. results[a].status = "failed" => results[a].score = NoScore
    BY <2>3 DEF Entries
  <2>7. task.kind # "sweep" /\ task.metric = "error" => results[a].score <= results[b].score
    BY <2>2, <2>4, <2>5 DEF Precedes, HigherIsBetter
  <2>8. task.kind = "sweep" \/ task.metric = "accuracy" => results[a].score >= results[b].score
    BY <2>2, <2>4, <2>5 DEF Precedes, HigherIsBetter
  <2>9. results[a].status = "failed" => results[b].score = NoScore
    BY <2>3, <2>4, <2>5, <2>6, <2>8
  <2> QED BY <2>7, <2>8, <2>9 DEF a, b
<1> QED BY <1>5, <1>6, <1>7 DEF BestFirst

-----------------------------------------------------------------------------
LEMMA RankInit == Init => RankInv
<1>1. ASSUME SelectionInit
      PROVE  RankInv
  <2>1. task \in Selections /\ study \in Seq(Scores) /\ results \in Seq(Entries)
    BY <1>1 DEF SelectionInit
  <2>2. DOMAIN results = {} /\ progress # "done"
    BY <1>1 DEF SelectionInit
  <2> QED BY <2>1, <2>2 DEF RankInv, SelectionInv
<1>2. ASSUME NoSelection
      PROVE  RankInv
  <2>1. task \notin Selections
    <3>1. task.kind \notin Kinds
      BY <1>2 DEF NoSelection, NoTask, Kinds
    <3> QED BY <3>1, SelectionAssumption
  <2> QED BY <1>2, <2>1 DEF RankInv, SelectionInv, NoSelection
<1> QED BY <1>1, <1>2 DEF Init

\* Appending a result of the right kind keeps what is known of the results.
LEMMA ResultsGrow ==
    ASSUME RankInv, Running, NEW e \in Entries, e.status = "failed" => task.kind = "sweep",
           results' = Append(results, e), study' \in Seq(Scores),
           UNCHANGED <<task, progress, leaderboard>>
    PROVE  RankInv'
<1>1. /\ task \in Selections /\ results \in Seq(Entries) /\ progress = "running"
      /\ \A i \in DOMAIN results : results[i].status = "failed" => task.kind = "sweep"
  BY DEF RankInv, SelectionInv, Running
<1>2. /\ results' \in Seq(Entries)
      /\ \A i \in DOMAIN results' :
            i \notin DOMAIN results => results'[i] = e
      /\ \A i \in DOMAIN results : results'[i] = results[i]
  <2>1. /\ Len(results) \in Nat /\ DOMAIN results = 1 .. Len(results)
        /\ DOMAIN results' = 1 .. Len(results) + 1
    BY <1>1
  <2>2. results'[Len(results) + 1] = e
    BY <1>1
  <2>3. \A i \in 1 .. Len(results) : results'[i] = results[i]
    BY <1>1
  <2>4. results' \in Seq(Entries)
    BY <1>1
  <2>5. \A i \in 1 .. Len(results) + 1 : i \notin 1 .. Len(results) => i = Len(results) + 1
    BY <2>1
  <2> QED BY <2>1, <2>2, <2>3, <2>4, <2>5
<1>3. \A i \in DOMAIN results' : results'[i].status = "failed" => task.kind = "sweep"
  BY <1>1, <1>2
<1> QED BY <1>1, <1>2, <1>3 DEF RankInv, SelectionInv

LEMMA RankStep == RankInv /\ SelectionNext => RankInv'
<1> SUFFICES ASSUME RankInv, SelectionNext
             PROVE  RankInv'
  OBVIOUS
<1>1. CASE Trial
  <2>1. task \in Selections /\ study \in Seq(Scores) /\ progress = "running"
    BY <1>1 DEF Trial, Running, RankInv, SelectionInv
  <2>2. study' \in Seq(Scores)
    BY <1>1, <2>1 DEF Trial
  <2>3. UNCHANGED <<task, progress, results, leaderboard>>
    BY <1>1 DEF Trial
  <2> QED BY <2>1, <2>2, <2>3 DEF RankInv, SelectionInv
<1>2. CASE CloseStudy
  <2> DEFINE best == BestOf({study[i] : i \in DOMAIN study}, Direction)
  <2>1. task \in Selections /\ study \in Seq(Scores)
    BY <1>2 DEF CloseStudy, Running, RankInv, SelectionInv
  <2>2. task.trials \in Nat \ {0} /\ Len(study) = task.trials
    BY <1>2, <2>1, SelectionAssumption DEF CloseStudy
  <2>3. best \in {study[i] : i \in DOMAIN study}
    <3>1. study \in Seq(Nat)
      <4>1. \A x \in Scores : x \in Nat
        BY SelectionAssumption
      <4>2. Len(study) \in Nat /\ study \in [1 .. Len(study) -> Nat]
        BY <2>1, <4>1
      <4> QED BY <4>2
    <3>2. Len(study) > 0
      BY <2>2
    <3> QED BY <3>1, <3>2, BestIsOne
  <2>4. best \in Scores
    BY <2>1, <2>3
  <2> HIDE DEF best
  <2>5. Result(best, "tuned") \in Entries /\ Result(best, "tuned").status # "failed"
    BY <2>4 DEF Result, Entries, Marks
  <2>6. /\ Running /\ results' = Append(results, Result(best, "tuned"))
        /\ study' \in Seq(Scores) /\ UNCHANGED <<task, progress, leaderboard>>
    BY <1>2 DEF CloseStudy, best
  <2> QED BY <2>5, <2>6, ResultsGrow
<1>3. CASE Evaluate
  <2>1. PICK s \in Scores : results' = Append(results, Result(s, "evaluated"))
    BY <1>3 DEF Evaluate
  <2>2. Result(s, "evaluated") \in Entries /\ Result(s, "evaluated").status # "failed"
    BY DEF Result, Entries, Marks
  <2>3. Running /\ UNCHANGED <<task, progress, study, leaderboard>>
    BY <1>3 DEF Evaluate
  <2>4. study' \in Seq(Scores)
    BY <2>3 DEF Running, RankInv, SelectionInv
  <2> QED BY <2>1, <2>2, <2>3, <2>4, ResultsGrow
<1>4. CASE Abort
  <2>1. progress' = "failed" /\ UNCHANGED <<task, study, results, leaderboard>>
    BY <1>4 DEF Abort
  <2> QED BY <2>1 DEF RankInv, SelectionInv
<1>5. CASE RunBacktest
  <2>1. PICK s \in Scores \cup {NoScore} : results' = Append(results, Result(s, "completed"))
    BY <1>5 DEF RunBacktest
  <2>2. Result(s, "completed") \in Entries /\ Result(s, "completed").status # "failed"
    BY DEF Result, Entries, Marks
  <2>3. Running /\ UNCHANGED <<task, progress, study, leaderboard>>
    BY <1>5 DEF RunBacktest
  <2>4. study' \in Seq(Scores)
    BY <2>3 DEF Running, RankInv, SelectionInv
  <2> QED BY <2>1, <2>2, <2>3, <2>4, ResultsGrow
<1>6. CASE BacktestFails
  <2>1. /\ Running /\ task.kind = "sweep" /\ results' = Append(results, Result(NoScore, "failed"))
        /\ UNCHANGED <<task, progress, study, leaderboard>>
    BY <1>6 DEF BacktestFails
  <2>2. Result(NoScore, "failed") \in Entries
    BY DEF Result, Entries, Marks
  <2>3. study' \in Seq(Scores)
    BY <2>1 DEF Running, RankInv, SelectionInv
  <2> QED BY <2>1, <2>2, <2>3, ResultsGrow
<1>7. CASE Sort
  <2>1. /\ task \in Selections /\ Len(results) = task.candidates /\ leaderboard' = Ranked
        /\ UNCHANGED <<task, study, results>>
    BY <1>7 DEF Sort, RankInv
  <2>2. Ranked' = Ranked
    BY <2>1 DEF Ranked, Place, Precedes, HigherIsBetter
  <2> QED BY <2>1, <2>2 DEF RankInv, SelectionInv
<1> QED BY <1>1, <1>2, <1>3, <1>4, <1>5, <1>6, <1>7 DEF SelectionNext

LEMMA RankRest == RankInv /\ UNCHANGED selectionVars => RankInv'
<1> SUFFICES ASSUME RankInv, UNCHANGED selectionVars
             PROVE  RankInv'
  OBVIOUS
<1>1. UNCHANGED <<task, progress, study, results, leaderboard>>
  BY DEF selectionVars
<1>2. Ranked' = Ranked
  BY <1>1 DEF Ranked, Place, Precedes, HigherIsBetter
<1> QED BY <1>1, <1>2 DEF RankInv, SelectionInv

\* A finished selection lists every candidate once, the best by the metric first, and no
\* failed run of a sweep before one that has a score.  (the sorts of run_automl,
\* tune_candidates and parameter_sweep_task)
THEOREM SelectionsRank == Spec => []BestFirst
<1>1. RankInv /\ [Next]_<<splitVars, ruleVars, selectionVars>> => RankInv'
  <2>1. Next => SelectionNext \/ UNCHANGED selectionVars
    BY DEF Next, SelectionIdle
  <2>2. UNCHANGED <<splitVars, ruleVars, selectionVars>> => UNCHANGED selectionVars
    OBVIOUS
  <2> QED BY <2>1, <2>2, RankStep, RankRest
<1>2. Spec => []RankInv
  BY <1>1, RankInit, PTL DEF Spec
<1> QED BY <1>2, RankedIsBestFirst, PTL

-----------------------------------------------------------------------------
(***************************************************************************)
(* The rules                                                               *)
(***************************************************************************)

\* A recursion in which a number looks at greater ones only has a solution: if it has one
\* from m on, it has one from m - 1 on.
Recursions(N, V) ==
    {J \in [[1 .. N -> V] \X (1 .. N) -> V] :
        \A v, w \in [1 .. N -> V], n \in 1 .. N :
           (\A k \in 1 .. N : k > n => v[k] = w[k]) => J[<<v, n>>] = J[<<w, n>>]}

LEMMA SolutionExists ==
    ASSUME NEW N \in Nat, NEW V, V # {}, NEW J \in Recursions(N, V)
    PROVE  \E g \in [1 .. N -> V] : \A n \in 1 .. N : g[n] = J[<<g, n>>]
<1> USE DEF Recursions
<1> DEFINE Solves(g, m) == \A n \in 1 .. N : n >= m => g[n] = J[<<g, n>>]
           From == {m \in Nat \ {0} : \E g \in [1 .. N -> V] : Solves(g, m)}
<1>1. N + 1 \in From
  <2>1. PICK x : x \in V
    OBVIOUS
  <2> DEFINE g == [n \in 1 .. N |-> x]
  <2>2. g \in [1 .. N -> V]
    BY <2>1
  <2> HIDE DEF g
  <2>3. Solves(g, N + 1)
    OBVIOUS
  <2>4. N + 1 \in Nat \ {0}
    OBVIOUS
  <2> HIDE DEF Solves
  <2> QED BY <2>2, <2>3, <2>4
<1>2. From \in SUBSET Nat /\ From # {}
  <2>1. From \in SUBSET Nat
    OBVIOUS
  <2> HIDE DEF From
  <2> QED BY <1>1, <2>1
<1> DEFINE m == Least(From)
<1>3. m \in From /\ \A k \in From : m <= k
  <2> HIDE DEF From
  <2> QED BY <1>2, LeastExists
<1> HIDE DEF m
<1>4. m \in Nat \ {0} /\ \E g \in [1 .. N -> V] : Solves(g, m)
  <2> HIDE DEF Solves
  <2> QED BY <1>3
<1>5. PICK g \in [1 .. N -> V] : Solves(g, m)
  <2> HIDE DEF Solves
  <2> QED BY <1>4
<1>6. m = 1
  <2> SUFFICES ASSUME m # 1 PROVE m - 1 \in From
    <3>1. ~ (m <= m - 1)
      BY <1>4
    <3> HIDE DEF From
    <3> QED BY <1>3, <3>1
  <2>1. m - 1 \in Nat \ {0}
    BY <1>4
  <2>2. CASE m - 1 > N
    <3>1. Solves(g, m - 1)
      BY <2>1, <2>2
    <3> HIDE DEF Solves
    <3> QED BY <2>1, <3>1
  <2>3. CASE ~ (m - 1 > N)
    <3>1. m - 1 \in 1 .. N
      BY <1>4, <2>1, <2>3
    <3> DEFINE h == [n \in 1 .. N |-> IF n = m - 1 THEN J[<<g, m - 1>>] ELSE g[n]]
    <3>2. h \in [1 .. N -> V]
      BY <3>1
    <3>3. \A k \in 1 .. N : k > m - 1 => h[k] = g[k]
      BY <2>1
    <3>4. h[m - 1] = J[<<g, m - 1>>]
      BY <3>1
    <3> HIDE DEF h
    <3>5. ASSUME NEW n \in 1 .. N, n >= m - 1
          PROVE  h[n] = J[<<h, n>>]
      <4>1. \A k \in 1 .. N : k > n => h[k] = g[k]
        BY <2>1, <3>3, <3>5
      <4>2. J[<<h, n>>] = J[<<g, n>>]
        BY <3>2, <4>1
      <4>3. CASE n = m - 1
        BY <3>4, <4>2, <4>3
      <4>4. CASE n # m - 1
        <5>1. n >= m /\ n > m - 1
          BY <1>4, <3>5, <4>4
        <5>2. g[n] = J[<<g, n>>]
          BY <1>5, <5>1
        <5> QED BY <3>3, <4>2, <5>1, <5>2
      <4> QED BY <4>3, <4>4
    <3>6. Solves(h, m - 1)
      BY <3>5
    <3> HIDE DEF Solves
    <3> QED BY <2>1, <3>2, <3>6
  <2> QED BY <2>2, <2>3
<1>7. \A n \in 1 .. N : n >= m
  BY <1>6
<1> QED BY <1>5, <1>7

Values == {"true", "false"} \cup Mistakes

\* What is known of a tree.
LEMMA TreeIsOrdered ==
    ASSUME tree \in Trees
    PROVE  /\ Len(tree.nodes) \in Nat /\ DOMAIN tree.nodes = 1 .. Len(tree.nodes)
           /\ \A n \in DOMAIN tree.nodes :
                 /\ tree.nodes[n].kind \in {"leaf", "branch"}
                 /\ tree.nodes[n].kind = "branch" =>
                       /\ tree.nodes[n].kids \in Seq(Nat)
                       /\ \A i \in DOMAIN tree.nodes[n].kids :
                             /\ tree.nodes[n].kids[i] \in DOMAIN tree.nodes
                             /\ tree.nodes[n].kids[i] > n
           /\ tree.groups \in Seq(Groups)
           /\ \A g \in DOMAIN tree.groups : tree.groups[g].node \in DOMAIN tree.nodes
<1>1. tree.nodes \in Seq(Rules \cup Branches) /\ tree.groups \in Seq(Groups)
  BY RuleAssumption
<1>2. Len(tree.nodes) \in Nat /\ DOMAIN tree.nodes = 1 .. Len(tree.nodes)
  BY <1>1
<1>3. \A n \in DOMAIN tree.nodes : tree.nodes[n] \in Rules \cup Branches
  BY <1>1
<1>4. \A x \in Rules \cup Branches :
         x.kind \in {"leaf", "branch"} /\ (x.kind = "branch" => x.kids \in Seq(Nat))
  BY DEF Rules, Branches
<1>5. /\ \A g \in DOMAIN tree.groups : tree.groups[g].node \in DOMAIN tree.nodes
      /\ \A n \in DOMAIN tree.nodes : tree.nodes[n].kind = "branch" =>
            \A i \in DOMAIN tree.nodes[n].kids :
               tree.nodes[n].kids[i] \in DOMAIN tree.nodes /\ tree.nodes[n].kids[i] > n
  BY RuleAssumption
<1> QED BY <1>1, <1>2, <1>3, <1>4, <1>5

\* A child that decides, if there is one, has a first one before it.
LEMMA FirstDecides ==
    ASSUME NEW kids \in Seq(Nat), NEW S \in SUBSET DOMAIN kids, S # {}
    PROVE  (CHOOSE i \in S : \A j \in S : i <= j) \in S
<1>1. S \in SUBSET Nat
  OBVIOUS
<1> QED BY <1>1, LeastExists DEF Least

LEMMA LeafIsValue ==
    ASSUME NEW node, NEW row
    PROVE  Leaf(node, row) \in Values
BY DEF Leaf, Values, Mistakes

\* What a node evaluates to is a value, and depends on its children only.
LEMMA JudgeIsLocal ==
    ASSUME NEW node, NEW row, NEW v, NEW w, node.kind = "leaf" \/ node.kids \in Seq(Nat),
           node.kind # "leaf" =>
              \A i \in DOMAIN node.kids :
                 v[node.kids[i]] \in Values /\ v[node.kids[i]] = w[node.kids[i]]
    PROVE  Judge(v, node, row) \in Values /\ Judge(v, node, row) = Judge(w, node, row)
<1>1. CASE node.kind = "leaf"
  BY <1>1, LeafIsValue DEF Judge
<1>2. CASE node.kind # "leaf" /\ node.combinator \notin {"AND", "OR"}
  BY <1>2 DEF Judge, Values, Mistakes
<1>3. CASE node.kind # "leaf" /\ node.combinator \in {"AND", "OR"}
  <2> DEFINE D(x) == {i \in DOMAIN node.kids : x[node.kids[i]] # Neutral(node.combinator)}
             first == CHOOSE i \in D(v) : \A j \in D(v) : i <= j
  <2>1. D(v) = D(w)
    BY <1>3
  <2>2. /\ Judge(v, node, row) = IF D(v) = {} THEN Neutral(node.combinator)
                                 ELSE v[node.kids[first]]
        /\ Judge(w, node, row) = IF D(w) = {} THEN Neutral(node.combinator)
                                 ELSE w[node.kids[CHOOSE i \in D(w) : \A j \in D(w) : i <= j]]
    BY <1>3 DEF Judge
  <2>3. Neutral(node.combinator) \in Values
    BY DEF Neutral, Values
  <2>4. D(v) # {} => first \in DOMAIN node.kids
    <3>1. D(v) \in SUBSET DOMAIN node.kids
      OBVIOUS
    <3> HIDE DEF D
    <3> SUFFICES ASSUME D(v) # {} PROVE first \in D(v)
      BY <3>1
    <3> QED BY <1>3, <3>1, FirstDecides
  <2> HIDE DEF D
  <2> QED BY <1>3, <2>1, <2>2, <2>3, <2>4
<1> QED BY <1>1, <1>2, <1>3

LEMMA EvalUnfolds ==
    ASSUME tree \in Trees, NEW row
    PROVE  \A n \in DOMAIN tree.nodes :
              EvalNode(row)[n] = Judge(EvalNode(row), tree.nodes[n], row)
<1> DEFINE N == Len(tree.nodes)
           D == 1 .. N
           J == [p \in [D -> Values] \X D |-> Judge(p[1], tree.nodes[p[2]], row)]
<1>1. N \in Nat /\ DOMAIN tree.nodes = D
  BY TreeIsOrdered
<1>2. ASSUME NEW v \in [D -> Values], NEW w \in [D -> Values], NEW n \in D,
             \A k \in D : k > n => v[k] = w[k]
      PROVE  /\ Judge(v, tree.nodes[n], row) \in Values
             /\ Judge(v, tree.nodes[n], row) = Judge(w, tree.nodes[n], row)
  <2> DEFINE node == tree.nodes[n]
  <2>1. node.kind = "leaf" \/ node.kids \in Seq(Nat)
    BY <1>1, TreeIsOrdered
  <2>2. node.kind # "leaf" =>
           \A i \in DOMAIN node.kids :
              v[node.kids[i]] \in Values /\ v[node.kids[i]] = w[node.kids[i]]
    BY <1>1, <1>2, TreeIsOrdered
  <2> HIDE DEF node
  <2>3. Judge(v, node, row) \in Values /\ Judge(v, node, row) = Judge(w, node, row)
    BY <2>1, <2>2, JudgeIsLocal
  <2> QED BY <2>3 DEF node
<1>3. \A v \in [D -> Values], n \in D : Judge(v, tree.nodes[n], row) \in Values
  BY <1>2
<1> HIDE DEF D
<1>4. J \in [[D -> Values] \X D -> Values]
  BY <1>3
<1>5. \A v, w \in [D -> Values], n \in D :
         (\A k \in D : k > n => v[k] = w[k]) => J[<<v, n>>] = J[<<w, n>>]
  BY <1>2
<1>6. \A v \in [D -> Values], n \in D : J[<<v, n>>] = Judge(v, tree.nodes[n], row)
  OBVIOUS
<1>7. Values # {}
  BY DEF Values
<1> HIDE DEF J, N
<1>8. PICK g \in [D -> Values] : \A n \in D : g[n] = J[<<g, n>>]
  <2> HIDE DEF Values
  <2>1. J \in Recursions(N, Values)
    BY <1>4, <1>5 DEF Recursions, D
  <2>2. \E g \in [1 .. N -> Values] : \A n \in 1 .. N : g[n] = J[<<g, n>>]
    BY <1>1, <1>7, <2>1, SolutionExists
  <2> QED BY <2>2 DEF D
<1>9. g = [n \in DOMAIN tree.nodes |-> Judge(g, tree.nodes[n], row)]
  BY <1>1, <1>6, <1>8
<1>10. EvalNode(row) = CHOOSE f : f = [n \in DOMAIN tree.nodes |-> Judge(f, tree.nodes[n], row)]
  BY DEF EvalNode
<1>11. EvalNode(row) = [n \in DOMAIN tree.nodes |-> Judge(EvalNode(row), tree.nodes[n], row)]
  BY <1>9, <1>10
<1> QED BY <1>11

LEMMA HoldsIsLocal ==
    ASSUME NEW node, NEW row, NEW guess \in BOOLEAN, NEW v, NEW w,
           node.kind # "leaf" =>
              \A i \in DOMAIN node.kids : v[node.kids[i]] = w[node.kids[i]]
    PROVE  /\ Holds(v, node, row, guess) \in BOOLEAN
           /\ Holds(v, node, row, guess) = Holds(w, node, row, guess)
<1>1. CASE node.kind = "leaf"
  BY <1>1 DEF Holds
<1>2. CASE node.kind # "leaf" /\ node.combinator = "AND"
  BY <1>2 DEF Holds
<1>3. CASE node.kind # "leaf" /\ node.combinator = "OR"
  BY <1>3 DEF Holds
<1>4. CASE node.kind # "leaf" /\ node.combinator \notin {"AND", "OR"}
  BY <1>4 DEF Holds
<1> QED BY <1>1, <1>2, <1>3, <1>4

LEMMA MeaningUnfolds ==
    ASSUME tree \in Trees, NEW row, NEW guess \in BOOLEAN
    PROVE  \A n \in DOMAIN tree.nodes :
              Meaning(row, guess)[n] = Holds(Meaning(row, guess), tree.nodes[n], row, guess)
<1> DEFINE N == Len(tree.nodes)
           D == 1 .. N
           J == [p \in [D -> BOOLEAN] \X D |-> Holds(p[1], tree.nodes[p[2]], row, guess)]
<1>1. N \in Nat /\ DOMAIN tree.nodes = D
  BY TreeIsOrdered
<1>2. ASSUME NEW v \in [D -> BOOLEAN], NEW w \in [D -> BOOLEAN], NEW n \in D,
             \A k \in D : k > n => v[k] = w[k]
      PROVE  /\ Holds(v, tree.nodes[n], row, guess) \in BOOLEAN
             /\ Holds(v, tree.nodes[n], row, guess) = Holds(w, tree.nodes[n], row, guess)
  <2> DEFINE node == tree.nodes[n]
  <2>1. node.kind # "leaf" =>
           \A i \in DOMAIN node.kids : v[node.kids[i]] = w[node.kids[i]]
    BY <1>1, <1>2, TreeIsOrdered
  <2> HIDE DEF node
  <2>2. /\ Holds(v, node, row, guess) \in BOOLEAN
        /\ Holds(v, node, row, guess) = Holds(w, node, row, guess)
    BY <2>1, HoldsIsLocal
  <2> QED BY <2>2 DEF node
<1>3. \A v \in [D -> BOOLEAN], n \in D : Holds(v, tree.nodes[n], row, guess) \in BOOLEAN
  BY <1>2
<1> HIDE DEF D
<1>4. J \in [[D -> BOOLEAN] \X D -> BOOLEAN]
  BY <1>3
<1>5. \A v, w \in [D -> BOOLEAN], n \in D :
         (\A k \in D : k > n => v[k] = w[k]) => J[<<v, n>>] = J[<<w, n>>]
  BY <1>2
<1>6. \A v \in [D -> BOOLEAN], n \in D :
         J[<<v, n>>] = Holds(v, tree.nodes[n], row, guess)
  OBVIOUS
<1> HIDE DEF J, N
<1>7. PICK g \in [D -> BOOLEAN] : \A n \in D : g[n] = J[<<g, n>>]
  <2>1. J \in Recursions(N, BOOLEAN)
    BY <1>4, <1>5 DEF Recursions, D
  <2>2. \E g \in [1 .. N -> BOOLEAN] : \A n \in 1 .. N : g[n] = J[<<g, n>>]
    BY <1>1, <2>1, SolutionExists
  <2> QED BY <2>2 DEF D
<1>8. g = [n \in DOMAIN tree.nodes |-> Holds(g, tree.nodes[n], row, guess)]
  BY <1>1, <1>6, <1>7
<1>9. Meaning(row, guess) =
         CHOOSE f : f = [n \in DOMAIN tree.nodes |-> Holds(f, tree.nodes[n], row, guess)]
  BY DEF Meaning
<1>10. Meaning(row, guess) =
         [n \in DOMAIN tree.nodes |-> Holds(Meaning(row, guess), tree.nodes[n], row, guess)]
  BY <1>8, <1>9
<1> QED BY <1>10

\* A node that evaluates to true holds, one that evaluates to false does not.
Truthful(row, guess, n) ==
    /\ EvalNode(row)[n] = "true" => Meaning(row, guess)[n] = TRUE
    /\ EvalNode(row)[n] = "false" => Meaning(row, guess)[n] = FALSE

LEMMA JudgeIsTruthful ==
    ASSUME NEW node, NEW row, NEW guess \in BOOLEAN, NEW v, NEW h,
           node.kind = "leaf" \/ node.kids \in Seq(Nat),
           node.kind # "leaf" =>
              \A i \in DOMAIN node.kids :
                 /\ v[node.kids[i]] = "true" => h[node.kids[i]] = TRUE
                 /\ v[node.kids[i]] = "false" => h[node.kids[i]] = FALSE
    PROVE  /\ Judge(v, node, row) = "true" => Holds(h, node, row, guess) = TRUE
           /\ Judge(v, node, row) = "false" => Holds(h, node, row, guess) = FALSE
<1>1. CASE node.kind = "leaf"
  <2>1. Judge(v, node, row) = Leaf(node, row)
    BY <1>1 DEF Judge
  <2>2. Holds(h, node, row, guess) =
           IF Leaf(node, row) \in Mistakes THEN guess ELSE Leaf(node, row) = "true"
    BY <1>1 DEF Holds
  <2> QED BY <2>1, <2>2 DEF Mistakes
<1>2. CASE node.kind # "leaf" /\ node.combinator \notin {"AND", "OR"}
  BY <1>2 DEF Judge
<1>3. CASE node.kind # "leaf" /\ node.combinator \in {"AND", "OR"}
  <2> DEFINE D == {i \in DOMAIN node.kids : v[node.kids[i]] # Neutral(node.combinator)}
             first == CHOOSE i \in D : \A j \in D : i <= j
  <2>1. Judge(v, node, row) = IF D = {} THEN Neutral(node.combinator) ELSE v[node.kids[first]]
    BY <1>3 DEF Judge
  <2>2. D # {} => first \in DOMAIN node.kids /\ v[node.kids[first]] # Neutral(node.combinator)
    <3>1. D \in SUBSET DOMAIN node.kids
      OBVIOUS
    <3>2. \A i \in D : i \in DOMAIN node.kids /\ v[node.kids[i]] # Neutral(node.combinator)
      OBVIOUS
    <3> HIDE DEF D
    <3> SUFFICES ASSUME D # {} PROVE first \in D
      BY <3>2
    <3> QED BY <1>3, <3>1, FirstDecides
  <2>3. D = {} => \A i \in DOMAIN node.kids : v[node.kids[i]] = Neutral(node.combinator)
    OBVIOUS
  <2> HIDE DEF D, first
  <2>4. CASE node.combinator = "AND"
    <3>1. Holds(h, node, row, guess) = (\A i \in DOMAIN node.kids : h[node.kids[i]])
      BY <1>3, <2>4 DEF Holds
    <3>2. Neutral(node.combinator) = "true"
      BY <2>4 DEF Neutral
    <3>3. CASE D = {}
      <4>1. \A i \in DOMAIN node.kids : h[node.kids[i]] = TRUE
        BY <1>3, <2>3, <3>2, <3>3
      <4> QED BY <2>1, <3>1, <3>2, <3>3, <4>1
    <3>4. CASE D # {} /\ v[node.kids[first]] = "false"
      <4>1. h[node.kids[first]] = FALSE /\ first \in DOMAIN node.kids
        BY <1>3, <2>2, <3>4
      <4>2. Holds(h, node, row, guess) = FALSE
        BY <3>1, <4>1
      <4> QED BY <2>1, <3>4, <4>2
    <3> QED BY <2>1, <2>2, <3>2, <3>3, <3>4
  <2>5. CASE node.combinator = "OR"
    <3>1. Holds(h, node, row, guess) = (\E i \in DOMAIN node.kids : h[node.kids[i]])
      BY <1>3, <2>5 DEF Holds
    <3>2. Neutral(node.combinator) = "false"
      BY <2>5 DEF Neutral
    <3>3. CASE D = {}
      <4>1. \A i \in DOMAIN node.kids : h[node.kids[i]] = FALSE
        BY <1>3, <2>3, <3>2, <3>3
      <4>2. Holds(h, node, row, guess) = FALSE
        BY <3>1, <4>1
      <4> QED BY <2>1, <3>2, <3>3, <4>2
    <3>4. CASE D # {} /\ v[node.kids[first]] = "true"
      <4>1. h[node.kids[first]] = TRUE /\ first \in DOMAIN node.kids
        BY <1>3, <2>2, <3>4
      <4>2. Holds(h, node, row, guess) = TRUE
        BY <3>1, <4>1
      <4> QED BY <2>1, <3>4, <4>2
    <3> QED BY <2>1, <2>2, <3>2, <3>3, <3>4
  <2> QED BY <1>3, <2>4, <2>5
<1> QED BY <1>1, <1>2, <1>3

LEMMA NodesAreTruthful ==
    ASSUME tree \in Trees, NEW row, NEW guess \in BOOLEAN
    PROVE  \A n \in DOMAIN tree.nodes : Truthful(row, guess, n)
<1> DEFINE bad == {n \in DOMAIN tree.nodes : ~ Truthful(row, guess, n)}
<1> SUFFICES ASSUME bad # {} PROVE FALSE
  OBVIOUS
<1>1. Len(tree.nodes) \in Nat /\ DOMAIN tree.nodes = 1 .. Len(tree.nodes)
  BY TreeIsOrdered
<1>2. bad \in SUBSET Nat /\ \A n \in bad : n <= Len(tree.nodes)
  BY <1>1
<1> DEFINE n == Greatest(bad)
<1>3. n \in bad /\ \A k \in bad : k <= n
  <2> HIDE DEF bad
  <2> QED BY <1>1, <1>2, GreatestExists
<1> HIDE DEF n
<1>4. n \in DOMAIN tree.nodes /\ n \in Nat /\ ~ Truthful(row, guess, n)
  BY <1>1, <1>3
<1>5. \A k \in DOMAIN tree.nodes : k > n => Truthful(row, guess, k)
  <2> SUFFICES ASSUME NEW k \in DOMAIN tree.nodes, k > n, ~ Truthful(row, guess, k)
               PROVE  FALSE
    OBVIOUS
  <2>1. k \in bad /\ k \in Nat
    BY <1>1
  <2> QED BY <1>3, <1>4, <2>1
<1> DEFINE node == tree.nodes[n]
           v == EvalNode(row)
           h == Meaning(row, guess)
<1>6. node.kind = "leaf" \/ node.kids \in Seq(Nat)
  BY <1>4, TreeIsOrdered
<1>7. node.kind # "leaf" =>
         \A i \in DOMAIN node.kids :
            /\ v[node.kids[i]] = "true" => h[node.kids[i]] = TRUE
            /\ v[node.kids[i]] = "false" => h[node.kids[i]] = FALSE
  BY <1>4, <1>5, TreeIsOrdered DEF Truthful
<1>8. v[n] = Judge(v, node, row) /\ h[n] = Holds(h, node, row, guess)
  BY <1>4, EvalUnfolds, MeaningUnfolds
<1> HIDE DEF node, v, h
<1>9. /\ Judge(v, node, row) = "true" => Holds(h, node, row, guess) = TRUE
      /\ Judge(v, node, row) = "false" => Holds(h, node, row, guess) = FALSE
  BY <1>6, <1>7, JudgeIsTruthful
<1>10. (v[n] = "true" => h[n] = TRUE) /\ (v[n] = "false" => h[n] = FALSE)
  BY <1>8, <1>9
<1>11. Truthful(row, guess, n)
  BY <1>10 DEF Truthful, v, h
<1> QED BY <1>4, <1>11

-----------------------------------------------------------------------------
Active == stage \in {"validate", "generate"}

\* The first g - 1 groups do not fire on a row.
PassedOver(row, g) ==
    \A k \in 1 .. g - 1 :
       k \in DOMAIN tree.groups /\ EvalNode(row)[tree.groups[k].node] = "false"

\* The groups that were passed on the row at hand do not fire on it, and there is such a row.
RuleInv ==
    /\ Active => tree \in Trees
    /\ SignalsMeanTree
    /\ signals \in Seq(Actions) /\ group \in Nat \ {0}
    /\ Active => PassedOver(Rows[Len(signals) + 1], group)
    /\ (Active /\ group # 1) => Len(signals) < Len(Rows)

\* What one signal is: the matrix of SignalsMeanTree.
Fires(row, guess) ==
    {g \in DOMAIN tree.groups : Meaning(row, guess)[tree.groups[g].node]}

Explained(action, row, guess) ==
    action = IF Fires(row, guess) = {} THEN "HOLD"
             ELSE Emit(tree.groups[Least(Fires(row, guess))].action)

LEMMA SignalsAreExplained ==
    SignalsMeanTree <=> \A r \in DOMAIN signals : \A guess \in BOOLEAN :
                           Explained(signals[r], Rows[r], guess)
BY DEF SignalsMeanTree, Explained, Fires, Least

\* No group that was passed over is among those that fire.
LEMMA PassedDoNotFire ==
    ASSUME tree \in Trees, NEW row, NEW guess \in BOOLEAN, NEW g \in Nat, PassedOver(row, g)
    PROVE  /\ Fires(row, guess) \in SUBSET (DOMAIN tree.groups)
           /\ \A k \in Fires(row, guess) : k \in Nat /\ g <= k
<1>1. \A k \in DOMAIN tree.groups :
         k \in Nat \ {0} /\ tree.groups[k].node \in DOMAIN tree.nodes
  BY TreeIsOrdered
<1>2. ASSUME NEW k \in Fires(row, guess)
      PROVE  k \in Nat /\ g <= k
  <2>1. k \in DOMAIN tree.groups /\ Meaning(row, guess)[tree.groups[k].node]
    BY DEF Fires
  <2>2. k \in Nat \ {0} /\ tree.groups[k].node \in DOMAIN tree.nodes
    BY <1>1, <2>1
  <2>3. EvalNode(row)[tree.groups[k].node] # "false"
    BY <2>1, <2>2, NodesAreTruthful DEF Truthful
  <2>4. k \notin 1 .. g - 1
    BY <2>3 DEF PassedOver
  <2> QED BY <2>2, <2>4
<1> QED BY <1>2 DEF Fires

LEMMA FiringIsExplained ==
    ASSUME tree \in Trees, NEW row, NEW g \in DOMAIN tree.groups, PassedOver(row, g),
           EvalNode(row)[tree.groups[g].node] = "true", NEW guess \in BOOLEAN
    PROVE  Explained(Emit(tree.groups[g].action), row, guess)
<1>1. g \in Nat /\ tree.groups[g].node \in DOMAIN tree.nodes
  BY TreeIsOrdered
<1>2. g \in Fires(row, guess)
  BY <1>1, NodesAreTruthful DEF Truthful, Fires
<1>3. \A k \in Fires(row, guess) : k \in Nat /\ g <= k
  BY <1>1, PassedDoNotFire
<1>4. Least(Fires(row, guess)) = g
  <2>1. Fires(row, guess) \in SUBSET Nat
    BY <1>3
  <2> DEFINE S == Fires(row, guess)
  <2>2. Least(S) \in S /\ \A k \in S : Least(S) <= k
    BY <1>2, <2>1, LeastExists
  <2>3. Least(S) <= g /\ g <= Least(S) /\ Least(S) \in Nat
    BY <1>2, <1>3, <2>2
  <2> QED BY <1>1, <2>3
<1> QED BY <1>2, <1>4 DEF Explained

LEMMA DefaultIsExplained ==
    ASSUME tree \in Trees, NEW row, NEW g \in Nat, PassedOver(row, g),
           g > Len(tree.groups), NEW guess \in BOOLEAN
    PROVE  Explained("HOLD", row, guess)
<1>1. Len(tree.groups) \in Nat /\ DOMAIN tree.groups = 1 .. Len(tree.groups)
  BY TreeIsOrdered
<1>2. Fires(row, guess) = {}
  <2> SUFFICES ASSUME NEW k \in Fires(row, guess) PROVE FALSE
    OBVIOUS
  <2>1. k \in 1 .. Len(tree.groups) /\ g <= k
    BY <1>1, PassedDoNotFire
  <2> QED BY <1>1, <2>1
<1> QED BY <1>2 DEF Explained

-----------------------------------------------------------------------------
LEMMA RuleStart == Init => RuleInv
<1>1. ASSUME signals = <<>>, group = 1, Active => tree \in Trees
      PROVE  RuleInv
  <2>1. DOMAIN signals = {} /\ signals \in Seq(Actions)
    BY <1>1
  <2>2. SignalsMeanTree
    BY <2>1 DEF SignalsMeanTree
  <2>3. \A row : PassedOver(row, 1)
    BY DEF PassedOver
  <2> QED BY <1>1, <2>1, <2>2, <2>3 DEF RuleInv
<1>2. RuleInit => signals = <<>> /\ group = 1 /\ tree \in Trees
  BY DEF RuleInit
<1>3. NoRule => signals = <<>> /\ group = 1 /\ ~ Active
  BY DEF NoRule, Active
<1> QED BY <1>1, <1>2, <1>3 DEF Init

\* Steps leave the tree alone, and with it what a signal means.
LEMMA MeaningStays ==
    ASSUME UNCHANGED <<tree, longOnly>>, (stage = "validate") = (stage' = "validate"), NEW row
    PROVE  /\ EvalNode(row)' = EvalNode(row)
           /\ \A g : PassedOver(row, g)' = PassedOver(row, g)
           /\ \A x, guess : Explained(x, row, guess)' = Explained(x, row, guess)
<1>1. ASSUME NEW guess PROVE Meaning(row, guess)' = Meaning(row, guess)
  BY DEF Meaning
<1>2. EvalNode(row)' = EvalNode(row)
  BY DEF EvalNode
<1>3. ASSUME NEW guess PROVE Fires(row, guess)' = Fires(row, guess)
  BY <1>1 DEF Fires
<1>4. ASSUME NEW x PROVE Emit(x)' = Emit(x)
  BY DEF Emit
<1>5. ASSUME NEW x, NEW guess PROVE Explained(x, row, guess)' = Explained(x, row, guess)
  BY <1>3, <1>4 DEF Explained
<1>6. ASSUME NEW g PROVE PassedOver(row, g)' = PassedOver(row, g)
  BY <1>2 DEF PassedOver
<1> QED BY <1>2, <1>5, <1>6

\* All signals are explained if each is, said of the next state.
LEMMA NextIsExplained ==
    ASSUME UNCHANGED <<tree, longOnly>>, (stage = "validate") = (stage' = "validate"),
           \A r \in DOMAIN signals' : \A guess \in BOOLEAN :
              Explained(signals'[r], Rows'[r], guess)
    PROVE  SignalsMeanTree'
<1>1. ASSUME NEW r \in DOMAIN signals', NEW guess \in BOOLEAN
      PROVE  Explained(signals[r], Rows[r], guess)'
  <2> DEFINE x == signals'[r]
             row == Rows'[r]
  <2>1. Explained(x, row, guess)
    OBVIOUS
  <2>2. Meaning(row, guess) = (Meaning(Rows[r], guess))'
    BY DEF Meaning
  <2>3. Fires(row, guess) = Fires(Rows[r], guess)'
    BY <2>2 DEF Fires
  <2>4. \A y : Emit(y)' = Emit(y)
    BY DEF Emit
  <2> QED BY <2>1, <2>3, <2>4 DEF Explained
<1> QED BY <1>1 DEF SignalsMeanTree, Explained, Fires, Least

\* A signal more that is explained, on the next row, and the groups begin anew.
LEMMA SignalAdded ==
    ASSUME RuleInv, Active, NEW a \in Actions, signals' = Append(signals, a), group' = 1,
           UNCHANGED <<tree, table, longOnly, stage>>,
           \A guess \in BOOLEAN : Explained(a, Rows[Len(signals) + 1], guess)
    PROVE  RuleInv'
<1>1. signals \in Seq(Actions) /\ Len(signals) \in Nat /\ DOMAIN signals = 1 .. Len(signals)
  BY DEF RuleInv
<1>2. /\ signals' \in Seq(Actions)
      /\ DOMAIN signals' = 1 .. Len(signals) + 1
      /\ signals'[Len(signals) + 1] = a
      /\ \A r \in 1 .. Len(signals) : signals'[r] = signals[r]
  BY <1>1
<1>3. Rows' = Rows
  BY DEF Rows
<1>4. \A r \in DOMAIN signals : \A guess \in BOOLEAN : Explained(signals[r], Rows[r], guess)
  BY SignalsAreExplained DEF RuleInv
<1>5. ASSUME NEW r \in DOMAIN signals', NEW guess \in BOOLEAN
      PROVE  Explained(signals'[r], Rows'[r], guess)
  <2>1. CASE r = Len(signals) + 1
    BY <1>2, <1>3, <2>1
  <2>2. CASE r # Len(signals) + 1
    <3>1. r \in 1 .. Len(signals)
      BY <1>1, <1>2, <2>2
    <3> QED BY <1>1, <1>2, <1>3, <1>4, <3>1
  <2> QED BY <2>1, <2>2
<1>6. SignalsMeanTree'
  BY <1>5, NextIsExplained
<1>7. (Active => PassedOver(Rows[Len(signals) + 1], group))'
  BY DEF PassedOver
<1> QED BY <1>2, <1>6, <1>7 DEF RuleInv, Active

\* The signals stay as they are, and so does the row at hand.
LEMMA SignalsStay ==
    ASSUME RuleInv, UNCHANGED <<tree, table, longOnly, signals>>,
           (stage = "validate") = (stage' = "validate")
    PROVE  SignalsMeanTree' /\ Rows' = Rows
<1>1. Rows' = Rows
  BY DEF Rows
<1>2. \A r \in DOMAIN signals : \A guess \in BOOLEAN : Explained(signals[r], Rows[r], guess)
  BY SignalsAreExplained DEF RuleInv
<1>3. SignalsMeanTree'
  BY <1>1, <1>2, NextIsExplained
<1> QED BY <1>1, <1>3

\* The signals of the dry run are dropped.
LEMMA SignalsDropped ==
    ASSUME RuleInv, tree \in Trees, UNCHANGED tree, signals' = <<>>, group' = 1
    PROVE  RuleInv'
<1>1. DOMAIN signals' = {} /\ signals' \in Seq(Actions)
  OBVIOUS
<1>2. SignalsMeanTree'
  BY <1>1 DEF SignalsMeanTree
<1>3. PassedOver(Rows[Len(signals) + 1], group)'
  BY DEF PassedOver
<1> QED BY <1>1, <1>2, <1>3 DEF RuleInv

LEMMA ActionsAreEmitted ==
    ASSUME tree \in Trees, NEW g \in DOMAIN tree.groups
    PROVE  Emit(tree.groups[g].action) \in Actions
<1>1. tree.groups[g] \in Groups
  BY TreeIsOrdered
<1>2. tree.groups[g].action \in Actions /\ "HOLD" \in Actions
  BY <1>1 DEF Groups, Actions
<1> HIDE DEF Actions
<1> QED BY <1>2 DEF Emit

LEMMA RuleStep == RuleInv /\ RuleNext => RuleInv'
<1> SUFFICES ASSUME RuleInv, RuleNext
             PROVE  RuleInv'
  OBVIOUS
<1> DEFINE row == Rows[Len(signals) + 1]
<1>1. Active /\ tree \in Trees /\ PassedOver(row, group) /\ group \in Nat \ {0}
  <2>1. Active
    BY DEF RuleNext, Fire, Pass, Default, Raise, Finish, RowsLeft, Active
  <2> QED BY <2>1 DEF RuleInv
<1>2. Len(tree.groups) \in Nat /\ DOMAIN tree.groups = 1 .. Len(tree.groups)
  BY <1>1, TreeIsOrdered
<1>3. signals \in Seq(Actions) /\ Len(signals) \in Nat
  BY DEF RuleInv
<1>4. CASE Fire
  <2>1. /\ group \in DOMAIN tree.groups
        /\ EvalNode(row)[tree.groups[group].node] = "true"
    BY <1>1, <1>2, <1>4 DEF Fire, Current
  <2> DEFINE a == Emit(tree.groups[group].action)
  <2>2. a \in Actions
    BY <1>1, <2>1, ActionsAreEmitted
  <2>3. \A guess \in BOOLEAN : Explained(a, row, guess)
    BY <1>1, <2>1, FiringIsExplained
  <2>4. /\ signals' = Append(signals, a) /\ group' = 1
        /\ UNCHANGED <<tree, table, longOnly, stage>>
    BY <1>4 DEF Fire
  <2> HIDE DEF a
  <2> QED BY <1>1, <2>2, <2>3, <2>4, SignalAdded
<1>5. CASE Pass
  <2>1. /\ group \in DOMAIN tree.groups /\ group' = group + 1
        /\ EvalNode(row)[tree.groups[group].node] = "false"
        /\ Len(signals) < Len(Rows)
        /\ UNCHANGED <<tree, table, longOnly, stage, signals>>
    BY <1>1, <1>2, <1>5 DEF Pass, Current, RowsLeft
  <2>2. PassedOver(row, group + 1)
    BY <1>1, <2>1 DEF PassedOver
  <2>3. stage' = stage /\ tree' = tree /\ group' = group + 1
    BY <2>1
  <2>4. SignalsMeanTree' /\ Rows' = Rows
    BY <2>1, <2>3, SignalsStay
  <2>5. PassedOver(Rows[Len(signals) + 1], group)'
    <3>1. EvalNode(Rows[Len(signals) + 1])' = EvalNode(row)
      BY <2>1, <2>4 DEF EvalNode
    <3> HIDE DEF row
    <3> QED BY <2>2, <2>3, <3>1 DEF PassedOver
  <2> QED BY <1>1, <1>3, <2>1, <2>4, <2>5 DEF RuleInv, Active
<1>6. CASE Default
  <2>1. /\ group > Len(tree.groups) /\ signals' = Append(signals, "HOLD") /\ group' = 1
        /\ UNCHANGED <<tree, table, longOnly, stage>>
    BY <1>6 DEF Default
  <2>2. \A guess \in BOOLEAN : Explained("HOLD", row, guess)
    BY <1>1, <2>1, DefaultIsExplained
  <2>3. "HOLD" \in Actions
    BY DEF Actions
  <2> QED BY <1>1, <2>1, <2>2, <2>3, SignalAdded
<1>7. CASE Raise
  <2>1. CASE stage = "validate"
    <3>1. signals' = <<>> /\ group' = 1 /\ UNCHANGED tree
      BY <1>7, <2>1 DEF Raise
    <3> QED BY <1>1, <3>1, SignalsDropped
  <2>2. CASE stage # "validate"
    <3>1. /\ stage' \in Mistakes
          /\ UNCHANGED <<tree, table, longOnly, signals, group>>
      BY <1>7, <2>2 DEF Raise
    <3>2. stage' # "validate" /\ ~ Active'
      BY <3>1 DEF Mistakes, Active
    <3>3. SignalsMeanTree'
      BY <2>2, <3>1, <3>2, SignalsStay
    <3> QED BY <1>1, <1>3, <3>1, <3>2, <3>3 DEF RuleInv
  <2> QED BY <2>1, <2>2
<1>8. CASE Finish
  <2>1. group' = group /\ group = 1 /\ UNCHANGED <<tree, table, longOnly>>
    <3>1. ~ (Len(signals) < Len(Rows))
      BY <1>3, <1>8 DEF Finish
    <3> QED BY <1>1, <1>8, <3>1 DEF Finish, RuleInv
  <2>2. CASE stage = "validate"
    <3>1. signals' = <<>>
      BY <1>8, <2>2 DEF Finish
    <3> QED BY <1>1, <2>1, <3>1, SignalsDropped
  <2>3. CASE stage # "validate"
    <3>1. stage' = "done" /\ UNCHANGED signals
      BY <1>8, <2>3 DEF Finish
    <3>2. SignalsMeanTree'
      BY <2>1, <2>3, <3>1, SignalsStay
    <3> QED BY <1>1, <1>3, <2>1, <3>1, <3>2 DEF RuleInv, Active
  <2> QED BY <2>2, <2>3
<1> QED BY <1>4, <1>5, <1>6, <1>7, <1>8 DEF RuleNext

LEMMA RuleRest == RuleInv /\ UNCHANGED ruleVars => RuleInv'
<1> SUFFICES ASSUME RuleInv, UNCHANGED ruleVars
             PROVE  RuleInv'
  OBVIOUS
<1>1. UNCHANGED <<tree, table, longOnly, stage, group, signals>>
  BY DEF ruleVars
<1>2. SignalsMeanTree' /\ Rows' = Rows
  <2>1. (stage = "validate") = (stage' = "validate")
    BY <1>1
  <2> QED BY <1>1, <2>1, SignalsStay
<1>3. (Active => PassedOver(Rows[Len(signals) + 1], group))'
  <2> DEFINE row == Rows[Len(signals) + 1]
  <2>1. Active' = Active /\ row' = row
    BY <1>1, <1>2 DEF Active
  <2>2. EvalNode(row)' = EvalNode(row)
    BY <1>1, <1>2 DEF EvalNode
  <2>3. Active => PassedOver(row, group)
    BY DEF RuleInv
  <2> HIDE DEF row
  <2> QED BY <1>1, <2>1, <2>2, <2>3 DEF PassedOver, row
<1> QED BY <1>1, <1>2, <1>3 DEF RuleInv, Active

\* A signal is the action of the first group whose rules hold on its row, in whatever order
\* the rules are looked at, and the rules that were not looked at, or could not have been
\* evaluated, make no difference.  (_eval_node's all() and any(), and the break)
THEOREM SignalsAreMeant == Spec => []SignalsMeanTree
<1>1. RuleInv /\ [Next]_<<splitVars, ruleVars, selectionVars>> => RuleInv'
  <2>1. Next => RuleNext \/ UNCHANGED ruleVars
    BY DEF Next, RuleIdle
  <2>2. UNCHANGED <<splitVars, ruleVars, selectionVars>> => UNCHANGED ruleVars
    OBVIOUS
  <2> QED BY <2>1, <2>2, RuleStep, RuleRest
<1>2. RuleInv => SignalsMeanTree
  BY DEF RuleInv
<1>3. Spec => []RuleInv
  BY <1>1, RuleStart, PTL DEF Spec
<1> QED BY <1>2, <1>3, PTL
=============================================================================
