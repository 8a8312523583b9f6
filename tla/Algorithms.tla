----------------------------- MODULE Algorithms -----------------------------
(***************************************************************************)
(* The sequential algorithms of the engines side by side: a behaviour is a *)
(* job of Splits, a request of RuleEngine or a selection of                *)
(* ModelSelection.                                                         *)
(***************************************************************************)
EXTENDS Splits, RuleEngine, ModelSelection

SplitIdle == UNCHANGED splitVars
RuleIdle == UNCHANGED ruleVars
SelectionIdle == UNCHANGED selectionVars

NoTree == [nodes |-> <<>>, groups |-> <<>>]
NoTable == [columns |-> {}, rows |-> <<>>]
NoJob == [kind |-> "none", rows |-> 0]
NoTask == [kind |-> "none", candidates |-> 0]

NoSplit ==
    /\ job = NoJob /\ phase = "done" /\ at = 0
    /\ folds = [i \in {} |-> 0] /\ model = [i \in {} |-> 0] /\ paths = [c \in {} |-> 0]
    /\ reported = {}

NoRule ==
    /\ tree = NoTree /\ table = NoTable /\ longOnly = FALSE /\ stage = "done"
    /\ verdict = "none" /\ group = 1 /\ signals = <<>>

NoSelection ==
    /\ task = NoTask /\ progress = "failed"
    /\ study = <<>> /\ results = <<>> /\ leaderboard = <<>>

Init ==
    \/ SplitInit /\ NoRule /\ NoSelection
    \/ RuleInit /\ NoSplit /\ NoSelection
    \/ SelectionInit /\ NoSplit /\ NoRule

Next ==
    \/ SplitNext /\ RuleIdle /\ SelectionIdle
    \/ RuleNext /\ SplitIdle /\ SelectionIdle
    \/ SelectionNext /\ SplitIdle /\ RuleIdle

Spec == Init /\ [][Next]_<<splitVars, ruleVars, selectionVars>>
=============================================================================
