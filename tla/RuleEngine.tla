----------------------------- MODULE RuleEngine -----------------------------
(***************************************************************************)
(* The rule engine (rule_engine.py) and the two requests that run it: the  *)
(* dry run of POST /signals/validate-rule-tree on one row of zeros, and    *)
(* the generation of signals for the rows of a feature table.              *)
(*                                                                         *)
(* A tree is a table of nodes (a branch names its children, which have     *)
(* greater numbers) and a sequence of groups, each with an action and the  *)
(* node of its rules.  One step evaluates one group on one row.  A cell is *)
(* a number or NaN; a text is a value a rule compares with.                *)
(***************************************************************************)
EXTENDS Integers, Sequences

CONSTANTS
    Trees,      \* [nodes : sequence of nodes, groups : sequence of groups]
    Tables,     \* [columns : set of fields, rows : sequence of rows (field -> cell)]
    NaN,        \* the cell without a number
    Text        \* a text in a rule

Actions == {"BUY", "SELL", "HOLD"}
Comparisons == {">", "<", ">=", "<=", "==", "!="}
Mistakes == {"KeyError", "ValueError", "TypeError"}

Rules == [kind : {"leaf"}, field : STRING, operator : STRING, value : Int \cup {Text}]
Branches == [kind : {"branch"}, combinator : STRING, kids : Seq(Nat)]
Groups == [action : Actions, node : Nat]

ASSUME RuleAssumption ==
    /\ NaN \notin Int /\ Text \notin Int
    /\ Trees \subseteq [nodes : Seq(Rules \cup Branches), groups : Seq(Groups)]
    /\ \A t \in Trees :
          /\ \A g \in DOMAIN t.groups : t.groups[g].node \in DOMAIN t.nodes
          /\ \A n \in DOMAIN t.nodes : t.nodes[n].kind = "branch" =>
                \A i \in DOMAIN t.nodes[n].kids :
                   t.nodes[n].kids[i] \in DOMAIN t.nodes /\ t.nodes[n].kids[i] > n

VARIABLES
    tree,       \* the rule tree of the request
    table,      \* the table that signals are generated for
    longOnly,   \* position_mode = "long_only"
    stage,      \* "validate", "generate", "done" or a mistake that ended the request
    verdict,    \* the answer of the dry run: "none", "valid", "invalid" or "crashed"
    group,      \* the group that is evaluated next
    signals     \* the actions of the rows so far

ruleVars == <<tree, table, longOnly, stage, verdict, group, signals>>

-----------------------------------------------------------------------------
(***************************************************************************)
(* Evaluation of a node on a row: a Boolean or the exception it ends with. *)
(***************************************************************************)

Compare(operator, cell, value) ==
    CASE operator = "==" -> cell # NaN /\ cell = value
      [] operator = "!=" -> cell = NaN \/ cell # value
      [] cell = NaN      -> FALSE
      [] operator = ">"  -> cell > value
      [] operator = "<"  -> cell < value
      [] operator = ">=" -> cell >= value
      [] operator = "<=" -> cell <= value

\* _eval_leaf looks for the column first, then for the operator, then compares.
Leaf(node, row) ==
    CASE node.field \notin DOMAIN row -> "KeyError"
      [] node.operator \notin Comparisons -> "ValueError"
      [] node.value = Text /\ node.operator \notin {"==", "!="} -> "TypeError"
      [] OTHER -> IF Compare(node.operator, row[node.field], node.value) THEN "true" ELSE "false"

\* all() and any() look at the children in order and stop at the first that decides:
\* for AND the first that is not true, for OR the first that is not false.
Neutral(combinator) == IF combinator = "AND" THEN "true" ELSE "false"

\* value has what the nodes with greater numbers evaluate to.
Judge(value, node, row) ==
    IF node.kind = "leaf" THEN Leaf(node, row)
    ELSE IF node.combinator \notin {"AND", "OR"} THEN "ValueError"
    ELSE LET deciding == {i \in DOMAIN node.kids :
                              value[node.kids[i]] # Neutral(node.combinator)}
         IN  IF deciding = {} THEN Neutral(node.combinator)
             ELSE value[node.kids[CHOOSE i \in deciding : \A j \in deciding : i <= j]]

EvalNode(row) ==
    LET value[n \in DOMAIN tree.nodes] == Judge(value, tree.nodes[n], row)
    IN  value

-----------------------------------------------------------------------------
(***************************************************************************)
(* evaluate_rule_tree: rows, and for each the groups until one fires.      *)
(***************************************************************************)

\* The dry run has one row, in which every column is zero.
Rows == IF stage = "validate" THEN <<[f \in table.columns |-> 0]>> ELSE table.rows

Current == EvalNode(Rows[Len(signals) + 1])[tree.groups[group].node]

\* The dry run leaves the position mode at its default.
Emit(action) == IF stage # "validate" /\ longOnly /\ action = "SELL" THEN "HOLD" ELSE action

RowsLeft == stage \in {"validate", "generate"} /\ Len(signals) < Len(Rows)

\* Mutant: the group that fires only stops the search when it is the last one.
FireWithoutBreak ==
    /\ RowsLeft /\ group <= Len(tree.groups) /\ Current = "true"
    /\ IF group < Len(tree.groups)
       THEN group' = group + 1 /\ UNCHANGED signals
       ELSE group' = 1 /\ signals' = Append(signals, Emit(tree.groups[group].action))
    /\ UNCHANGED <<tree, table, longOnly, stage, verdict>>

Fire ==
    /\ RowsLeft /\ group <= Len(tree.groups) /\ Current = "true"
    /\ signals' = Append(signals, Emit(tree.groups[group].action))
    /\ group' = 1
    /\ UNCHANGED <<tree, table, longOnly, stage, verdict>>

Pass ==
    /\ RowsLeft /\ group <= Len(tree.groups) /\ Current = "false"
    /\ group' = group + 1
    /\ UNCHANGED <<tree, table, longOnly, stage, verdict, signals>>

Default ==
    /\ RowsLeft /\ group > Len(tree.groups)
    /\ signals' = Append(signals, "HOLD")
    /\ group' = 1
    /\ UNCHANGED <<tree, table, longOnly, stage, verdict>>

\* The dry run reports KeyError and ValueError and lets every other exception through; the
\* signals are generated all the same when the user asks for it.
Raise ==
    /\ RowsLeft /\ group <= Len(tree.groups) /\ Current \in Mistakes
    /\ IF stage = "validate"
       THEN /\ verdict' = IF Current = "TypeError" THEN "crashed" ELSE "invalid"
            /\ stage' = "generate" /\ group' = 1 /\ signals' = <<>>
       ELSE /\ stage' = Current
            /\ UNCHANGED <<verdict, group, signals>>
    /\ UNCHANGED <<tree, table, longOnly>>

Finish ==
    /\ stage \in {"validate", "generate"} /\ Len(signals) = Len(Rows)
    /\ IF stage = "validate"
       THEN verdict' = "valid" /\ stage' = "generate" /\ signals' = <<>>
       ELSE stage' = "done" /\ UNCHANGED <<verdict, signals>>
    /\ UNCHANGED <<tree, table, longOnly, group>>

-----------------------------------------------------------------------------
\* An empty tree is refused by the dry run and generates HOLD for every row.
RuleInit ==
    /\ tree \in Trees
    /\ table \in Tables
    /\ longOnly \in BOOLEAN
    /\ stage \in IF tree.groups = <<>> THEN {"generate"} ELSE {"validate", "generate"}
    /\ verdict = "none"
    /\ group = 1
    /\ signals = <<>>

RuleNext == Fire \/ Pass \/ Default \/ Raise \/ Finish

RuleSpec == RuleInit /\ [][RuleNext]_ruleVars

-----------------------------------------------------------------------------
(***************************************************************************)
(* Properties                                                              *)
(***************************************************************************)

\* What a tree means, without an order: every rule is true or false, and a rule that
\* cannot be evaluated is whatever guess says.
Holds(holds, node, row, guess) ==
    IF node.kind = "leaf"
    THEN IF Leaf(node, row) \in Mistakes THEN guess ELSE Leaf(node, row) = "true"
    ELSE CASE node.combinator = "AND" -> \A i \in DOMAIN node.kids : holds[node.kids[i]]
           [] node.combinator = "OR"  -> \E i \in DOMAIN node.kids : holds[node.kids[i]]
           [] OTHER -> guess

Meaning(row, guess) ==
    LET holds[n \in DOMAIN tree.nodes] == Holds(holds, tree.nodes[n], row, guess)
    IN  holds

\* Every signal is what the tree means on its row: the action of the first group whose
\* rules hold, HOLD when none does, and the rules that were not looked at, or could not have
\* been evaluated, make no difference.  (_eval_node's all() and any(), and the break)
SignalsMeanTree ==
    \A r \in DOMAIN signals : \A guess \in BOOLEAN :
       LET fires == {g \in DOMAIN tree.groups :
                        Meaning(Rows[r], guess)[tree.groups[g].node]}
       IN  signals[r] = IF fires = {} THEN "HOLD"
                        ELSE Emit(tree.groups[CHOOSE g \in fires : \A h \in fires : g <= h].action)
=============================================================================
