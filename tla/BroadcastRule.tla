---------------------------- MODULE BroadcastRule ----------------------------
(***************************************************************************)
(* The recurrence rules of scheduled broadcasts and the compare-and-set of *)
(* their table. The calendar is a grid: a rule fires every `every` ticks   *)
(* at the offset `at`, as an hourly, daily or weekly rule does on a clock  *)
(* without leaps. Time starts at 1; a due time of 0 is the code's null.    *)
(***************************************************************************)
EXTENDS Integers

CONSTANTS
    Rules,         \* the recurrence rules a user can choose
    MaxCandidates  \* occurrences the code walks over before it gives up

ASSUME RuleAssumption ==
    /\ Rules \subseteq [every: Nat \ {0}, at: Nat]
    /\ MaxCandidates \in Nat \ {0}

NoDue == 0
Due == Nat

(* computeNextDue: the first occurrence strictly after t.                  *)
NextDue(rule, t) ==
    CHOOSE k \in (t + 1)..(t + rule.every) : k % rule.every = rule.at % rule.every

(* firstDueAt: the first occurrence at or after t.                         *)
FirstDue(rule, t) == NextDue(rule, t - 1)

(* advancePastDue: walk from a missed due time to the first occurrence     *)
(* after t; null when it is further away than MaxCandidates occurrences.   *)
Walk(rule, due) ==
    {NextDue(rule, due) + i * rule.every : i \in 0..(MaxCandidates - 1)}

AdvancePastDue(rule, due, t) ==
    LET later == {k \in Walk(rule, due) : k > t}
    IN  IF later = {} THEN NoDue
        ELSE CHOOSE k \in later : \A other \in later : k <= other

(***************************************************************************)
(* A slot of the table, or of the renderer's copy of it.                   *)
(***************************************************************************)
Row == [here: BOOLEAN, on: BOOLEAN, rule: Rules, due: Due]
SomeRule == CHOOSE rule \in Rules : TRUE
Absent == [here |-> FALSE, on |-> FALSE, rule |-> SomeRule, due |-> NoDue]

(* The row an editor saves: an enabled one comes with its first due time.  *)
Edited(on, rule, t) ==
    [here |-> TRUE, on |-> on, rule |-> rule,
     due |-> IF on THEN FirstDue(rule, t) ELSE NoDue]

(* saveScheduledBroadcast with a due time only: merged with the stored row *)
(* or, when there is none, with the disabled default row.                  *)
WithDue(row, due) == [row EXCEPT !.here = TRUE, !.due = due]

(* claimScheduledBroadcastDue: UPDATE ... WHERE slot=? AND next_due_at=?   *)
ClaimableAlways(row, expected) == row.here  \* mutant: WHERE slot=? only
Claimable(row, expected) == row.here /\ row.due = expected
=============================================================================
