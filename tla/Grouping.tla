------------------------------ MODULE Grouping ------------------------------
(***************************************************************************)
(* The grouping of digits that the numeric and the monetary facet share.   *)
(* A rule is the size of a group, from the right; the last one repeats,    *)
(* and 0 leaves the rest as one group.                                     *)
(***************************************************************************)
EXTENDS Integers, Sequences, SequencesExt

RuleOf(grouping, k) == grouping[Min({k, Len(grouping)})]

(* add_grouping() *)
Grouped(figures, grouping, sep) ==
    LET from[digits \in Seq(STRING), k \in Nat] ==
            LET size == RuleOf(grouping, k)
                head == Len(digits) - size
            IN IF size = 0 \/ head <= 0 THEN digits
               ELSE from[SubSeq(digits, 1, head), k + 1] \o <<sep>> \o SubSeq(digits, head + 1, Len(digits))
    IN from[figures, 1]

(* verify_grouping(): only the group in front may fall short. *)
Follows(widths, grouping) ==
    \A k \in 1..Len(widths) :
        LET rule == RuleOf(grouping, Len(widths) - k + 1)
        IN IF k = 1 THEN rule = 0 \/ widths[1] <= rule ELSE widths[k] = rule
=============================================================================
