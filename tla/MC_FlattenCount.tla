---------------------------- MODULE MC_FlattenCount ----------------------------
EXTENDS FlattenCount

CONSTANTS noKey

(* Two COUNT columns and one other column; rows with up to two keys and   *)
(* values 1 or 2, the empty row included; lists of up to three rows.       *)
MCKeys == {"COUNT(*)", "COUNT(ALPHA)", "Num"}
MCCountKeys == {"COUNT(*)", "COUNT(ALPHA)"}
MCRows == UNION {[d -> 1..2] : d \in {d2 \in SUBSET MCKeys : d2 = {} \/ d2 # MCKeys}}
MCInputs == UNION {[1..n -> MCRows] : n \in 0..3}
=============================================================================
