----------------------------- MODULE FlattenCount -----------------------------
(***************************************************************************)
(* flatten_objects_for_count (query/mod.rs 351-393): when every row of a   *)
(* query result is one COUNT column, the rows are replaced by one row      *)
(* holding the total.  A row is a JSON object, modelled as a function from *)
(* its keys to its u64 values; a key name stands for itself and CountKeys  *)
(* are the names that start with "COUNT".  The two `all` scans, the loop   *)
(* over the rows and the unwraps that can panic are kept in their order.   *)
(* Which key keys().next() returns does not matter: when the scans accept, *)
(* the first row has exactly one key.  Values are small naturals: the u64  *)
(* sum of row counts is out of reach of overflow, and as_u64 succeeds on   *)
(* every COUNT value a query produces.                                     *)
(***************************************************************************)
EXTENDS Naturals, Sequences, Functions, TLC

CONSTANTS
    Keys,       \* column names
    CountKeys,  \* the ones that start with "COUNT"
    Inputs,     \* the row lists the function may be given
    NoKey       \* key before the first row's key is taken

ASSUME FlattenAssumption == CountKeys \subseteq Keys

VARIABLES
    objects,    \* the argument
    phase,      \* "start", "summing", "done" or "panic"
    j,          \* rows consumed by the summing loop
    key,        \* the key of the first row, once taken
    accum,      \* the running total
    out         \* the returned rows

vars == <<objects, phase, j, key, accum, out>>

(* The first `all`: every key of every row starts with "COUNT".           *)
AllCountKeys(objs) == \A r \in 1..Len(objs) : DOMAIN objs[r] \subseteq CountKeys

(* The second `all`: every key of every row equals the first key of the   *)
(* first row; it unwraps that key as soon as a row with a key is reached,  *)
(* so it panics when the first row is empty and another row is not.       *)
SameKeyAsFirst(objs) ==
    \E k0 \in DOMAIN objs[1] :
        /\ DOMAIN objs[1] = {k0}
        /\ \A r \in 1..Len(objs) : DOMAIN objs[r] \subseteq {k0}

(* Mutant: the flag only checks the COUNT prefix.                          *)
FlagPrefixOnly(objs) == AllCountKeys(objs)

(* Lines 357-367: `flag`, the conjunction of the two scans (short-circuit  *)
(* &&), for a first row that has a key.                                    *)
Flag(objs) == AllCountKeys(objs) /\ SameKeyAsFirst(objs)

(* Lines 352-354: an empty list is returned as it is.                      *)
ReturnEmpty ==
    /\ phase = "start" /\ Len(objects) = 0
    /\ out' = objects /\ phase' = "done"
    /\ UNCHANGED <<objects, j, key, accum>>

(* Lines 362-367 and 371-377 with an empty first row: either the second    *)
(* scan or the `let key` unwrap panics.                                    *)
FirstRowEmptyPanic ==
    /\ phase = "start" /\ Len(objects) > 0
    /\ AllCountKeys(objects) /\ DOMAIN objects[1] = {}
    /\ phase' = "panic"
    /\ UNCHANGED <<objects, j, key, accum, out>>

(* Lines 357-367 and 390-392: the flag is false; the rows come back as     *)
(* they are.                                                               *)
ReturnUnchanged ==
    /\ phase = "start" /\ Len(objects) > 0
    /\ \/ ~AllCountKeys(objects)
       \/ DOMAIN objects[1] # {} /\ ~Flag(objects)
    /\ out' = objects /\ phase' = "done"
    /\ UNCHANGED <<objects, j, key, accum>>

(* Lines 369-377: the flag holds; the first row's key is taken and the     *)
(* total starts at 0.                                                      *)
StartSum ==
    /\ phase = "start" /\ Len(objects) > 0
    /\ DOMAIN objects[1] # {} /\ Flag(objects)
    /\ key' \in DOMAIN objects[1]
    /\ accum' = 0 /\ j' = 0 /\ phase' = "summing"
    /\ UNCHANGED <<objects, out>>

(* Lines 379-385: one row; the fold adds the values of its keys (at most   *)
(* one here) to the total.                                                 *)
AddRow ==
    /\ phase = "summing" /\ j < Len(objects)
    /\ accum' = accum + SumFunction(objects[j + 1])
    /\ j' = j + 1
    /\ UNCHANGED <<objects, phase, key, out>>

(* Lines 387-389: the single row {key: total} is returned.                 *)
Emit ==
    /\ phase = "summing" /\ j = Len(objects)
    /\ out' = << key :> accum >> /\ phase' = "done"
    /\ UNCHANGED <<objects, j, key, accum>>

Init ==
    /\ objects \in Inputs
    /\ phase = "start" /\ j = 0 /\ accum = 0 /\ out = <<>>
    /\ key = NoKey

Next == ReturnEmpty \/ FirstRowEmptyPanic \/ ReturnUnchanged \/ StartSum \/ AddRow \/ Emit

Spec == Init /\ [][Next]_vars

-----------------------------------------------------------------------------
(* Properties.                                                             *)

(* Reference, from the function's test_flat tests: the rows are one      *)
(* COUNT column K when some row has K and no row has another key; then the *)
(* result is {K: the sum of the rows' values}, otherwise the rows.         *)
CountColumn(objs) ==
    {k \in CountKeys : /\ \E r \in 1..Len(objs) : k \in DOMAIN objs[r]
                       /\ \A r \in 1..Len(objs) : DOMAIN objs[r] \subseteq {k}}

Reference(objs) ==
    IF CountColumn(objs) = {} THEN objs
    ELSE LET k == CHOOSE k2 \in CountColumn(objs) : TRUE
         IN  << k :> SumFunction([r \in 1..Len(objs) |-> SumFunction(objs[r])]) >>

(* Whenever flatten_objects_for_count returns, it returns what its tests   *)
(* describe: one total row for a COUNT column, whatever the row count and  *)
(* key mix, the rows unchanged otherwise.                                  *)
FlattenMatchesReference ==
    phase = "done" => out = Reference(objects)

=============================================================================
