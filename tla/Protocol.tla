------------------------------- MODULE Protocol -------------------------------
(***************************************************************************)
(* The text a command handler answers with, computed from the integer an   *)
(* engine returned.  parse_protocol_to_string repeats these rules for each *)
(* of the four engines; they are stated once here.                         *)
(***************************************************************************)
EXTENDS Integers, FiniteSets, Sequences

\* What the server can answer besides a stored value, a range or a dump.
Status == {"SUCCESS", "ERROR", "EXIST", "NO EXIST", "EMPTY", "FAILED"}

\* SET, RSET, HSET, SSET
SetResponse(res) ==
    CASE res = 0 -> "SUCCESS"
      [] res < 0 -> "ERROR"
      [] res > 0 -> "EXIST"

\* DEL and its three siblings
DelResponse(res) ==
    CASE res < 0 -> "ERROR"
      [] res = 0 -> "SUCCESS"
      [] res > 0 -> "NO EXIST"

\* MOD and its three siblings
ModResponse(res) ==
    CASE res < 0 -> "ERROR"
      [] res = 0 -> "SUCCESS"
      [] res > 0 -> "NO EXIST"

\* EXIST and its three siblings
ExistResponse(res) == IF res = 0 THEN "EXIST" ELSE "NO EXIST"

\* RANGE when no item is returned; with res = 0 the answer is the item list.
RangeResponse(res) == IF res > 0 THEN "EMPTY" ELSE "ERROR"

\* qsort with compare_kvs_items over a set of <<key, value>> pairs: place r
\* goes to an item with fewer than r smaller keys.
SortByKey(items) ==
    LET Smaller(x) == {y \in items : y[1] < x[1]}
        NotGreater(x) == {y \in items : y[1] <= x[1]}
    IN  [r \in 1 .. Cardinality(items) |->
            CHOOSE x \in items :
                Cardinality(Smaller(x)) < r /\ r <= Cardinality(NotGreater(x))]
===============================================================================
