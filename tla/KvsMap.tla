------------------------------- MODULE KvsMap -------------------------------
(***************************************************************************)
(* What kvs_hash.h promises its callers: a dictionary from keys to values  *)
(* with four operations that each take effect at once.  Nothing of the     *)
(* table's layout is visible.  KvsHash implements this module.             *)
(***************************************************************************)
EXTENDS Integers

CONSTANTS Key,    \* keys: byte strings of a length below 2^31
          Val,    \* the values stored, void * in the code
          None    \* NULL: no value, not in Val

VARIABLES dict,   \* dict[k] is the value under k, or None
          res,    \* the last operation with what it returned to its caller
          open    \* FALSE once the table is freed

vars == <<dict, res, open>>

\* What a caller sees of a call: the return code, and the pointer that comes
\* back (the value found, replaced or removed).
Result(op, k, rv, v) == [op |-> op, key |-> k, rv |-> rv, val |-> v]

Init == /\ dict = [k \in Key |-> None]
        /\ res = Result("new", None, 0, None)
        /\ open = TRUE

\* A present key has its value replaced and handed back; an absent one is
\* inserted, unless memory runs out.
Add(k, v) ==
  /\ open
  /\ \/ /\ dict[k] # None
        /\ dict' = [dict EXCEPT ![k] = v]
        /\ res' = Result("add", k, 1, dict[k])
     \/ /\ dict[k] = None
        /\ dict' = [dict EXCEPT ![k] = v]
        /\ res' = Result("add", k, 0, None)
     \/ /\ dict[k] = None
        /\ res' = Result("add", k, -1, None)
        /\ UNCHANGED dict
  /\ UNCHANGED open

Find(k) ==
  /\ open
  /\ res' = Result("find", k, 0, dict[k])
  /\ UNCHANGED <<dict, open>>

Del(k) ==
  /\ open
  /\ res' = Result("del", k, IF dict[k] = None THEN -1 ELSE 0, dict[k])
  /\ dict' = [dict EXCEPT ![k] = None]
  /\ UNCHANGED open

Free ==
  /\ open
  /\ open' = FALSE
  /\ dict' = [k \in Key |-> None]
  /\ res' = Result("free", None, 0, None)

Next == \/ \E k \in Key, v \in Val : Add(k, v)
        \/ \E k \in Key : Find(k) \/ Del(k)
        \/ Free

Spec == Init /\ [][Next]_vars
=============================================================================
