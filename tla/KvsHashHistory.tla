--------------------------- MODULE KvsHashHistory ---------------------------
(***************************************************************************)
(* KvsHash with a history variable: what its callers have stored.  It says *)
(* what they may expect of kvs_hash_find and kvs_hash_del, whatever the    *)
(* table holds.                                                            *)
(***************************************************************************)
EXTENDS KvsHash

VARIABLE stored     \* stored[k]: the value the last accepted add gave k, or None

HInit == Init /\ stored = [k \in Key |-> None]

HNext ==
  \/ \E k \in Key, v \in Val :
       Add(k, v) /\ stored' = IF res'.rv = -1 THEN stored ELSE [stored EXCEPT ![k] = v]
  \/ \E k \in Key : Del(k) /\ stored' = [stored EXCEPT ![k] = None]
  \/ \E k \in Key : (Find(k) \/ Fault(k)) /\ UNCHANGED stored
  \/ (Free \/ FreeTwice) /\ UNCHANGED stored

HSpec == HInit /\ [][HNext]_<<vars, stored>>

\* kvs_hash.c says of kvs_hash_del that it returns -1 when the key does not
\* exist: a key that was added and not deleted since does exist.
DelFailsOnlyForAbsentKeys ==
  [][\A k \in Key : Del(k) /\ res'.rv = -1 => stored[k] = None]_<<vars, stored>>
=============================================================================
