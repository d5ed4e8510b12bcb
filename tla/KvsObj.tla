------------------------------- MODULE KvsObj -------------------------------
(***************************************************************************)
(* Who owns the values: the objects of kvs_obj.c, from the request that    *)
(* brings one (kvs_net.c) through the commands of kvs_command.c into the   *)
(* table and out of it, when memory may run out in kvs_hash_add and in     *)
(* kvs_buf_append.  The table's structure is in KvsHash; here it is the    *)
(* pointer it holds under each key.                                        *)
(*                                                                         *)
(* An object is three blocks: the kvs_obj_t, the kvs_buf_t it points to,   *)
(* and the bytes.  A text is the sequence of the objects it was put        *)
(* together from.                                                          *)
(***************************************************************************)
EXTENDS Naturals, Sequences, FiniteSets

CONSTANTS Client, Key,
          Obj,        \* bound: the values that requests bring
          None,       \* the NULL pointer
          MemoryFails \* whether kvs_hash_node_new and realloc may fail

ASSUME ObjAssumption == None \notin Obj /\ MemoryFails \in BOOLEAN

VARIABLES
  table,   \* the object under each key, or None
  argv2,   \* what argv[2] of each client points to behind its last request
  held,    \* the blocks of each object that are allocated
  text,    \* what the bytes of an object say
  dict,    \* history: the text under each key that the answers speak of
  starved, \* history: the keys for which memory ran out since their last deletion
  kept,    \* history: the objects that were in the table at some time
  misused  \* a freed block was read or freed

vars == <<table, argv2, held, text, dict, starved, kept, misused>>

Blocks == {"obj", "buf", "bytes"}
NoText == <<>>

Init == /\ table = [k \in Key |-> None] /\ argv2 = [c \in Client |-> None]
        /\ held = [o \in Obj |-> {}] /\ text = [o \in Obj |-> NoText]
        /\ dict = [k \in Key |-> NoText] /\ starved = {} /\ kept = {}
        /\ misused = FALSE

Fresh(o) == held[o] = {}
Failures == IF MemoryFails THEN BOOLEAN ELSE {FALSE}

\* Mutant of Freed: the bytes stay.
FreedHeader(blocks) == blocks \ {"obj"}

\* kvs_obj_free, and kvs_buf_free in it: the kvs_buf_t stays.
Freed(blocks) == blocks \ {"obj", "bytes"}

\* The value of an object can be read, and freed.
Whole(o) == held[o] = Blocks

\* kvs_net_parse makes the object of the third word.
Arrives(o) == [held EXCEPT ![o] = Blocks]

GivenUp(h, o) == [h EXCEPT ![o] = Freed(@)]

\* Mutant of Left: argv[2] still points to the object that the table took.
LeftThere(o, taken) == o

\* What is in argv[2] behind a command with the value o.
Left(o, taken) == IF taken THEN None ELSE o

-----------------------------------------------------------------------------
(* The commands *)

\* Mutant of Replaced: the new object is freed.
ReplacedNew(k, o) == o

\* The object that kvs_cmd_set frees: the one kvs_hash_add put in place of its own.
Replaced(k, o) == table[k]

\* kvs_command_set when the key is there.
SetPresent(c, k, o) ==
  /\ table[k] # None /\ Fresh(o)
  /\ held' = GivenUp(Arrives(o), Replaced(k, o))
  /\ misused' = (misused \/ ~Whole(table[k]))
  /\ table' = [table EXCEPT ![k] = o]
  /\ argv2' = [argv2 EXCEPT ![c] = Left(o, TRUE)]
  /\ text' = [text EXCEPT ![o] = <<o>>]
  /\ dict' = [dict EXCEPT ![k] = <<o>>]
  /\ kept' = kept \cup {o}
  /\ UNCHANGED starved

\* Mutant of Under: the new node takes the place of another.
UnderOther(k, o) == [j \in Key |-> IF j = k THEN o ELSE None]

\* The new node of kvs_hash_add.
Under(k, o) == [table EXCEPT ![k] = o]

\* kvs_command_set, and kvs_command_append, when the key is not there.  What
\* kvs_hash_add returns is ignored: argv[2] is forgotten and the answer given.
AddAbsent(c, k, o, fails) ==
  /\ table[k] = None /\ Fresh(o)
  /\ held' = Arrives(o)
  /\ table' = IF fails THEN table ELSE Under(k, o)
  /\ argv2' = [argv2 EXCEPT ![c] = Left(o, TRUE)]
  /\ text' = [text EXCEPT ![o] = <<o>>]
  /\ dict' = [dict EXCEPT ![k] = <<o>>]
  /\ starved' = IF fails THEN starved \cup {k} ELSE starved \ {k}
  /\ kept' = IF fails THEN kept ELSE kept \cup {o}
  /\ UNCHANGED misused

\* kvs_command_append to a value that is there: its bytes grow by a copy.  The
\* answer is the length they have then, also when kvs_buf_append failed.
AppendPresent(c, k, o, fails) ==
  /\ table[k] # None /\ Fresh(o)
  /\ held' = Arrives(o)
  /\ misused' = (misused \/ ~Whole(table[k]))
  /\ text' = [text EXCEPT ![table[k]] = IF fails THEN @ ELSE Append(@, o), ![o] = <<o>>]
  /\ argv2' = [argv2 EXCEPT ![c] = Left(o, FALSE)]
  /\ dict' = [dict EXCEPT ![k] = IF fails THEN @ ELSE Append(@, o)]
  /\ UNCHANGED <<table, starved, kept>>

\* A request without a value: the array of the last one is gone.
Get(c, k) ==
  /\ misused' = (misused \/ (table[k] # None /\ ~Whole(table[k])))
  /\ argv2' = [argv2 EXCEPT ![c] = None]
  /\ UNCHANGED <<table, held, text, dict, starved, kept>>

Delete(c, k) ==
  /\ held' = IF table[k] = None THEN held ELSE GivenUp(held, table[k])
  /\ misused' = (misused \/ (table[k] # None /\ ~Whole(table[k])))
  /\ table' = [table EXCEPT ![k] = None]
  /\ argv2' = [argv2 EXCEPT ![c] = None]
  /\ dict' = [dict EXCEPT ![k] = NoText]
  /\ starved' = starved \ {k}
  /\ UNCHANGED <<text, kept>>

Next == \E c \in Client, k \in Key :
          \/ Get(c, k) \/ Delete(c, k)
          \/ \E o \in Obj : \/ SetPresent(c, k, o)
                            \/ \E fails \in Failures : AddAbsent(c, k, o, fails) \/ AppendPresent(c, k, o, fails)

Spec == Init /\ [][Next]_vars
-----------------------------------------------------------------------------
(* Properties *)

\* An object was never made, or is whole, or only its kvs_buf_t is left.
TypeOK ==
  /\ table \in [Key -> Obj \cup {None}] /\ argv2 \in [Client -> Obj \cup {None}]
  /\ held \in [Obj -> {{}, Blocks, {"buf"}}] /\ text \in [Obj -> Seq(Obj)]
  /\ dict \in [Key -> Seq(Obj)] /\ starved \subseteq Key /\ kept \subseteq Obj
  /\ misused \in BOOLEAN

Stored == {table[k] : k \in Key} \ {None}

\* What the table holds is whole, under one key, and no connection's: whatever two
\* clients set, append and delete, and though kvs_hash_add may fail
\* (kvs_command.c:23-26, 59-63, 71, 105-106).
OneOwner ==
  /\ \A o \in Stored : Whole(o) /\ \A c \in Client : argv2[c] # o
  /\ \A j, k \in Key : table[j] = table[k] /\ table[j] # None => j = k

\* No freed value is read, or freed again (kvs_obj.c:38-43).
NeverMisused == ~misused

\* What the answers said is what is stored, unless memory ran out for the key: then
\* nothing is stored under it, and the answer was +OK (kvs_command.c:70-75).
AnsweredIsStored ==
  \A k \in Key :
    IF k \in starved THEN table[k] = None
    ELSE dict[k] = IF table[k] = None THEN NoText ELSE text[table[k]]

\* What has left the table is freed, but for its kvs_buf_t; so only requests, and
\* no stored values, are lost as a whole (kvs_obj.c:38-43, kvs_str.c:229-239).
ReplacedIsFreed == \A o \in kept \ Stored : held[o] = {"buf"}
=============================================================================
