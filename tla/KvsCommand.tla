----------------------------- MODULE KvsCommand -----------------------------
(***************************************************************************)
(* The commands of kvs_command.c, as functions of the words of a request   *)
(* and of the stored values.  The store is the dictionary that KvsHash     *)
(* implements; a value is the sequence of the words set or appended, and   *)
(* its length the number of these words.                                   *)
(***************************************************************************)
EXTENDS Integers, Sequences

CONSTANTS OutputMax    \* a value this long does not fit into wbuf

Absent  == <<>>        \* no value
NoReply == [t |-> "none", v |-> Absent]
OK      == [t |-> "ok", v |-> Absent]          \* MSG_OK
Err     == [t |-> "err", v |-> Absent]         \* MSG_ERR
Count(n) == [t |-> "int", v |-> n]             \* MSG_TRUE, MSG_FALSE, ":%d"
Bulk(v) == [t |-> "bulk", v |-> v]

\* The words that each command looks at, its own name included: the handlers
\* of the list commands only write to the log.
Reads == [set |-> 3, get |-> 2, del |-> 2, append |-> 3,
          lpush |-> 1, rpush |-> 1, lange |-> 1, llen |-> 1, lpop |-> 1, rpop |-> 1, lterm |-> 1]

Known(name) == name \in DOMAIN Reads

\* What a command does: the reply it leaves, the store, and whether it keeps
\* the object of argv[2] for the store and sets argv[2] to NULL.
Effect(reply, store, kept) == [reply |-> reply, store |-> store, kept |-> kept]

\* What the table holds afterwards, or what it holds.
Stored(store, k, w)   == [store EXCEPT ![k] = <<w>>]        \* kvs_cmd_set
Found(store, k)       == store[k]                           \* kvs_cmd_get
Removed(store, k)     == [store EXCEPT ![k] = Absent]       \* kvs_cmd_del
Appended(store, k, w) == [store EXCEPT ![k] = Append(@, w)] \* kvs_cmd_append

Set(store, k, w) == Effect(OK, Stored(store, k, w), TRUE)

Get(store, k) ==
  Effect(IF Found(store, k) = Absent THEN Err
         ELSE IF Len(Found(store, k)) < OutputMax THEN Bulk(Found(store, k)) ELSE NoReply,
         store, FALSE)

Delete(store, k) ==
  Effect(Count(IF store[k] = Absent THEN 0 ELSE 1), Removed(store, k), FALSE)

AppendTo(store, k, w) ==
  Effect(Count(Len(store[k]) + 1), Appended(store, k, w), store[k] = Absent)

\* The list commands.
Silent(store) == Effect(NoReply, store, FALSE)

\* What kvs_command_process calls: an unknown command, and a list command,
\* leave no reply.
Execute(argv, store) ==
  CASE argv[1] = "set"    -> Set(store, argv[2], argv[3])
    [] argv[1] = "get"    -> Get(store, argv[2])
    [] argv[1] = "del"    -> Delete(store, argv[2])
    [] argv[1] = "append" -> AppendTo(store, argv[2], argv[3])
    [] OTHER              -> Silent(store)
=============================================================================
