----------------------------- MODULE MCKvsServer ----------------------------
(***************************************************************************)
(* KvsServer with a few clients, words and requests.                       *)
(***************************************************************************)
EXTENDS KvsServer

CONSTANTS c1, c2

\* Two clients that share the key k, each with one whole request at a time.
Shared == [clients |-> {c1, c2}, depth |-> 1, parts |-> {}, partial |-> FALSE,
           requests |-> {<<"append", "k", "w">>, <<"get", "k">>, <<"del", "k">>}]

\* One client that sends requests ahead, in parts; among them a value that is also
\* the name of a command, a command without its key, and one without an answer.
Odd == [clients |-> {c1}, depth |-> 2, parts |-> {c1}, partial |-> TRUE,
        requests |-> {<<"set", "k", "get">>, <<"get">>, <<"llen", "k">>}]

\* One request, in parts.
Parted == [clients |-> {c1}, depth |-> 1, parts |-> {c1}, partial |-> FALSE,
           requests |-> {<<"set", "k", "v">>, <<"get", "k">>, <<"del", "k">>}]

SharedAndOdd == {Shared, Odd}
OnlyParted == {Parted}
MCWord == {"set", "get", "del", "append", "llen", "k", "v", "w"}
=============================================================================
