-------------------------------- MODULE KvsKv -------------------------------
(***************************************************************************)
(* What the server promises: every client asks one request at a time, each *)
(* request is carried out at one instant and its answer goes to the client *)
(* that asked.  No buffer, parser or event loop is visible.                *)
(***************************************************************************)
EXTENDS KvsCommand

CONSTANTS Client, Word, Request

VARIABLES dict,    \* dict[w] is the value under the word w
          here,    \* here[c]: client c is connected
          ask,     \* ask[c] is the request of c not yet carried out, or <<>>
          ans      \* ans[c] is the answer under way to c, or NoReply

vars == <<dict, here, ask, ans>>

Init == /\ dict = [w \in Word |-> Absent]
        /\ here = [c \in Client |-> FALSE]
        /\ ask = [c \in Client |-> <<>>]
        /\ ans = [c \in Client |-> NoReply]

Come(c) == /\ ~here[c] /\ ask[c] = <<>>
           /\ here' = [here EXCEPT ![c] = TRUE]
           /\ UNCHANGED <<dict, ask, ans>>

Ask(c, r) == /\ here[c] /\ ask[c] = <<>> /\ ans[c] = NoReply
             /\ ask' = [ask EXCEPT ![c] = r]
             /\ UNCHANGED <<dict, here, ans>>

\* A request is carried out even if its client has gone.
Do(c) == /\ ask[c] # <<>>
         /\ LET e == Execute(ask[c], dict)
            IN /\ dict' = e.store
               /\ ans' = [ans EXCEPT ![c] = IF here[c] THEN e.reply ELSE NoReply]
         /\ ask' = [ask EXCEPT ![c] = <<>>]
         /\ UNCHANGED here

Take(c) == /\ ans[c] # NoReply
           /\ ans' = [ans EXCEPT ![c] = NoReply]
           /\ UNCHANGED <<dict, here, ask>>

Go(c) == /\ here[c]
         /\ here' = [here EXCEPT ![c] = FALSE]
         /\ ans' = [ans EXCEPT ![c] = NoReply]
         /\ UNCHANGED <<dict, ask>>

Next == \E c \in Client : Come(c) \/ Do(c) \/ Take(c) \/ Go(c) \/ \E r \in Request : Ask(c, r)

Spec == Init /\ [][Next]_vars
=============================================================================
