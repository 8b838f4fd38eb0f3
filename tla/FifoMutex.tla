----------------------------- MODULE FifoMutex -----------------------------
(* What Pouch.lock promises to the components that use it: a mutual        *)
(* exclusion lock granted in the order of the requests. The queue holds    *)
(* the clients that asked for the lock and did not release it yet, oldest  *)
(* request first; a client enters only from the head of the queue.         *)
EXTENDS Naturals, Sequences

CONSTANT Client                     \* the calls that may ask for the lock

VARIABLES queue,                    \* requests not yet released, oldest first
          inside                    \* the client that was granted the lock

vars == <<queue, inside>>

Queued(c) == \E i \in 1..Len(queue) : queue[i] = c

Init == queue = <<>> /\ inside = {}

Request(c) == /\ ~Queued(c)
              /\ queue' = Append(queue, c)
              /\ UNCHANGED inside

Enter(c) == /\ queue # <<>> /\ Head(queue) = c
            /\ inside = {}
            /\ inside' = {c}
            /\ UNCHANGED queue

Leave(c) == /\ inside = {c}
            /\ inside' = {}
            /\ queue' = Tail(queue)

Next == \E c \in Client : Request(c) \/ Enter(c) \/ Leave(c)

Safety == Init /\ [][Next]_vars

Spec == /\ Safety
        /\ \A c \in Client : WF_vars(Enter(c)) /\ WF_vars(Leave(c))
=============================================================================
