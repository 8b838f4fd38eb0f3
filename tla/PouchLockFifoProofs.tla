------------------------ MODULE PouchLockFifoProofs ------------------------
(* The Pouch lock implements the FIFO mutex its callers rely on, for every *)
(* set of clients and every number of requests: each of its steps is a     *)
(* step of FifoMutex, or leaves the queue and the holder alone.            *)
EXTENDS PouchLockProofs, FiniteSetTheorems, SequenceTheorems

(* The released requests are the first ones, and the others have an owner. *)
ReleasedOK == /\ \E n \in 0..(nextLockId - 1) : released = 1..n
              /\ \A id \in Ids \ released :
                   \E c \in Client : pc[c] # "idle" /\ request[c] = id

Inv == IInv /\ ReleasedOK

LEMMA GoneIs ==
  ASSUME NEW n \in Nat, released = 1..n
  PROVE  gone = n
BY FS_Interval DEF gone

(* Every request below the one of a holder was released. *)
HoldersAreNext ==
  \A c \in Client : pc[c] = "holding" =>
    /\ gone \in Nat /\ released = 1..gone /\ gone < nextLockId
    /\ request[c] = gone + 1

LEMMA HolderIsNext == Inv => HoldersAreNext
<1> SUFFICES ASSUME Inv, NEW c \in Client, pc[c] = "holding"
             PROVE  /\ gone \in Nat /\ released = 1..gone /\ gone < nextLockId
                    /\ request[c] = gone + 1
  BY DEF HoldersAreNext
<1>0. /\ nextLockId \in Nat \ {0} /\ request[c] \in Ids \ released
      /\ (request[c] - 1) \in settled
  BY DEF Inv, IInv, TypeOK, ClientsOK, Owned
<1>1. PICK n \in 0..(nextLockId - 1) : released = 1..n
  BY DEF Inv, ReleasedOK
<1>2. n \in Nat /\ gone = n
  BY <1>0, <1>1, GoneIs
<1>3. request[c] - 1 = 0 \/ request[c] - 1 \in released
  BY <1>0 DEF Inv, IInv, SettledOK
<1> QED
  BY <1>0, <1>1, <1>2, <1>3 DEF Ids

(* Steps keep ReleasedOK *)

LEMMA NextReleasedOK == Inv /\ [Next]_vars => ReleasedOK'
<1> SUFFICES ASSUME Inv, [Next]_vars PROVE ReleasedOK'
  OBVIOUS
<1>0. /\ nextLockId \in Nat \ {0} /\ request \in [Client -> Nat]
      /\ pc \in [Client -> {"idle", "waiting", "holding"}]
  BY DEF Inv, IInv, TypeOK
<1>1. PICK n \in 0..(nextLockId - 1) : released = 1..n
  BY DEF Inv, ReleasedOK
<1>2. \A id \in Ids \ released :
        \E c \in Client : pc[c] # "idle" /\ request[c] = id
  BY DEF Inv, ReleasedOK
<1>3. ASSUME NEW c \in Client, Lock(c) PROVE ReleasedOK'
  <2>1. /\ nextLockId' = nextLockId + 1 /\ released' = released
        /\ pc'[c] # "idle" /\ request'[c] = nextLockId
        /\ \A d \in Client : pc[d] # "idle" =>
             d # c /\ pc'[d] = pc[d] /\ request'[d] = request[d]
    BY <1>0, <1>3 DEF Lock
  <2>2. n \in 0..(nextLockId' - 1) /\ released' = 1..n
    BY <1>0, <1>1, <2>1
  <2>3. ASSUME NEW id \in Ids' \ released'
        PROVE  \E d \in Client : pc'[d] # "idle" /\ request'[d] = id
    <3>1. id = nextLockId \/ id \in Ids \ released
      BY <1>0, <2>1 DEF Ids
    <3> QED
      BY <1>2, <2>1, <3>1
  <2> QED
    BY <2>2, <2>3 DEF ReleasedOK
<1>4. ASSUME NEW c \in Client, Acquire(c) PROVE ReleasedOK'
  <2>1. /\ nextLockId' = nextLockId /\ released' = released /\ Ids' = Ids
        /\ request' = request
        /\ \A d \in Client : pc[d] # "idle" => pc'[d] # "idle"
    BY <1>0, <1>4 DEF Acquire, Ids
  <2> QED
    BY <1>1, <1>2, <2>1 DEF ReleasedOK
<1>5. ASSUME NEW c \in Client, Release(c) PROVE ReleasedOK'
  <2>1. /\ nextLockId' = nextLockId /\ released' = released \cup {request[c]}
        /\ Ids' = Ids /\ request' = request
        /\ \A d \in Client \ {c} : pc'[d] = pc[d]
    BY <1>0, <1>5 DEF Release, Ids
  <2>2. request[c] = n + 1 /\ request[c] \in Ids
    BY <1>0, <1>1, <1>5, HolderIsNext, GoneIs
       DEF HoldersAreNext, Release, Inv, IInv, ClientsOK, Owned
  <2>3. n + 1 \in 0..(nextLockId' - 1) /\ released' = 1..(n + 1)
    BY <1>0, <1>1, <2>1, <2>2 DEF Ids
  <2>4. ASSUME NEW id \in Ids' \ released'
        PROVE  \E d \in Client : pc'[d] # "idle" /\ request'[d] = id
    BY <1>2, <2>1
  <2> QED
    BY <2>3, <2>4 DEF ReleasedOK
<1>6. ASSUME NEW id \in Ids, Settle(id) PROVE ReleasedOK'
  BY <1>1, <1>2, <1>6 DEF Settle, ReleasedOK, Ids
<1>7. CASE UNCHANGED vars
  BY <1>1, <1>2, <1>7 DEF vars, ReleasedOK, Ids
<1> QED
  BY <1>3, <1>4, <1>5, <1>6, <1>7 DEF Next

LEMMA NextInv == Inv /\ [Next]_vars => Inv'
BY NextPreservesIInv, NextReleasedOK DEF Inv

LEMMA InitInv == Init => Inv
<1> SUFFICES ASSUME Init PROVE Inv
  OBVIOUS
<1>1. released = 1..0 /\ 0 \in 0..(nextLockId - 1) /\ Ids = {}
  BY DEF Init, Ids
<1> QED
  BY <1>1, InitEstablishesIInv DEF Inv, ReleasedOK

(* The queue *)

(* The owner of a pending request is the client that made it. *)
LEMMA OwnerIs ==
  ASSUME Inv, NEW c \in Client, pc[c] # "idle"
  PROVE  Owner(request[c]) = c
BY DEF Inv, IInv, ClientsOK, Owner

(* The queue holds, in order, the clients whose requests are pending. *)
QueueOK ==
  /\ gone \in 0..(nextLockId - 1) /\ released = 1..gone
  /\ queueBar \in Seq({c \in Client : pc[c] # "idle"})
  /\ Len(queueBar) = nextLockId - 1 - gone
  /\ \A c \in Client : pc[c] # "idle" =>
       /\ request[c] - gone \in 1..Len(queueBar)
       /\ queueBar[request[c] - gone] = c

LEMMA QueueIsOK == Inv => QueueOK
<1> SUFFICES ASSUME Inv PROVE QueueOK
  OBVIOUS
<1>0. nextLockId \in Nat \ {0} /\ request \in [Client -> Nat]
  BY DEF Inv, IInv, TypeOK
<1>1. gone \in 0..(nextLockId - 1) /\ released = 1..gone
  BY <1>0, GoneIs DEF Inv, ReleasedOK
<1> DEFINE n == nextLockId - 1 - gone
<1>2. n \in Nat
  BY <1>0, <1>1
<1>3. ASSUME NEW i \in 1..n
      PROVE  /\ Owner(gone + i) \in Client /\ pc[Owner(gone + i)] # "idle"
             /\ request[Owner(gone + i)] = gone + i
  <2>1. gone + i \in Ids \ released
    BY <1>0, <1>1, <1>3 DEF Ids
  <2> QED
    BY <2>1 DEF Inv, ReleasedOK, Owner
<1>4. /\ queueBar \in Seq({c \in Client : pc[c] # "idle"})
      /\ Len(queueBar) = n
  BY <1>2, <1>3 DEF queueBar
<1>5. ASSUME NEW c \in Client, pc[c] # "idle"
      PROVE  request[c] - gone \in 1..n /\ queueBar[request[c] - gone] = c
  <2>1. request[c] \in Ids \ released
    BY <1>5 DEF Inv, IInv, ClientsOK, Owned
  <2>2. request[c] - gone \in 1..n /\ gone + (request[c] - gone) = request[c]
    BY <1>0, <1>1, <2>1 DEF Ids
  <2> QED
    BY <1>5, <2>2, OwnerIs DEF queueBar
<1> QED
  BY <1>1, <1>4, <1>5 DEF QueueOK

(* lock() puts its caller at the end of the queue. *)
LEMMA LockRequests ==
  ASSUME Inv, QueueOK, QueueOK', NEW c \in Client, Lock(c)
  PROVE  Abstract!Request(c)
<1>0. /\ nextLockId \in Nat \ {0} /\ request \in [Client -> Nat]
      /\ pc \in [Client -> {"idle", "waiting", "holding"}]
  BY DEF Inv, IInv, TypeOK
<1>1. /\ pc[c] = "idle" /\ nextLockId' = nextLockId + 1 /\ gone' = gone
      /\ pc'[c] = "waiting" /\ request'[c] = nextLockId
      /\ \A d \in Client \ {c} : pc'[d] = pc[d] /\ request'[d] = request[d]
  BY <1>0 DEF Lock, gone
<1>2. /\ gone \in 0..(nextLockId - 1) /\ released = 1..gone
      /\ queueBar \in Seq({d \in Client : pc[d] # "idle"})
      /\ Len(queueBar) = nextLockId - 1 - gone
  BY DEF QueueOK
<1>3. /\ queueBar' \in Seq({d \in Client : pc'[d] # "idle"})
      /\ Len(queueBar') = nextLockId - gone
      /\ \A d \in Client : pc'[d] # "idle" => queueBar'[request'[d] - gone] = d
  BY <1>0, <1>1 DEF QueueOK
<1>4. ~Abstract!Queued(c)
  BY <1>1, <1>2 DEF Abstract!Queued
<1>5. ASSUME NEW i \in 1..Len(queueBar) PROVE queueBar'[i] = queueBar[i]
  <2>1. queueBar[i] \in Client /\ pc[queueBar[i]] # "idle"
    BY <1>2
  <2>2. request[queueBar[i]] = gone + i
    <3>1. gone + i \in Ids \ released
      BY <1>0, <1>2 DEF Ids
    <3> QED
      BY <1>2, <3>1 DEF Inv, ReleasedOK, queueBar, Owner
  <2>3. queueBar[i] # c
    BY <1>1, <2>1
  <2> QED
    BY <1>1, <1>2, <1>3, <2>1, <2>2, <2>3
<1>6. queueBar'[Len(queueBar) + 1] = c
  <2>1. request'[c] - gone = Len(queueBar) + 1
    BY <1>0, <1>1, <1>2
  <2> QED
    BY <1>1, <1>3, <2>1
<1>7. queueBar' = Append(queueBar, c)
  BY <1>0, <1>1, <1>2, <1>3, <1>5, <1>6
<1>8. insideBar' = insideBar
  BY <1>0, <1>1 DEF insideBar
<1> QED
  BY <1>4, <1>7, <1>8 DEF Abstract!Request

(* The queue of a state is determined by who owns the pending requests. *)
LEMMA SameQueue ==
  ASSUME UNCHANGED <<nextLockId, released, request>>,
         \A c \in Client : pc'[c] # "idle" <=> pc[c] # "idle"
  PROVE  queueBar' = queueBar
BY DEF queueBar, gone, Owner

(* The client that gets the lock is the head of the queue. *)
LEMMA AcquireEnters ==
  ASSUME Inv, QueueOK, HoldersAreNext, HoldersAreNext',
         NEW c \in Client, Acquire(c)
  PROVE  Abstract!Enter(c)
<1>0. /\ pc \in [Client -> {"idle", "waiting", "holding"}]
      /\ request \in [Client -> Nat]
  BY DEF Inv, IInv, TypeOK
<1>1. /\ pc[c] = "waiting" /\ pc'[c] = "holding" /\ request' = request
      /\ nextLockId' = nextLockId /\ released' = released /\ gone' = gone
      /\ \A d \in Client \ {c} : pc'[d] = pc[d]
  BY <1>0 DEF Acquire, gone
<1>2. queueBar' = queueBar
  BY <1>1, SameQueue
<1>3. request[c] = gone + 1
  BY <1>1 DEF HoldersAreNext
<1>4. queueBar # <<>> /\ Head(queueBar) = c
  <2>1. gone \in Nat /\ request[c] - gone = 1
    BY <1>3 DEF QueueOK, Inv, IInv, TypeOK
  <2>2. 1 \in 1..Len(queueBar) /\ queueBar[1] = c
        /\ queueBar \in Seq({d \in Client : pc[d] # "idle"})
    BY <1>1, <2>1 DEF QueueOK
  <2> QED
    BY <2>2
<1>5. \A d \in Client : pc[d] # "holding"
  <2> SUFFICES ASSUME NEW d \in Client, pc[d] = "holding" PROVE FALSE
    OBVIOUS
  <2>1. request[d] = gone + 1
    BY DEF HoldersAreNext
  <2> QED
    BY <1>1, <1>3, <2>1 DEF Inv, IInv, ClientsOK
<1>6. insideBar = {} /\ insideBar' = {c}
  BY <1>1, <1>5 DEF insideBar
<1> QED
  BY <1>2, <1>4, <1>6 DEF Abstract!Enter

(* A release takes the head of the queue away. *)
LEMMA ReleaseLeaves ==
  ASSUME Inv, QueueOK, QueueOK', HoldersAreNext,
         NEW c \in Client, Release(c)
  PROVE  Abstract!Leave(c)
<1>0. /\ nextLockId \in Nat \ {0} /\ request \in [Client -> Nat]
      /\ pc \in [Client -> {"idle", "waiting", "holding"}]
  BY DEF Inv, IInv, TypeOK
<1>1. /\ pc[c] = "holding" /\ pc'[c] = "idle" /\ request' = request
      /\ nextLockId' = nextLockId /\ released' = released \cup {request[c]}
      /\ \A d \in Client \ {c} : pc'[d] = pc[d]
  BY <1>0 DEF Release
<1>2. /\ gone \in Nat /\ released = 1..gone /\ gone < nextLockId
      /\ request[c] = gone + 1
  BY <1>1 DEF HoldersAreNext
<1>3. released' = 1..(gone + 1) /\ gone' = gone + 1
  <2>1. released' = 1..(gone + 1)
    BY <1>1, <1>2
  <2> QED
    BY <1>2, <2>1, FS_Interval DEF gone
<1>4. /\ queueBar \in Seq({d \in Client : pc[d] # "idle"})
      /\ Len(queueBar) = nextLockId - 1 - gone
      /\ queueBar # <<>>
  BY <1>0, <1>1, <1>2 DEF QueueOK
<1>5. /\ queueBar' \in Seq({d \in Client : pc'[d] # "idle"})
      /\ Len(queueBar') = nextLockId - 1 - (gone + 1)
      /\ \A d \in Client : pc'[d] # "idle" =>
           queueBar'[request[d] - (gone + 1)] = d
  BY <1>1, <1>3 DEF QueueOK
<1>6. ASSUME NEW i \in 1..Len(queueBar')
      PROVE  queueBar'[i] = queueBar[i + 1]
  <2> DEFINE d == queueBar[i + 1]
  <2>1. i + 1 \in 1..Len(queueBar)
    <3>1. Len(queueBar') = Len(queueBar) - 1 /\ Len(queueBar) \in Nat
      BY <1>0, <1>2, <1>4, <1>5
    <3> QED
      BY <3>1
  <2>2. d \in Client /\ pc[d] # "idle"
    BY <1>4, <2>1
  <2>3. request[d] = gone + (i + 1)
    <3>1. gone + (i + 1) \in Ids \ released
      BY <1>0, <1>2, <1>4, <2>1 DEF Ids
    <3> QED
      BY <1>4, <2>1, <3>1 DEF Inv, ReleasedOK, queueBar, Owner
  <2>4. d # c /\ request[d] - (gone + 1) = i
    BY <1>2, <2>3
  <2> HIDE DEF d
  <2>5. queueBar'[i] = d
    BY <1>1, <1>5, <2>2, <2>4
  <2> QED
    BY <2>5 DEF d
<1>7. queueBar' = Tail(queueBar)
  <2>1. queueBar \in Seq(Client) /\ queueBar' \in Seq(Client)
    BY <1>4, <1>5
  <2>2. /\ Tail(queueBar) \in Seq(Client)
        /\ Len(Tail(queueBar)) = Len(queueBar')
        /\ \A i \in 1..Len(Tail(queueBar)) :
             Tail(queueBar)[i] = queueBar[i + 1]
    <3>1. Len(queueBar') = Len(queueBar) - 1
      BY <1>0, <1>2, <1>4, <1>5
    <3> QED
      BY <1>4, <2>1, <3>1, HeadTailProperties
  <2>3. \A i \in 1..Len(queueBar') : queueBar'[i] = Tail(queueBar)[i]
    BY <1>6, <2>2
  <2> QED
    BY <2>1, <2>2, <2>3, SeqEqual
<1>8. insideBar = {c} /\ insideBar' = {}
  <2>1. \A d \in Client : pc[d] = "holding" => d = c
    BY <1>1, <1>2 DEF HoldersAreNext, Inv, IInv, ClientsOK
  <2> QED
    BY <1>1, <2>1 DEF insideBar
<1> QED
  BY <1>7, <1>8 DEF Abstract!Leave

(* The promises that settle are no business of the callers. *)
LEMMA SettleStutters ==
  ASSUME NEW id \in Ids, Settle(id)
  PROVE  UNCHANGED Abstract!vars
BY SameQueue DEF Settle, insideBar, Abstract!vars

LEMMA StepRefines ==
  Inv /\ Inv' /\ [Next]_vars => [Abstract!Next]_(Abstract!vars)
<1> SUFFICES ASSUME Inv, Inv', [Next]_vars
             PROVE  Abstract!Next \/ UNCHANGED Abstract!vars
  OBVIOUS
<1>0. QueueOK /\ QueueOK' /\ HoldersAreNext /\ HoldersAreNext'
  BY QueueIsOK, HolderIsNext, PTL
<1>1. ASSUME NEW c \in Client, Lock(c) PROVE Abstract!Next
  BY <1>0, <1>1, LockRequests DEF Abstract!Next
<1>2. ASSUME NEW c \in Client, Acquire(c) PROVE Abstract!Next
  BY <1>0, <1>2, AcquireEnters DEF Abstract!Next
<1>3. ASSUME NEW c \in Client, Release(c) PROVE Abstract!Next
  BY <1>0, <1>3, ReleaseLeaves DEF Abstract!Next
<1>4. ASSUME NEW id \in Ids, Settle(id) PROVE UNCHANGED Abstract!vars
  BY <1>4, SettleStutters
<1>5. CASE UNCHANGED vars
  BY <1>5, SameQueue DEF vars, insideBar, Abstract!vars
<1> QED
  BY <1>1, <1>2, <1>3, <1>4, <1>5 DEF Next

(* Whatever its callers do, the promise chain of Pouch.lock behaves as a   *)
(* mutex with a queue: lock() joins the queue, the lock is only given to   *)
(* its head, and a release lets the next one in.                           *)
THEOREM LockImplementsFifoMutex == Spec => Abstract!Safety
<1>1. Init => Abstract!Init
  <2> SUFFICES ASSUME Init PROVE Abstract!Init
    OBVIOUS
  <2>1. nextLockId = 1 /\ gone = 0
    BY GoneIs DEF Init
  <2>2. queueBar = <<>> /\ insideBar = {}
    BY <2>1 DEF Init, queueBar, insideBar
  <2> QED
    BY <2>2 DEF Abstract!Init
<1> QED
  BY <1>1, InitInv, NextInv, StepRefines, PTL DEF Spec, Abstract!Safety
=============================================================================
