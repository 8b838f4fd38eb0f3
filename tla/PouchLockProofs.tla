-------------------------- MODULE PouchLockProofs --------------------------
(* Mutual exclusion and ordering of the Pouch lock, for every set of       *)
(* clients and every number of requests.                                   *)
EXTENDS PouchLock, TLAPS

(* A client that is not idle owns an id that was not released yet. *)
Owned(c) == pc[c] # "idle" => request[c] \in Ids \ released

(* The chain: every request awaits the one issued just before it. *)
ChainOK == /\ lock = nextLockId - 1
           /\ \A id \in Ids : awaited[id] = id - 1

(* Promises settle from the beginning of the chain, and only when the      *)
(* requests they stand for were released.                                  *)
SettledOK == /\ settled \subseteq 0..(nextLockId - 1)
             /\ \A id \in settled : id # 0 => id \in released
             /\ \A id \in settled : \A older \in 0..id : older \in settled

ClientsOK ==
  /\ \A c \in Client : Owned(c)
  /\ \A c, d \in Client :
       pc[c] # "idle" /\ pc[d] # "idle" /\ request[c] = request[d] => c = d
  /\ \A c \in Client : pc[c] = "holding" => (request[c] - 1) \in settled

IInv == TypeOK /\ ChainOK /\ SettledOK /\ ClientsOK

(* The inductive invariant holds initially. *)
LEMMA InitEstablishesIInv == Init => IInv
<1> SUFFICES ASSUME Init PROVE IInv
  OBVIOUS
<1> USE DEF Init, Ids
<1>1. TypeOK
  BY DEF TypeOK
<1>2. ChainOK /\ SettledOK /\ ClientsOK
  BY DEF ChainOK, SettledOK, ClientsOK, Owned
<1> QED
  BY <1>1, <1>2 DEF IInv

(* A new request extends the chain and disturbs no earlier one. *)
LEMMA LockPreservesIInv ==
  ASSUME IInv, NEW c \in Client, Lock(c) PROVE IInv'
<1> USE DEF IInv, Ids
<1>1. /\ nextLockId \in Nat \ {0} /\ nextLockId' = nextLockId + 1
      /\ Ids' = 1..nextLockId /\ Ids \subseteq Ids' /\ nextLockId \notin Ids
  BY DEF TypeOK, Lock
<1>2. TypeOK'
  BY <1>1 DEF TypeOK, Lock
<1>3. ChainOK'
  BY <1>1 DEF TypeOK, ChainOK, Lock
<1>4. SettledOK'
  BY <1>1 DEF TypeOK, SettledOK, Lock
<1>5. ClientsOK'
  <2>1. \A d \in Client \ {c} : pc'[d] = pc[d] /\ request'[d] = request[d]
    BY DEF TypeOK, Lock
  <2>2. pc'[c] = "waiting" /\ request'[c] = nextLockId
    BY DEF TypeOK, Lock
  <2>3. \A d \in Client : Owned(d)'
    BY <1>1, <2>1, <2>2 DEF TypeOK, ClientsOK, Owned, Lock
  <2>4. \A d, e \in Client : pc'[d] # "idle" /\ pc'[e] # "idle"
                              /\ request'[d] = request'[e] => d = e
    BY <1>1, <2>1, <2>2 DEF TypeOK, ClientsOK, Owned
  <2>5. \A d \in Client : pc'[d] = "holding" => (request'[d] - 1) \in settled'
    BY <2>1, <2>2 DEF ClientsOK, Lock
  <2> QED
    BY <2>3, <2>4, <2>5 DEF ClientsOK
<1> QED
  BY <1>2, <1>3, <1>4, <1>5

(* Acquiring only happens once the awaited promise has settled. *)
LEMMA AcquirePreservesIInv ==
  ASSUME IInv, NEW c \in Client, Acquire(c) PROVE IInv'
<1> USE DEF IInv, Ids
<1>1. TypeOK' /\ ChainOK' /\ SettledOK'
  BY DEF TypeOK, ChainOK, SettledOK, Acquire
<1>2. awaited[request[c]] = request[c] - 1
  BY DEF TypeOK, ChainOK, ClientsOK, Owned, Acquire
<1>3. ClientsOK'
  BY <1>2 DEF TypeOK, ClientsOK, Owned, Acquire
<1> QED
  BY <1>1, <1>3

(* Releasing gives up an id that no other client owns. *)
LEMMA ReleasePreservesIInv ==
  ASSUME IInv, NEW c \in Client, Release(c) PROVE IInv'
<1> USE DEF IInv, Ids
<1>1. TypeOK' /\ ChainOK'
  BY DEF TypeOK, ChainOK, ClientsOK, Owned, Release
<1>2. SettledOK'
  BY DEF TypeOK, SettledOK, Release
<1>3. ClientsOK'
  BY DEF TypeOK, ClientsOK, Owned, Release
<1> QED
  BY <1>1, <1>2, <1>3

(* A promise settles next to a chain that has settled up to it. *)
LEMMA SettlePreservesIInv ==
  ASSUME IInv, NEW id \in Ids, Settle(id) PROVE IInv'
<1> USE DEF IInv, Ids
<1>1. TypeOK' /\ ChainOK' /\ ClientsOK'
  BY DEF TypeOK, ChainOK, ClientsOK, Owned, Settle
<1>2. id - 1 \in settled /\ id \in Nat /\ id # 0
  BY DEF TypeOK, ChainOK, Settle
<1>3. \A older \in 0..id : older = id \/ older \in 0..(id - 1)
  BY <1>2
<1>4. SettledOK'
  <2>1. settled' = settled \cup {id} /\ released' = released /\ id \in released
        /\ nextLockId' = nextLockId
    BY DEF Settle
  <2>2. settled' \subseteq 0..(nextLockId' - 1)
    BY <2>1, <1>2 DEF TypeOK, SettledOK
  <2>3. \A done \in settled' : done # 0 => done \in released'
    BY <2>1 DEF SettledOK
  <2>4. \A older \in 0..id : older \in settled'
    BY <2>1, <1>2, <1>3 DEF SettledOK
  <2>5. \A done \in settled' : \A older \in 0..done : older \in settled'
    BY <2>1, <2>4 DEF SettledOK
  <2> QED
    BY <2>2, <2>3, <2>5 DEF SettledOK
<1> QED
  BY <1>1, <1>4

LEMMA NextPreservesIInv == IInv /\ [Next]_vars => IInv'
<1> SUFFICES ASSUME IInv, [Next]_vars PROVE IInv'
  OBVIOUS
<1>1. CASE UNCHANGED vars
  BY <1>1 DEF IInv, TypeOK, ChainOK, SettledOK, ClientsOK, Owned, Ids, vars
<1>2. CASE Next
  BY <1>2, LockPreservesIInv, AcquirePreservesIInv, ReleasePreservesIInv,
     SettlePreservesIInv DEF Next
<1> QED
  BY <1>1, <1>2

(* A holder's predecessors in the chain have all settled, hence were all   *)
(* released: nobody older than a holder is still waiting or holding.       *)
LEMMA HolderIsOldest ==
  ASSUME IInv, NEW c \in Client, NEW d \in Client,
         pc[c] = "holding", pc[d] # "idle", c # d
  PROVE  request[c] < request[d]
<1>1. request[c] \in Ids /\ request[d] \in Ids \ released
  BY DEF IInv, TypeOK, ClientsOK, Owned
<1>2. request[c] \in Nat /\ request[d] \in Nat /\ request[d] # 0
  BY <1>1 DEF IInv, TypeOK, Ids
<1>3. request[c] # request[d]
  BY DEF IInv, ClientsOK
<1>4. request[d] \notin settled
  BY <1>1, <1>2 DEF IInv, SettledOK
<1>5. request[d] \notin 0..(request[c] - 1)
  BY <1>4 DEF IInv, SettledOK, ClientsOK
<1> QED
  BY <1>2, <1>3, <1>5

(* The chain of promises of Pouch.lock is a mutual exclusion lock.         *)
THEOREM LockIsMutex == Spec => []MutualExclusion
<1>1. IInv => MutualExclusion
  <2> SUFFICES ASSUME IInv, NEW c \in Client, NEW d \in Client,
                      pc[c] = "holding", pc[d] = "holding", c # d
               PROVE  FALSE
    BY DEF MutualExclusion
  <2>1. request[c] < request[d] /\ request[d] < request[c]
    BY HolderIsOldest
  <2>2. request[c] \in Nat /\ request[d] \in Nat
    BY DEF IInv, TypeOK
  <2> QED
    BY <2>1, <2>2
<1> QED
  BY <1>1, InitEstablishesIInv, NextPreservesIInv, PTL DEF Spec

(* No caller of Pouch.lock gets the lock before an older one.              *)
THEOREM LockIsFifo == Spec => []GrantedInOrder
<1>1. IInv => GrantedInOrder
  BY HolderIsOldest DEF GrantedInOrder
<1> QED
  BY <1>1, InitEstablishesIInv, NextPreservesIInv, PTL DEF Spec

(* The variables of the lock keep their types.                             *)
THEOREM LockTypeCorrect == Spec => []TypeOK
<1>1. IInv => TypeOK
  BY DEF IInv
<1> QED
  BY <1>1, InitEstablishesIInv, NextPreservesIInv, PTL DEF Spec
=============================================================================
