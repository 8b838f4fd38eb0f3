----------------------------- MODULE PouchLock -----------------------------
(* The lock of core/pouch/index.js. Merge, Sync and the watchers take it   *)
(* before they read and write Pouch documents. It is a chain of promises:  *)
(* a request captures the promise at the end of the chain, waits for it,   *)
(* and puts in its place a promise that settles once that one has settled  *)
(* and the request itself was released.                                    *)
EXTENDS Naturals, Sequences, FiniteSets

CONSTANTS Client,                   \* the calls that may ask for the lock
          MaxRequests               \* bound: requests made in a behaviour

ASSUME MaxRequestsAssumption == MaxRequests \in Nat

VARIABLES nextLockId,               \* this.nextLockId
          lock,                     \* this._lock.id, the end of the chain
          awaited,                  \* awaited[id]: lock id of its pCurrent
          released,                 \* ids whose _resolve was called
          settled,                  \* ids whose promise in _lock has settled
          request,                  \* the id of the last request of a client
          pc                        \* what a client is doing

vars == <<nextLockId, lock, awaited, released, settled, request, pc>>

Ids == 1..(nextLockId - 1)

(* The constructor: lock 0 is an already resolved promise. *)
Init == /\ nextLockId = 1
        /\ lock = 0
        /\ awaited = [id \in {} |-> 0]
        /\ released = {}
        /\ settled = {0}
        /\ request = [c \in Client |-> 0]
        /\ pc = [c \in Client |-> "idle"]

(* A lock() that does not count its id. *)
LockUncounted(c) ==
  /\ pc[c] = "idle"
  /\ nextLockId <= MaxRequests
  /\ lock' = nextLockId
  /\ awaited' = [id \in 1..nextLockId |->
                   IF id = nextLockId THEN lock ELSE awaited[id]]
  /\ request' = [request EXCEPT ![c] = nextLockId]
  /\ pc' = [pc EXCEPT ![c] = "waiting"]
  /\ UNCHANGED <<nextLockId, released, settled>>

(* lock(): synchronous, up to the return of pCurrent.then(...). *)
Lock(c) ==
  /\ pc[c] = "idle"
  /\ nextLockId <= MaxRequests
  /\ nextLockId' = nextLockId + 1
  /\ lock' = nextLockId
  /\ awaited' = [id \in 1..nextLockId |->
                   IF id = nextLockId THEN lock ELSE awaited[id]]
  /\ request' = [request EXCEPT ![c] = nextLockId]
  /\ pc' = [pc EXCEPT ![c] = "waiting"]
  /\ UNCHANGED <<released, settled>>

(* A lock that is granted to anybody as soon as it is free. *)
AcquireBarging(c) ==
  /\ pc[c] = "waiting"
  /\ \A d \in Client : pc[d] # "holding"
  /\ pc' = [pc EXCEPT ![c] = "holding"]
  /\ UNCHANGED <<nextLockId, lock, awaited, released, settled, request>>

(* pCurrent has settled: the awaiting caller gets its release function. *)
Acquire(c) ==
  /\ pc[c] = "waiting"
  /\ awaited[request[c]] \in settled
  /\ pc' = [pc EXCEPT ![c] = "holding"]
  /\ UNCHANGED <<nextLockId, lock, awaited, released, settled, request>>

(* The caller's finally block calls release(), which calls _resolve(). *)
Release(c) ==
  /\ pc[c] = "holding"
  /\ released' = released \cup {request[c]}
  /\ pc' = [pc EXCEPT ![c] = "idle"]
  /\ UNCHANGED <<nextLockId, lock, awaited, settled, request>>

(* A chain that does not wait for the releases. *)
SettleUnreleased(id) ==
  /\ id \notin settled
  /\ awaited[id] \in settled
  /\ settled' = settled \cup {id}
  /\ UNCHANGED <<nextLockId, lock, awaited, released, request, pc>>

(* pCurrent.then(() => pReleased) settles, in a microtask of its own. *)
Settle(id) ==
  /\ id \notin settled
  /\ awaited[id] \in settled
  /\ id \in released
  /\ settled' = settled \cup {id}
  /\ UNCHANGED <<nextLockId, lock, awaited, released, request, pc>>

Next == \/ \E c \in Client : Lock(c) \/ Acquire(c) \/ Release(c)
        \/ \E id \in Ids : Settle(id)

Spec == Init /\ [][Next]_vars

(* Settled promises run their callbacks, and every critical section ends:  *)
(* all the callers of lock() release it in a finally block.                *)
FairSpec == /\ Spec
            /\ \A c \in Client : WF_vars(Acquire(c)) /\ WF_vars(Release(c))
            /\ \A id \in 1..MaxRequests : WF_vars(id \in Ids /\ Settle(id))
-----------------------------------------------------------------------------
TypeOK ==
  /\ nextLockId \in Nat \ {0}
  /\ lock \in Nat
  /\ awaited \in [Ids -> Nat]
  /\ released \subseteq Ids
  /\ settled \subseteq Nat
  /\ request \in [Client -> Nat]
  /\ pc \in [Client -> {"idle", "waiting", "holding"}]

(* Two calls are never both between the acquisition and the release of the *)
(* Pouch lock, whatever the number of requests chained.                    *)
MutualExclusion ==
  \A c, d \in Client : pc[c] = "holding" /\ pc[d] = "holding" => c = d

(* The lock is granted in the order of the calls: a call that holds it has *)
(* no older call still waiting for it.                                     *)
GrantedInOrder ==
  \A c, d \in Client :
    pc[c] = "holding" /\ pc[d] = "waiting" => request[c] < request[d]
-----------------------------------------------------------------------------
(* What the chain implements: the requests that are not released are the   *)
(* last ones, each owned by a client that is not idle.                     *)
gone == Cardinality(released)
Owner(id) == CHOOSE c \in Client : pc[c] # "idle" /\ request[c] = id

(* The clients that asked for the lock and did not release it yet.         *)
queueBar == [i \in 1..(nextLockId - 1 - gone) |-> Owner(gone + i)]
insideBar == {c \in Client : pc[c] = "holding"}

Abstract == INSTANCE FifoMutex WITH queue <- queueBar, inside <- insideBar

(* The promise chain implements a lock granted in the order of requests,   *)
(* and grants it to every request as long as its holders release it.       *)
ImplementsFifoMutex == Abstract!Spec
=============================================================================
