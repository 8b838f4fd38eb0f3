-------------------------- MODULE SyncLoopProofs ---------------------------
(* Invariants of the Sync loop, for any number of calls to start(), of      *)
(* closures, error codes and changes.                                       *)
EXTENDS SyncLoop, TLAPS

(* Every step is one of the named actions. *)
LEMMA Steps ==
  ASSUME [Next]_vars
  PROVE  \/ UNCHANGED vars
         \/ \E s \in Start :
              \/ CallStart(s) \/ BeginStart(s) \/ LocalStarted(s)
              \/ StartFails(s) \/ Started(s)
         \/ Stop \/ BeginStop \/ EndStop \/ NewChange \/ TimerFires
         \/ \E s \in Start :
              \/ OpenFeed(s) \/ FeedDelivers(s) \/ LeakedFeedDelivers(s)
              \/ AskLock(s) \/ Pick(s) \/ PickChange(s) \/ PickNothing(s)
              \/ Applied(s) \/ Postponed(s) \/ ApplyFatal(s)
              \/ \E code \in Code : ApplyBlocks(s, code)
         \/ \E w \in Watch :
              \/ WatchSucceeds(w) \/ WatchFatal(w)
              \/ \E code \in Code : WatchBlocks(w, code)
         \/ \E h \in Handler, c \in armed : IntervalFires(h, c)
         \/ UserAction("retry") \/ UserAction("skip")
         \/ \E h \in Handler :
              \/ Ping(h) \/ Retry(h) \/ Reached(h) \/ StillOffline(h)
              \/ Skip(h) \/ Saved(h) \/ RestartWatcher(h) \/ Unblock(h)
BY Zenon DEF Next, Microtask, Event, StartStep, LoopStep, WatchStep, PingEnds

(* The retry intervals *)

(* A step leaves the intervals alone, clears the current one, or replaces  *)
(* it by a new one.                                                        *)
Intervals ==
  \/ UNCHANGED <<armed, retryInterval>>
  \/ armed' = armed \ {retryInterval} /\ UNCHANGED retryInterval
  \/ armed' = (armed \ {retryInterval}) \cup {retryInterval'}

LEMMA StepsOnIntervals == [Next]_vars => Intervals
<1> SUFFICES ASSUME [Next]_vars PROVE Intervals
  OBVIOUS
<1> USE DEF Intervals
<1>1. CASE UNCHANGED vars
  BY <1>1 DEF vars, retries
<1>2. ASSUME NEW s \in Start,
             \/ CallStart(s) \/ BeginStart(s) \/ LocalStarted(s)
             \/ StartFails(s) \/ Started(s)
      PROVE  Intervals
  BY <1>2 DEF CallStart, BeginStart, LocalStarted, StartFails, Started,
              ClearInterval, retries
<1>3. CASE Stop \/ BeginStop \/ EndStop \/ NewChange \/ TimerFires
  BY <1>3 DEF Stop, CallStop, BeginStop, EndStop, NewChange, TimerFires,
              ClearInterval, retries
<1>4. ASSUME NEW s \in Start,
             \/ OpenFeed(s) \/ FeedDelivers(s) \/ LeakedFeedDelivers(s)
             \/ AskLock(s) \/ Pick(s) \/ PickChange(s) \/ PickNothing(s)
             \/ Applied(s) \/ Postponed(s)
      PROVE  Intervals
  BY <1>4 DEF OpenFeed, FeedDelivers, LeakedFeedDelivers, AskLock, Pick,
              PickChange, PickNothing, Applied, Postponed, retries
<1>5. ASSUME NEW s \in Start, ApplyFatal(s) PROVE Intervals
  BY <1>5 DEF ApplyFatal, CallStop, ClearInterval, retries
<1>6. ASSUME NEW s \in Start, NEW code \in Code, ApplyBlocks(s, code)
      PROVE  Intervals
  BY <1>6 DEF ApplyBlocks, Block
<1>7. ASSUME NEW w \in Watch, WatchSucceeds(w) \/ WatchFatal(w)
      PROVE  Intervals
  BY <1>7 DEF WatchSucceeds, WatchFatal, CallStop, ClearInterval, retries
<1>8. ASSUME NEW w \in Watch, NEW code \in Code, WatchBlocks(w, code)
      PROVE  Intervals
  BY <1>8 DEF WatchBlocks, Block
<1>9. ASSUME NEW h \in Handler, NEW c \in armed, IntervalFires(h, c)
      PROVE  Intervals
  BY <1>9 DEF IntervalFires
<1>10. CASE UserAction("retry") \/ UserAction("skip")
  BY <1>10 DEF UserAction
<1>11. ASSUME NEW h \in Handler,
              \/ Ping(h) \/ Retry(h) \/ Reached(h) \/ StillOffline(h)
              \/ Skip(h) \/ Saved(h) \/ RestartWatcher(h) \/ Unblock(h)
       PROVE  Intervals
  BY <1>11 DEF Ping, Retry, Reached, TryAgain, StillOffline, Skip, Saved,
               RestartWatcher, Unblock, ClearInterval, retries
<1> QED
  BY Zenon, <1>1, <1>2, <1>3, <1>4, <1>5, <1>6, <1>7, <1>8, <1>9, <1>10,
     <1>11, Steps

(* No retry interval ever escapes this.retryInterval, so that clearing it  *)
(* clears every interval set by blockSyncFor.                              *)
THEOREM IntervalIsUnique == Spec => []OneInterval
<1>1. Init => OneInterval
  BY DEF Init, OneInterval
<1>2. OneInterval /\ [Next]_vars => OneInterval'
  <2> SUFFICES ASSUME OneInterval, [Next]_vars PROVE OneInterval'
    OBVIOUS
  <2>1. Intervals
    BY StepsOnIntervals
  <2> QED
    BY <2>1 DEF Intervals, OneInterval
<1> QED
  BY <1>1, <1>2, PTL DEF Spec

(* Types *)

(* The loops that wait on a live feed are the ones whose feed is open. *)
FeedsOK == \A s \in open : pc[s] = "feed"

(* What the steps preserve together: a step that shrinks the queue of the   *)
(* lock keeps its type because its process is at the head.                  *)
IInv == TypeOK /\ FeedsOK /\ AppliesWithLock

LEMMA InitIInv == Init => IInv
<1> SUFFICES ASSUME Init PROVE IInv
  OBVIOUS
<1>1. TypeOK
  <2>1. /\ causes \in Seq([code : Code, change : BOOLEAN])
        /\ queue \in Seq(Watch) /\ Len(causes) = 0
    BY DEF Init
  <2>2. pc \in [Start -> LoopPc]
    BY DEF Init, LoopPc
  <2>3. run \in [Handler -> [pc : HandlerPc, cause : 0..Len(causes)]]
    BY <2>1 DEF Init, HandlerPc
  <2>4. /\ armed \subseteq 0..Len(causes) /\ listening \subseteq 1..Len(causes)
        /\ retryInterval \in 0..Len(causes)
    BY <2>1 DEF Init
  <2>5. /\ currentState = "done-stop" /\ blockedFor = {} /\ stopping = FALSE
        /\ running = FALSE /\ listeners = 0 /\ open = {} /\ leaked = {}
        /\ news = {} /\ changes = NoFeed /\ todo = 0
    BY DEF Init
  <2> QED
    BY <2>1, <2>2, <2>3, <2>4, <2>5 DEF TypeOK
<1>2. FeedsOK /\ AppliesWithLock
  BY DEF Init, FeedsOK, AppliesWithLock
<1> QED
  BY <1>1, <1>2 DEF IInv

(* The queue of the lock keeps its type when it grows and shrinks. *)
LEMMA QueueTypes ==
  ASSUME queue \in Seq(Watch), NEW w \in Watch
  PROVE  /\ Append(queue, w) \in Seq(Watch)
         /\ queue # <<>> => Tail(queue) \in Seq(Watch)
  OBVIOUS

(* A loop that picks or applies a change leaves a queue of the right type.  *)
LEMMA PickingTypes ==
  ASSUME IInv
  PROVE  /\ Picking # {} => Tail(queue) \in Seq(Watch)
         /\ \A s \in Start :
              pc[s] \in {"pick", "apply"} => Tail(queue) \in Seq(Watch)
BY DEF IInv, TypeOK, AppliesWithLock, Holds, Picking

LEMMA ConcatTypes ==
  ASSUME NEW S, NEW one \in Seq(S), NEW other \in Seq(S)
  PROVE  one \o other \in Seq(S) /\ Len(one \o other) = Len(one) + Len(other)
  OBVIOUS

(* A call to blockSyncFor only appends causes. *)
LEMMA BlockTypes ==
  ASSUME TypeOK, NEW n \in Nat, NEW code \in Code, NEW change \in BOOLEAN,
         Block(n, code, change)
  PROVE  /\ blockedFor' \subseteq Code
         /\ causes' \in Seq([code : Code, change : BOOLEAN])
         /\ armed' \subseteq 0..Len(causes')
         /\ retryInterval' \in 0..Len(causes')
         /\ listening' \subseteq 1..Len(causes')
         /\ Len(causes') = Len(causes) + n
         /\ run \in [Handler -> [pc : HandlerPc, cause : 0..Len(causes')]]
<1> DEFINE new == [i \in 1..n |-> [code |-> code, change |-> change]]
<1>1. new \in Seq([code : Code, change : BOOLEAN]) /\ Len(new) = n
  OBVIOUS
<1>2. causes \in Seq([code : Code, change : BOOLEAN])
  BY DEF TypeOK
<1>3. causes' = causes \o new
  BY DEF Block
<1> HIDE DEF new
<1>4. /\ causes' \in Seq([code : Code, change : BOOLEAN])
      /\ Len(causes') = Len(causes) + n /\ Len(causes) \in Nat
  BY <1>1, <1>2, <1>3, ConcatTypes
<1>5. 0..Len(causes) \subseteq 0..Len(causes')
  BY <1>4
<1>6. run \in [Handler -> [pc : HandlerPc, cause : 0..Len(causes')]]
  <2>1. run \in [Handler -> [pc : HandlerPc, cause : 0..Len(causes)]]
    BY DEF TypeOK
  <2> QED
    BY <1>5, <2>1
<1>7. /\ blockedFor' = blockedFor \cup {code}
      /\ armed' = (armed \ {retryInterval}) \cup {Len(causes')}
      /\ retryInterval' = Len(causes')
      /\ listening' = listening \cup (Len(causes) + 1 .. Len(causes'))
  BY <1>4 DEF Block
<1>8. /\ blockedFor \subseteq Code /\ armed \subseteq 0..Len(causes)
      /\ listening \subseteq 1..Len(causes)
  BY DEF TypeOK
<1>9. /\ Len(causes) \in Nat /\ Len(causes') \in Nat
      /\ Len(causes) <= Len(causes')
  BY <1>4
<1>10. /\ 1..Len(causes) \subseteq 1..Len(causes')
       /\ (Len(causes) + 1)..Len(causes') \subseteq 1..Len(causes')
       /\ Len(causes') \in 0..Len(causes')
  BY <1>9
<1>11. armed' \subseteq 0..Len(causes')
  BY Zenon, <1>5, <1>7, <1>8, <1>10
<1>12. listening' \subseteq 1..Len(causes')
  BY Zenon, <1>7, <1>8, <1>10
<1> QED
  BY <1>4, <1>6, <1>7, <1>8, <1>10, <1>11, <1>12

(* A closure that goes on or ends keeps the type of run. *)
LEMMA RunTypes ==
  ASSUME TypeOK, NEW h \in Handler, NEW where \in HandlerPc
  PROVE  /\ Goto(h, where) \in [Handler -> [pc : HandlerPc, cause : 0..Len(causes)]]
         /\ Done(h) \in [Handler -> [pc : HandlerPc, cause : 0..Len(causes)]]
<1>1. 0 \in 0..Len(causes) /\ "idle" \in HandlerPc
  BY DEF TypeOK, HandlerPc
<1>2. run \in [Handler -> [pc : HandlerPc, cause : 0..Len(causes)]]
  BY DEF TypeOK
<1> QED
  BY <1>1, <1>2 DEF Goto, Done

LEMMA NextTypeOK == IInv /\ [Next]_vars => TypeOK'
<1> SUFFICES ASSUME IInv, [Next]_vars PROVE TypeOK'
  OBVIOUS
<1>0. TypeOK
  BY DEF IInv
<1>1. CASE UNCHANGED vars
  BY <1>0, <1>1 DEF TypeOK, vars, life, retries, feeds
<1>2. ASSUME NEW s \in Start, CallStart(s) \/ BeginStart(s) \/ Started(s)
      PROVE  TypeOK'
  <2>1. pc' \in [Start -> LoopPc]
    BY <1>0, <1>2 DEF TypeOK, CallStart, BeginStart, Started, LoopPc
  <2>2. CASE CallStart(s)
    BY <1>0, <2>1, <2>2 DEF TypeOK, CallStart, life, retries, feeds
  <2>3. CASE BeginStart(s)
    BY <1>0, <2>1, <2>3 DEF TypeOK, BeginStart, retries, feeds
  <2>4. CASE Started(s)
    BY <1>0, <2>1, <2>4 DEF TypeOK, Started, retries, feeds
  <2> QED
    BY <1>2, <2>2, <2>3, <2>4
<1>3. ASSUME NEW s \in Start, LocalStarted(s) \/ StartFails(s) PROVE TypeOK'
  <2>1. s \in Watch
    BY DEF Watch
  <2> QED
    BY <1>0, <1>3, <2>1, QueueTypes DEF TypeOK, LocalStarted, StartFails,
       ClearInterval, LoopPc, life, retries, feeds
<1>4. CASE Stop
  BY <1>0, <1>4 DEF TypeOK, Stop, CallStop, ClearInterval, WillStart, feeds
<1>5. CASE NewChange
  BY <1>0, <1>5 DEF TypeOK, NewChange, life, retries
<1>6. CASE BeginStop
  <2>1. queue' \in Seq(Watch)
    BY <1>0, <1>6, PickingTypes DEF TypeOK, BeginStop
  <2>2. pc' \in [Start -> LoopPc]
    BY <1>0, <1>6 DEF TypeOK, BeginStop, LoopPc
  <2> QED
    BY <1>0, <1>6, <2>1, <2>2 DEF TypeOK, BeginStop, retries
<1>7. CASE EndStop
  <2>1. pc' \in [Start -> LoopPc]
    BY <1>0, <1>7 DEF TypeOK, EndStop, Ready, LoopPc
  <2> QED
    BY <1>0, <1>7, <2>1 DEF TypeOK, EndStop, ClearInterval, feeds
<1>8. CASE TimerFires
  BY <1>0, <1>8, QueueTypes DEF TypeOK, TimerFires, Watch, life, retries, feeds
<1>9. ASSUME NEW s \in Start, OpenFeed(s) \/ Pick(s) \/ PickChange(s)
      PROVE  TypeOK'
  BY <1>0, <1>9 DEF TypeOK, OpenFeed, Pick, PickChange, LoopPc, life, retries,
     feeds
<1>10. ASSUME NEW s \in Start, FeedDelivers(s) \/ LeakedFeedDelivers(s)
       PROVE  TypeOK'
  <2>1. queue' \in Seq(Watch)
    BY <1>0, <1>10, PickingTypes
    DEF TypeOK, FeedDelivers, LeakedFeedDelivers, Cancelled
  <2>2. pc' \in [Start -> LoopPc]
    BY <1>0, <1>10 DEF TypeOK, FeedDelivers, LeakedFeedDelivers, AtLoop,
       AtBatch, LoopPc
  <2> QED
    BY <1>0, <1>10, <2>1, <2>2 DEF TypeOK, FeedDelivers, LeakedFeedDelivers,
       life, retries
<1>11. ASSUME NEW s \in Start, AskLock(s) PROVE TypeOK'
  <2>1. s \in Watch
    BY DEF Watch
  <2> QED
    BY <1>0, <1>11, <2>1, QueueTypes DEF TypeOK, AskLock, life, retries, feeds
<1>12. ASSUME NEW s \in Start,
              PickNothing(s) \/ Applied(s) \/ Postponed(s) \/ ApplyFatal(s)
              \/ \E code \in Code : ApplyBlocks(s, code)
       PROVE  queue' \in Seq(Watch) /\ pc' \in [Start -> LoopPc]
  <2>1. queue' \in Seq(Watch)
    BY <1>0, <1>12, PickingTypes
    DEF TypeOK, PickNothing, Applied, Postponed, ApplyFatal, ApplyBlocks
  <2>2. pc' \in [Start -> LoopPc]
    BY <1>0, <1>12 DEF TypeOK, PickNothing, Applied, Postponed, ApplyFatal,
       ApplyBlocks, AtLoop, AtBatch, LoopPc
  <2> QED
    BY <2>1, <2>2
<1>13. ASSUME NEW s \in Start, PickNothing(s) \/ Applied(s) \/ Postponed(s)
       PROVE  TypeOK'
  <2>1. queue' \in Seq(Watch) /\ pc' \in [Start -> LoopPc]
    BY <1>12, <1>13
  <2>2. CASE PickNothing(s)
    BY <1>0, <2>1, <2>2 DEF TypeOK, PickNothing, life, retries, feeds
  <2>3. CASE Applied(s)
    BY <1>0, <2>1, <2>3 DEF TypeOK, Applied, life, retries
  <2>4. CASE Postponed(s)
    BY <1>0, <2>1, <2>4 DEF TypeOK, Postponed, life, retries
  <2> QED
    BY <1>13, <2>2, <2>3, <2>4
<1>14. ASSUME NEW s \in Start, ApplyFatal(s) PROVE TypeOK'
  BY <1>0, <1>12, <1>14 DEF TypeOK, ApplyFatal, CallStop, ClearInterval,
     WillStart, life, retries, feeds
<1>15. ASSUME NEW s \in Start, NEW code \in Code, ApplyBlocks(s, code)
       PROVE  TypeOK'
  <2>1. Block(1, code, TRUE) /\ run' = run
    BY <1>15 DEF ApplyBlocks
  <2> QED
    BY <1>0, <1>12, <1>15, <2>1, BlockTypes DEF TypeOK, ApplyBlocks, life, feeds
<1>16. ASSUME NEW w \in Watch, WatchSucceeds(w) \/ WatchFatal(w) PROVE TypeOK'
  <2>1. queue' \in Seq(Watch)
    BY <1>0, <1>16, QueueTypes
    DEF TypeOK, WatchSucceeds, WatchFatal, Watching, Holds
  <2> QED
    BY <1>0, <1>16, <2>1 DEF TypeOK, WatchSucceeds, WatchFatal, CallStop,
       ClearInterval, WillStart, life, retries, feeds
<1>17. ASSUME NEW w \in Watch, NEW code \in Code, WatchBlocks(w, code)
       PROVE  TypeOK'
  <2>1. Block(listeners, code, FALSE) /\ listeners \in Nat /\ run' = run
    BY <1>0, <1>17 DEF TypeOK, WatchBlocks
  <2>2. queue' \in Seq(Watch)
    BY <1>0, <1>17, QueueTypes DEF TypeOK, WatchBlocks, Watching, Holds
  <2> QED
    BY <1>0, <1>17, <2>1, <2>2, BlockTypes DEF TypeOK, WatchBlocks, life, feeds
<1>18. ASSUME NEW h \in Handler, NEW c \in armed, IntervalFires(h, c)
       PROVE  TypeOK'
  <2>1. run' \in [Handler -> [pc : HandlerPc, cause : 0..Len(causes)]]
    BY <1>0, <1>18 DEF TypeOK, IntervalFires, Launch, HandlerPc
  <2> QED
    BY <1>0, <1>18, <2>1 DEF TypeOK, IntervalFires, life, feeds
<1>19. ASSUME NEW where \in {"retry", "skip"}, UserAction(where) PROVE TypeOK'
  <2>1. PICK handlers \in SUBSET Idle :
          \E assign \in [handlers -> listening] : Launch(assign, where)
    BY <1>19 DEF UserAction
  <2>2. PICK assign \in [handlers -> listening] : Launch(assign, where)
    BY <2>1
  <2>3. run' \in [Handler -> [pc : HandlerPc, cause : 0..Len(causes)]]
    <3>1. listening \subseteq 0..Len(causes)
      BY <1>0 DEF TypeOK
    <3>2. \A h \in handlers : assign[h] \in 0..Len(causes)
      BY <3>1
    <3>3. where \in HandlerPc /\ DOMAIN assign = handlers
      BY DEF HandlerPc
    <3>4. run \in [Handler -> [pc : HandlerPc, cause : 0..Len(causes)]]
      BY <1>0 DEF TypeOK
    <3> QED
      BY <2>2, <3>2, <3>3, <3>4 DEF Launch
  <2> QED
    BY <1>0, <1>19, <2>3 DEF TypeOK, UserAction, life, feeds
<1>20. ASSUME NEW h \in Handler,
              \/ Ping(h) \/ Retry(h) \/ Reached(h) \/ StillOffline(h)
              \/ Skip(h) \/ Saved(h) \/ RestartWatcher(h) \/ Unblock(h)
       PROVE  TypeOK'
  <2>1. run' \in [Handler -> [pc : HandlerPc, cause : 0..Len(causes)]]
    <3>1. {"ping", "save", "setSeq", "resume", "watching"} \subseteq HandlerPc
      BY DEF HandlerPc
    <3>2. \E where \in HandlerPc : run' = Goto(h, where) \/ run' = Done(h)
      BY <1>20, <3>1 DEF Ping, Retry, Reached, TryAgain, StillOffline, Skip,
         Saved, RestartWatcher, Unblock
    <3> QED
      BY <1>0, <3>2, RunTypes
  <2>2. CASE Ping(h) \/ Retry(h) \/ Reached(h) \/ StillOffline(h) \/ Skip(h)
    BY <1>0, <2>1, <2>2 DEF TypeOK, Ping, Retry, Reached, TryAgain,
       StillOffline, Skip, ClearInterval, life, retries, feeds
  <2>3. CASE Saved(h)
    BY <1>0, <2>1, <2>3 DEF TypeOK, Saved, life, retries
  <2>4. CASE RestartWatcher(h)
    <3>1. h \in Watch
      BY DEF Watch
    <3> QED
      BY <1>0, <2>1, <2>4, <3>1, QueueTypes DEF TypeOK, RestartWatcher, life,
         retries, feeds
  <2>5. CASE Unblock(h)
    <3>1. pc' \in [Start -> LoopPc]
      BY <1>0, <2>5 DEF TypeOK, Unblock, Ready, LoopPc
    <3> QED
      BY <1>0, <2>1, <2>5, <3>1 DEF TypeOK, Unblock, life, retries, feeds
  <2> QED
    BY <1>20, <2>2, <2>3, <2>4, <2>5
<1> QED
  BY Zenon, <1>1, <1>2, <1>3, <1>4, <1>5, <1>6, <1>7, <1>8, <1>9, <1>10, <1>11,
     <1>13, <1>14, <1>15, <1>16, <1>17, <1>18, <1>19, <1>20, Steps

(* The lock and the feeds *)

(* Only one process is at the head of the queue. *)
LEMMA HolderIsUnique ==
  ASSUME NEW one, NEW other, Holds(one), Holds(other) PROVE one = other
BY DEF Holds

(* A request that joins the queue does not take the lock from its holder. *)
LEMMA AppendKeepsHolder ==
  ASSUME queue \in Seq(Watch), NEW w \in Watch, NEW s, Holds(s),
         queue' = Append(queue, w)
  PROVE  Holds(s)'
BY DEF Holds

Busy(s) == pc[s] \in {"pick", "apply"}

(* A step after which every busy loop was busy before and held the lock that *)
(* nobody released preserves AppliesWithLock.                                *)
LEMMA HoldersKept ==
  ASSUME IInv,
         \A s \in Start : Busy(s)' => Busy(s),
         queue' = queue \/ \E w \in Watch : queue' = Append(queue, w)
  PROVE  AppliesWithLock'
<1> SUFFICES ASSUME NEW s \in Start, Busy(s)' PROVE Holds(s)'
  BY DEF AppliesWithLock, Busy
<1>1. Holds(s) /\ queue \in Seq(Watch)
  BY DEF IInv, AppliesWithLock, TypeOK, Busy
<1> QED
  BY <1>1, AppendKeepsHolder DEF Holds

(* A step after which no loop is busy preserves it too. *)
LEMMA NobodyBusy ==
  ASSUME \A s \in Start : ~Busy(s)' PROVE AppliesWithLock'
BY DEF AppliesWithLock, Busy

LEMMA NextAppliesWithLock == IInv /\ [Next]_vars => AppliesWithLock'
<1> SUFFICES ASSUME IInv, [Next]_vars PROVE AppliesWithLock'
  OBVIOUS
<1>0. TypeOK /\ FeedsOK /\ AppliesWithLock /\ pc \in [Start -> LoopPc]
  BY DEF IInv, TypeOK
<1>00. \A s, t \in Start : Busy(s) /\ Busy(t) => s = t
  BY <1>0, HolderIsUnique DEF AppliesWithLock, Busy
<1>1. CASE UNCHANGED vars
  BY <1>0, <1>1, HoldersKept DEF vars, Busy
<1>2. ASSUME NEW s \in Start, CallStart(s) \/ BeginStart(s) \/ Started(s)
      PROVE  AppliesWithLock'
  <2>1. queue' = queue /\ \A t \in Start : Busy(t)' => Busy(t)
    BY <1>0, <1>2 DEF CallStart, BeginStart, Started, Busy
  <2> QED
    BY <2>1, HoldersKept
<1>3. ASSUME NEW s \in Start, LocalStarted(s) \/ StartFails(s)
      PROVE  AppliesWithLock'
  <2>1. s \in Watch
    BY DEF Watch
  <2>2. queue' = queue \/ \E w \in Watch : queue' = Append(queue, w)
    BY <1>3, <2>1 DEF LocalStarted, StartFails
  <2>3. \A t \in Start : Busy(t)' => Busy(t)
    BY <1>0, <1>3 DEF LocalStarted, StartFails, Busy
  <2> QED
    BY <2>2, <2>3, HoldersKept
<1>4. CASE Stop \/ NewChange
  <2>1. queue' = queue /\ pc' = pc
    BY <1>4 DEF Stop, NewChange
  <2> QED
    BY <2>1, HoldersKept DEF Busy
<1>5. CASE BeginStop
  <2>1. CASE Picking # {}
    <3>1. PICK u \in Start : pc[u] = "pick"
      BY <2>1 DEF Picking
    <3>2. \A t \in Start : Busy(t)' => Busy(t) /\ t # u
      BY <1>0, <1>5, <3>1 DEF BeginStop, Busy
    <3> QED
      BY <1>00, <3>1, <3>2, NobodyBusy DEF Busy
  <2>2. CASE Picking = {}
    <3>1. queue' = queue /\ \A t \in Start : Busy(t)' => Busy(t)
      BY <1>0, <1>5, <2>2 DEF BeginStop, Busy
    <3> QED
      BY <3>1, HoldersKept
  <2> QED
    BY <2>1, <2>2
<1>6. CASE EndStop
  <2>1. queue' = queue /\ \A t \in Start : Busy(t)' => Busy(t)
    BY <1>0, <1>6 DEF EndStop, Ready, Busy
  <2> QED
    BY <2>1, HoldersKept
<1>7. CASE TimerFires
  <2>1. pc' = pc /\ queue' = Append(queue, Timer) /\ Timer \in Watch
    BY <1>7 DEF TimerFires, Watch
  <2> QED
    BY <2>1, HoldersKept DEF Busy
<1>8. ASSUME NEW s \in Start, OpenFeed(s) PROVE AppliesWithLock'
  <2>1. queue' = queue /\ \A t \in Start : Busy(t)' => Busy(t)
    BY <1>0, <1>8 DEF OpenFeed, Busy
  <2> QED
    BY <2>1, HoldersKept
<1>9. ASSUME NEW s \in Start, Pick(s) \/ PickChange(s) PROVE AppliesWithLock'
  BY <1>0, <1>9 DEF Pick, PickChange, AppliesWithLock, Holds
<1>10. ASSUME NEW s \in Start, FeedDelivers(s) \/ LeakedFeedDelivers(s)
       PROVE  AppliesWithLock'
  <2>1. \A t \in Start : Busy(t)' => Busy(t) /\ t \notin Cancelled
    BY <1>0, <1>10 DEF FeedDelivers, LeakedFeedDelivers, AtLoop, AtBatch, Busy
  <2>2. CASE Cancelled # {}
    <3>1. PICK u \in Start : pc[u] = "pick" /\ u \in Cancelled
      BY <2>2 DEF Cancelled, Picking
    <3> QED
      BY <1>00, <2>1, <3>1, NobodyBusy DEF Busy
  <2>3. CASE Cancelled = {}
    <3>1. queue' = queue
      BY <1>10, <2>3 DEF FeedDelivers, LeakedFeedDelivers
    <3> QED
      BY <2>1, <3>1, HoldersKept
  <2> QED
    BY <2>2, <2>3
<1>11. ASSUME NEW s \in Start, AskLock(s) PROVE AppliesWithLock'
  <2>1. pc' = pc /\ queue' = Append(queue, s) /\ s \in Watch
    BY <1>11 DEF AskLock, Watch
  <2> QED
    BY <2>1, HoldersKept DEF Busy
<1>12. ASSUME NEW s \in Start,
              PickNothing(s) \/ Applied(s) \/ Postponed(s) \/ ApplyFatal(s)
              \/ \E code \in Code : ApplyBlocks(s, code)
       PROVE  AppliesWithLock'
  <2>1. Busy(s) /\ \A t \in Start : Busy(t)' => Busy(t) /\ t # s
    BY <1>0, <1>12 DEF PickNothing, Applied, Postponed, ApplyFatal, ApplyBlocks,
       AtLoop, AtBatch, Busy
  <2> QED
    BY <1>00, <2>1, NobodyBusy
<1>13. ASSUME NEW w \in Watch,
              WatchSucceeds(w) \/ WatchFatal(w)
              \/ \E code \in Code : WatchBlocks(w, code)
       PROVE  AppliesWithLock'
  <2>1. Watching(w) /\ pc' = pc
    BY <1>13 DEF WatchSucceeds, WatchFatal, WatchBlocks
  <2>2. \A t \in Start : ~Busy(t)
    BY <1>0, <2>1, HolderIsUnique DEF Watching, AppliesWithLock, Busy
  <2> QED
    BY <2>1, <2>2, NobodyBusy DEF Busy
<1>14. ASSUME NEW h \in Handler, NEW c \in armed, IntervalFires(h, c)
       PROVE  AppliesWithLock'
  <2>1. queue' = queue /\ pc' = pc
    BY <1>14 DEF IntervalFires
  <2> QED
    BY <2>1, HoldersKept DEF Busy
<1>15. CASE UserAction("retry") \/ UserAction("skip")
  <2>1. queue' = queue /\ pc' = pc
    BY <1>15 DEF UserAction
  <2> QED
    BY <2>1, HoldersKept DEF Busy
<1>16. ASSUME NEW h \in Handler,
              \/ Ping(h) \/ Retry(h) \/ Reached(h) \/ StillOffline(h)
              \/ Skip(h) \/ Saved(h) \/ RestartWatcher(h) \/ Unblock(h)
       PROVE  AppliesWithLock'
  <2>1. queue' = queue \/ \E w \in Watch : queue' = Append(queue, w)
    BY <1>16 DEF Ping, Retry, Reached, TryAgain, StillOffline, Skip, Saved,
       RestartWatcher, Unblock, Watch
  <2>2. \A t \in Start : Busy(t)' => Busy(t)
    BY <1>0, <1>16 DEF Ping, Retry, Reached, TryAgain, StillOffline, Skip,
       Saved, RestartWatcher, Unblock, Ready, Busy
  <2> QED
    BY <2>1, <2>2, HoldersKept
<1> QED
  BY Zenon, <1>1, <1>2, <1>3, <1>4, <1>5, <1>6, <1>7, <1>8, <1>9, <1>10, <1>11,
     <1>12, <1>13, <1>14, <1>15, <1>16, Steps

(* A loop leaves its live feed only by having it delivered or by a stop,    *)
(* which both remove the feed from the open ones.                           *)
LEMMA NextFeedsOK == IInv /\ [Next]_vars => FeedsOK'
<1> SUFFICES ASSUME IInv, [Next]_vars PROVE FeedsOK'
  OBVIOUS
<1>0. FeedsOK /\ pc \in [Start -> LoopPc] /\ open \subseteq Start
  BY DEF IInv, TypeOK
<1> USE DEF FeedsOK
<1>1. ASSUME open' = open, \A t \in Start : pc[t] = "feed" => pc'[t] = "feed"
      PROVE  FeedsOK'
  BY <1>0, <1>1
<1>2. CASE UNCHANGED vars
  BY <1>1, <1>2 DEF vars, feeds
<1>3. ASSUME NEW s \in Start,
             \/ CallStart(s) \/ BeginStart(s) \/ LocalStarted(s)
             \/ StartFails(s) \/ Started(s)
      PROVE  FeedsOK'
  BY <1>0, <1>1, <1>3 DEF CallStart, BeginStart, LocalStarted, StartFails,
     Started, feeds
<1>4. CASE Stop \/ BeginStop \/ EndStop \/ NewChange \/ TimerFires
  <2>1. CASE BeginStop
    BY <2>1 DEF BeginStop
  <2>2. CASE EndStop
    BY <1>0, <1>1, <2>2 DEF EndStop, Ready, feeds
  <2> QED
    BY <1>1, <1>4, <2>1, <2>2 DEF Stop, NewChange, TimerFires, feeds
<1>5. ASSUME NEW s \in Start, OpenFeed(s) PROVE FeedsOK'
  BY <1>0, <1>5 DEF OpenFeed
<1>6. ASSUME NEW s \in Start, FeedDelivers(s) \/ LeakedFeedDelivers(s)
      PROVE  FeedsOK'
  <2>1. \A t \in Cancelled : pc[t] = "pick"
    BY DEF Cancelled, Picking
  <2> QED
    BY <1>0, <1>6, <2>1 DEF FeedDelivers, LeakedFeedDelivers
<1>7. ASSUME NEW s \in Start,
             AskLock(s) \/ Pick(s) \/ PickChange(s) \/ PickNothing(s)
             \/ Applied(s) \/ Postponed(s) \/ ApplyFatal(s)
             \/ \E code \in Code : ApplyBlocks(s, code)
      PROVE  FeedsOK'
  BY <1>0, <1>1, <1>7 DEF AskLock, Pick, PickChange, PickNothing, Applied,
     Postponed, ApplyFatal, ApplyBlocks, feeds
<1>8. ASSUME NEW w \in Watch,
             WatchSucceeds(w) \/ WatchFatal(w)
             \/ \E code \in Code : WatchBlocks(w, code)
      PROVE  FeedsOK'
  BY <1>1, <1>8 DEF WatchSucceeds, WatchFatal, WatchBlocks, feeds
<1>9. ASSUME NEW h \in Handler, NEW c \in armed, IntervalFires(h, c)
      PROVE  FeedsOK'
  BY <1>1, <1>9 DEF IntervalFires, feeds
<1>10. CASE UserAction("retry") \/ UserAction("skip")
  BY <1>1, <1>10 DEF UserAction, feeds
<1>11. ASSUME NEW h \in Handler,
              \/ Ping(h) \/ Retry(h) \/ Reached(h) \/ StillOffline(h)
              \/ Skip(h) \/ Saved(h) \/ RestartWatcher(h) \/ Unblock(h)
       PROVE  FeedsOK'
  BY <1>0, <1>1, <1>11 DEF Ping, Retry, Reached, TryAgain, StillOffline, Skip,
     Saved, RestartWatcher, Unblock, Ready, feeds
<1> QED
  BY Zenon, <1>2, <1>3, <1>4, <1>5, <1>6, <1>7, <1>8, <1>9, <1>10, <1>11, Steps

LEMMA NextIInv == IInv /\ [Next]_vars => IInv'
BY NextTypeOK, NextFeedsOK, NextAppliesWithLock DEF IInv

(* The variables of Sync, its life cycle and its closures keep their types. *)
THEOREM SyncTypeCorrect == Spec => []TypeOK
<1>1. IInv => TypeOK
  BY DEF IInv
<1> QED
  BY <1>1, InitIInv, NextIInv, PTL DEF Spec

(* Even with several loops, changes are applied by the holder of the Pouch  *)
(* lock only: never two at once, and none while remote changes are merged.  *)
THEOREM ChangesAreAppliedAlone == Spec => []AppliesWithLock
<1>1. IInv => AppliesWithLock
  BY DEF IInv
<1> QED
  BY <1>1, InitIInv, NextIInv, PTL DEF Spec

(* Wake-ups *)

LEMMA NextNoLostWakeUp ==
  IInv /\ NoLostWakeUp /\ [Next]_vars => NoLostWakeUp'
<1> SUFFICES ASSUME IInv, NoLostWakeUp, [Next]_vars PROVE NoLostWakeUp'
  OBVIOUS
<1> DEFINE Waits(s) == pc[s] \in {"ready", "batchReady"}
<1>0. pc \in [Start -> LoopPc]
  BY DEF IInv, TypeOK
<1>1. ASSUME blockedFor \subseteq blockedFor',
             \A t \in Start : Waits(t)' => Waits(t) \/ blockedFor' # {}
      PROVE  NoLostWakeUp'
  BY <1>1 DEF NoLostWakeUp
<1>2. CASE UNCHANGED vars
  BY <1>1, <1>2 DEF vars
<1>3. ASSUME NEW s \in Start,
             \/ CallStart(s) \/ BeginStart(s) \/ LocalStarted(s)
             \/ StartFails(s) \/ Started(s)
      PROVE  NoLostWakeUp'
  BY <1>0, <1>1, <1>3 DEF CallStart, BeginStart, LocalStarted, StartFails,
     Started
<1>4. CASE Stop \/ BeginStop \/ NewChange \/ TimerFires
  BY <1>0, <1>1, <1>4 DEF Stop, BeginStop, NewChange, TimerFires
<1>5. CASE EndStop
  <2>1. \A t \in Start : pc'[t] \notin {"ready", "batchReady"}
    BY <1>0, <1>5 DEF EndStop, Ready
  <2> QED
    BY <2>1 DEF NoLostWakeUp
<1>6. ASSUME NEW s \in Start,
             \/ OpenFeed(s) \/ FeedDelivers(s) \/ LeakedFeedDelivers(s)
             \/ AskLock(s) \/ Pick(s) \/ PickChange(s) \/ PickNothing(s)
             \/ Applied(s) \/ Postponed(s) \/ ApplyFatal(s)
      PROVE  NoLostWakeUp'
  <2>1. blockedFor' = blockedFor
    BY <1>6 DEF OpenFeed, FeedDelivers, LeakedFeedDelivers, AskLock, Pick,
       PickChange, PickNothing, Applied, Postponed, ApplyFatal
  <2>2. \A t \in Start : Waits(t)' => Waits(t) \/ blockedFor # {}
    BY <1>0, <1>6 DEF OpenFeed, FeedDelivers, LeakedFeedDelivers, AskLock, Pick,
       PickChange, PickNothing, Applied, Postponed, ApplyFatal, AtLoop, AtBatch
  <2> QED
    BY <1>1, <2>1, <2>2
<1>7. ASSUME NEW s \in Start, NEW code \in Code, ApplyBlocks(s, code)
      PROVE  NoLostWakeUp'
  <2>1. code \in blockedFor'
    BY <1>7 DEF ApplyBlocks, Block
  <2> QED
    BY <2>1 DEF NoLostWakeUp
<1>8. ASSUME NEW w \in Watch, WatchSucceeds(w) \/ WatchFatal(w)
      PROVE  NoLostWakeUp'
  BY <1>1, <1>8 DEF WatchSucceeds, WatchFatal
<1>9. ASSUME NEW w \in Watch, NEW code \in Code, WatchBlocks(w, code)
      PROVE  NoLostWakeUp'
  BY <1>1, <1>9 DEF WatchBlocks, Block
<1>10. ASSUME NEW h \in Handler, NEW c \in armed, IntervalFires(h, c)
       PROVE  NoLostWakeUp'
  BY <1>1, <1>10 DEF IntervalFires
<1>11. CASE UserAction("retry") \/ UserAction("skip")
  BY <1>1, <1>11 DEF UserAction
<1>12. ASSUME NEW h \in Handler,
              \/ Ping(h) \/ Retry(h) \/ Reached(h) \/ StillOffline(h)
              \/ Skip(h) \/ Saved(h) \/ RestartWatcher(h)
       PROVE  NoLostWakeUp'
  BY <1>1, <1>12 DEF Ping, Retry, Reached, TryAgain, StillOffline, Skip, Saved,
     RestartWatcher
<1>13. ASSUME NEW h \in Handler, Unblock(h) PROVE NoLostWakeUp'
  <2>1. pc' = Ready(pc, blockedFor')
    BY <1>13 DEF Unblock
  <2>2. CASE blockedFor' = {}
    <3>1. \A t \in Start : pc'[t] \notin {"ready", "batchReady"}
      BY <1>0, <2>1, <2>2 DEF Ready
    <3> QED
      BY <3>1 DEF NoLostWakeUp
  <2>3. CASE blockedFor' # {}
    BY <2>3 DEF NoLostWakeUp
  <2> QED
    BY <2>2, <2>3
<1> QED
  BY Zenon, <1>2, <1>3, <1>4, <1>5, <1>6, <1>7, <1>8, <1>9, <1>10, <1>11, <1>12,
     <1>13, Steps

(* No loop ever awaits a 'ready' event that was emitted already.            *)
THEOREM NoWakeUpIsLost == Spec => []NoLostWakeUp
<1>1. Init => NoLostWakeUp
  BY DEF Init, NoLostWakeUp
<1> QED
  BY <1>1, InitIInv, NextIInv, NextNoLostWakeUp, PTL DEF Spec

(* The life cycle *)

(* A call to start() is between its begin('start') and its end('start').    *)
Begins(s) == pc[s] \in {"localStart", "remoteStart"}

(* Only one call is, and Sync is starting all that time: end('start'), which *)
(* does not look at the state it leaves, always leaves "will-start".         *)
BeginsOK == /\ \A s \in Start : Begins(s) => currentState = "will-start"
            /\ \A s, t \in Start : Begins(s) /\ Begins(t) => s = t

(* What a step must do. *)
TurnsLegally == BeginsOK' /\ [LegalTransition]_currentState

(* A step that starts no call and leaves the state alone is legal. *)
LEMMA KeepsBeginsOK ==
  ASSUME BeginsOK, currentState' = currentState,
         \A s \in Start : Begins(s)' => Begins(s)
  PROVE  TurnsLegally
BY DEF BeginsOK, TurnsLegally

(* end('start'), whether the watchers started or not. *)
LEMMA StartEnds ==
  ASSUME IInv, BeginsOK, NEW s \in Start, StartFails(s) \/ Started(s)
  PROVE  TurnsLegally
<1>1. Begins(s) /\ currentState = "will-start" /\ currentState' = "done-start"
  BY DEF StartFails, Started, Begins, BeginsOK
<1>2. LegalTransition
  BY <1>1 DEF LegalTransition
<1>3. /\ pc'[s] \in {"ended", "seq", "ready"}
      /\ \A t \in Start \ {s} : pc'[t] = pc[t]
  BY DEF StartFails, Started, IInv, TypeOK
<1>4. \A t \in Start : ~Begins(t)'
  BY <1>1, <1>3 DEF BeginsOK, Begins
<1> QED
  BY <1>2, <1>4 DEF BeginsOK, TurnsLegally

(* begin('start'), begin('stop') and end('stop'): nobody is starting then. *)
LEMMA LifeCycleTurns ==
  ASSUME IInv, BeginsOK,
         (\E s \in Start : BeginStart(s)) \/ BeginStop \/ EndStop
  PROVE  TurnsLegally
<1>0. pc \in [Start -> LoopPc]
  BY DEF IInv, TypeOK
<1>1. ASSUME NEW s \in Start, BeginStart(s)
      PROVE  TurnsLegally
  <2>1. currentState = "done-stop" /\ currentState' = "will-start"
    BY <1>1 DEF BeginStart
  <2>2. \A t \in Start : Begins(t)' => t = s
    BY <1>1, <2>1 DEF BeginStart, BeginsOK, Begins
  <2>3. LegalTransition
    BY <2>1 DEF LegalTransition
  <2> QED
    BY <2>1, <2>2, <2>3 DEF BeginsOK, TurnsLegally
<1>2. CASE BeginStop
  <2>1. currentState = "done-start" /\ currentState' = "will-stop"
    BY <1>2 DEF BeginStop
  <2>2. \A t \in Start : ~Begins(t)'
    BY <1>0, <1>2, <2>1 DEF BeginStop, BeginsOK, Begins
  <2>3. LegalTransition
    BY <2>1 DEF LegalTransition
  <2> QED
    BY <2>2, <2>3 DEF BeginsOK, TurnsLegally
<1>3. CASE EndStop
  <2>1. currentState = "will-stop" /\ currentState' = "done-stop"
    BY <1>3 DEF EndStop
  <2>2. \A t \in Start : ~Begins(t)'
    BY <1>0, <1>3, <2>1 DEF EndStop, Ready, BeginsOK, Begins
  <2>3. LegalTransition
    BY <2>1 DEF LegalTransition
  <2> QED
    BY <2>2, <2>3 DEF BeginsOK, TurnsLegally
<1> QED
  BY <1>1, <1>2, <1>3

(* Each step keeps BeginsOK and turns the life cycle the right way. *)
LEMMA NextBeginsOK == IInv /\ BeginsOK /\ [Next]_vars => TurnsLegally
<1> SUFFICES ASSUME IInv, BeginsOK, [Next]_vars PROVE TurnsLegally
  OBVIOUS
<1>0. pc \in [Start -> LoopPc]
  BY DEF IInv, TypeOK
<1>1. CASE UNCHANGED vars
  BY <1>1, KeepsBeginsOK DEF vars, life, Begins
<1>2. ASSUME NEW s \in Start, CallStart(s) PROVE TurnsLegally
  BY <1>0, <1>2, KeepsBeginsOK DEF CallStart, life, Begins
<1>3. ASSUME NEW s \in Start, LocalStarted(s) PROVE TurnsLegally
  <2>1. \A t \in Start : Begins(t)' => Begins(t)
    BY <1>0, <1>3 DEF LocalStarted, Begins
  <2> QED
    BY <1>3, <2>1, KeepsBeginsOK DEF LocalStarted, life
<1>4. ASSUME NEW s \in Start, StartFails(s) \/ Started(s) PROVE TurnsLegally
  BY <1>4, StartEnds
<1>5. CASE (\E s \in Start : BeginStart(s)) \/ BeginStop \/ EndStop
  BY <1>5, LifeCycleTurns
<1>6. CASE Stop \/ NewChange \/ TimerFires
  BY <1>6, KeepsBeginsOK DEF Stop, CallStop, NewChange, TimerFires, life, Begins
<1>7. ASSUME NEW s \in Start,
             \/ OpenFeed(s) \/ AskLock(s) \/ Pick(s) \/ PickChange(s)
             \/ Postponed(s) \/ ApplyFatal(s)
             \/ \E code \in Code : ApplyBlocks(s, code)
      PROVE  TurnsLegally
  <2>1. currentState' = currentState
    BY <1>7 DEF OpenFeed, AskLock, Pick, PickChange, Postponed, ApplyFatal,
       CallStop, ApplyBlocks, life
  <2>2. \A t \in Start : Begins(t)' => Begins(t)
    BY <1>0, <1>7 DEF OpenFeed, AskLock, Pick, PickChange, Postponed,
       ApplyFatal, ApplyBlocks, AtBatch, Begins
  <2> QED
    BY <2>1, <2>2, KeepsBeginsOK
<1>8. ASSUME NEW s \in Start,
             \/ FeedDelivers(s) \/ LeakedFeedDelivers(s) \/ PickNothing(s)
             \/ Applied(s)
      PROVE  TurnsLegally
  <2>1. currentState' = currentState
    BY <1>8 DEF FeedDelivers, LeakedFeedDelivers, PickNothing, Applied, life
  <2>2. \A t \in Start : Begins(t)' => Begins(t)
    BY <1>0, <1>8 DEF FeedDelivers, LeakedFeedDelivers, PickNothing, Applied,
       AtLoop, AtBatch, Begins
  <2> QED
    BY <2>1, <2>2, KeepsBeginsOK
<1>9. ASSUME NEW w \in Watch,
             WatchSucceeds(w) \/ WatchFatal(w)
             \/ \E code \in Code : WatchBlocks(w, code)
      PROVE  TurnsLegally
  BY <1>9, KeepsBeginsOK DEF WatchSucceeds, WatchFatal, WatchBlocks, CallStop,
     life, Begins
<1>10. ASSUME NEW h \in Handler, NEW c \in armed, IntervalFires(h, c)
       PROVE  TurnsLegally
  BY <1>10, KeepsBeginsOK DEF IntervalFires, life, Begins
<1>11. CASE UserAction("retry") \/ UserAction("skip")
  BY <1>11, KeepsBeginsOK DEF UserAction, life, Begins
<1>12. ASSUME NEW h \in Handler,
              \/ Ping(h) \/ Retry(h) \/ Reached(h) \/ StillOffline(h)
              \/ Skip(h) \/ Saved(h) \/ RestartWatcher(h) \/ Unblock(h)
       PROVE  TurnsLegally
  <2>1. currentState' = currentState
    BY <1>12 DEF Ping, Retry, Reached, TryAgain, StillOffline, Skip, Saved,
       RestartWatcher, Unblock, life
  <2>2. \A t \in Start : Begins(t)' => Begins(t)
    BY <1>0, <1>12 DEF Ping, Retry, Reached, TryAgain, StillOffline, Skip,
       Saved, RestartWatcher, Unblock, Ready, Begins
  <2> QED
    BY <2>1, <2>2, KeepsBeginsOK
<1> QED
  BY Zenon, <1>1, <1>2, <1>3, <1>4, <1>5, <1>6, <1>7, <1>8, <1>9, <1>10, <1>11,
     <1>12, Steps

(* The life cycle of Sync only ever turns one way, one state at a time,      *)
(* although begin() and end() hardly check the state they leave.             *)
THEOREM LifeCycleIsLegal == Spec => LegalTransitions
<1>1. Init => BeginsOK
  BY DEF Init, BeginsOK, Begins
<1> QED
  BY <1>1, InitIInv, NextIInv, NextBeginsOK, PTL
     DEF Spec, LegalTransitions, TurnsLegally
=============================================================================
