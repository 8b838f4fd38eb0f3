----------------------------- MODULE SyncLoop ------------------------------
(* The control of core/sync/index.js: the life cycle of Sync, the loop that *)
(* waits for Pouch changes and applies them one at a time under the Pouch   *)
(* lock, and the blocking of that loop by errors until a retry.             *)
(*                                                                          *)
(* A step runs from one await on input/output to the next. What a change    *)
(* says is abstracted to the number of changes after the local sequence.    *)
EXTENDS Naturals, Sequences, FiniteSets

CONSTANTS
  Start,          \* the calls to start()
  Handler,        \* bound: closures (retry or skip) that run at once
  Users,          \* bound: whether users act on the errors they are shown
  Code,           \* error codes that block Sync
  Unreachable,    \* UNREACHABLE_COZY_CODE
  Timer,          \* the remote watch run by watchTimeout
  OneShot,        \* the feed of getNextChange, which is not live
  NoFeed,         \* this.changes = null
  MaxBlocks,      \* bound: closures created by blockSyncFor
  MaxChanges      \* bound: changes waiting after the local sequence

ASSUME SyncLoopAssumption ==
  /\ Users \in BOOLEAN
  /\ MaxBlocks \in Nat /\ MaxChanges \in Nat
  /\ Start \cap Handler = {}
  /\ Timer \notin Start \cup Handler
  /\ OneShot \notin Start /\ NoFeed \notin Start /\ OneShot # NoFeed

VARIABLES
  currentState,   \* lifecycle.currentState
  blockedFor,     \* lifecycle.blockedFor
  stopping,       \* a call to stop() awaits lifecycle.started()
  pc,             \* where each call to start() is
  queue,          \* the requests of the Pouch lock; its head holds it
  running,        \* remote.watcher.running
  listeners,      \* handlers attached to RemoteWatcher:error
  causes,         \* the causes of the calls to blockSyncFor
  armed,          \* the retry intervals that are set, named by their cause
  retryInterval,  \* this.retryInterval (0 when null)
  listening,      \* the causes whose closures listen to user actions
  run,            \* the closures that are running
  open,           \* the live feeds whose promise is pending
  leaked,         \* the live feeds whose promise has settled
  news,           \* the leaked feeds with a change to deliver
  changes,        \* this.changes
  todo            \* number of changes after the local sequence

life == <<currentState, stopping, listeners>>
retries == <<causes, armed, retryInterval, listening>>
feeds == <<open, leaked, news, changes>>
vars == <<life, blockedFor, pc, queue, running, retries, run, feeds, todo>>

WillStop == currentState \in {"will-stop", "done-stop"}
WillStart == currentState \in {"will-start", "done-start"}

Watch == Start \cup Handler \cup {Timer}
Queued(w) == \E i \in 1..Len(queue) : queue[i] = w
Holds(w) == queue # <<>> /\ Head(queue) = w

Init == /\ currentState = "done-stop"
        /\ blockedFor = {}
        /\ stopping = FALSE
        /\ pc = [s \in Start |-> "new"]
        /\ queue = <<>>
        /\ running = FALSE
        /\ listeners = 0
        /\ causes = <<>> /\ armed = {} /\ retryInterval = 0 /\ listening = {}
        /\ run = [h \in Handler |-> [pc |-> "idle", cause |-> 0]]
        /\ open = {} /\ leaked = {} /\ news = {} /\ changes = NoFeed
        /\ todo = 0
-----------------------------------------------------------------------------
(* Effects that several handlers share.                                     *)

(* A blockSyncFor that forgets to clear the existing interval.              *)
BlockKeepingInterval(n, code, change) ==
  LET last == Len(causes) + n IN
  /\ last <= MaxBlocks
  /\ blockedFor' = blockedFor \cup {code}
  /\ causes' = causes \o [i \in 1..n |-> [code |-> code, change |-> change]]
  /\ armed' = armed \cup {last}
  /\ retryInterval' = last
  /\ listening' = listening \cup (Len(causes) + 1 .. last)

(* blockSyncFor, called n times in a row with the same cause: each call     *)
(* replaces the interval of the previous one, its listeners stay attached.  *)
Block(n, code, change) ==
  LET last == Len(causes) + n IN
  /\ last <= MaxBlocks
  /\ blockedFor' = blockedFor \cup {code}
  /\ causes' = causes \o [i \in 1..n |-> [code |-> code, change |-> change]]
  /\ armed' = (armed \ {retryInterval}) \cup {last}
  /\ retryInterval' = last
  /\ listening' = listening \cup (Len(causes) + 1 .. last)

(* clearInterval(this.retryInterval) *)
ClearInterval == /\ armed' = armed \ {retryInterval}
                 /\ UNCHANGED <<causes, retryInterval, listening>>

(* The synchronous part of stop(); fatal() does the same.                   *)
CallStop == /\ ClearInterval
            /\ stopping' = (stopping \/ WillStart)
            /\ UNCHANGED <<currentState, listeners>>

(* Where the loop of start() goes when sync() returns, and where the loop   *)
(* of syncBatch() goes after a change, given who blocks Sync by then.       *)
AtLoop(blocks) == IF WillStop THEN "ended"
                  ELSE IF blocks = {} THEN "seq" ELSE "ready"
AtBatch(blocks) == IF WillStop THEN "ended"
                   ELSE IF blocks = {} THEN "lock" ELSE "batchReady"

(* An unblockFor that only wakes the loop of start() up.                    *)
ReadyForStart(loops, blocks) ==
  IF blocks # {} THEN loops
  ELSE [s \in Start |-> IF loops[s] = "ready" THEN "seq" ELSE loops[s]]

(* lifecycle.unblockFor emits 'ready' when nothing blocks any more: the     *)
(* awaiting loops go on, without looking at the state again.                *)
Ready(loops, blocks) ==
  IF blocks # {} THEN loops
  ELSE [s \in Start |-> CASE loops[s] = "ready" -> "seq"
                          [] loops[s] = "batchReady" -> "lock"
                          [] OTHER -> loops[s]]

(* this.changes.cancel(); this.changes = null. A cancelled getNextChange    *)
(* completes without a result, which ends the batch of its loop.            *)
Picking == {s \in Start : pc[s] = "pick"}
Cancelled == IF changes = OneShot THEN Picking ELSE {}
-----------------------------------------------------------------------------
(* The life cycle: start() and stop().                                      *)

(* start() returns at once unless Sync is stopped or stopping.              *)
CallStart(s) == /\ pc[s] = "new"
                /\ WillStop
                /\ pc' = [pc EXCEPT ![s] = "awaitStopped"]
                /\ UNCHANGED <<life, blockedFor, queue, running, retries, run,
                               feeds, todo>>

(* A start() that does not wait for the end of a stop().                    *)
BeginStartEarly(s) ==
  /\ pc[s] = "awaitStopped"
  /\ WillStop
  /\ currentState' = "will-start"
  /\ listeners' = listeners + 1
  /\ pc' = [t \in Start |-> IF t = s THEN "localStart"
                            ELSE IF pc[t] = "awaitStopped" THEN "ended"
                            ELSE pc[t]]
  /\ UNCHANGED <<stopping, blockedFor, queue, running, retries, run, feeds,
                 todo>>

(* The first start() that sees Sync stopped begins; begin() throws in the   *)
(* others, which return. The handlers attached to the remote watcher are    *)
(* never detached.                                                          *)
BeginStart(s) ==
  /\ pc[s] = "awaitStopped"
  /\ currentState = "done-stop"
  /\ currentState' = "will-start"
  /\ listeners' = listeners + 1
  /\ pc' = [t \in Start |-> IF t = s THEN "localStart"
                            ELSE IF pc[t] = "awaitStopped" THEN "ended"
                            ELSE pc[t]]
  /\ UNCHANGED <<stopping, blockedFor, queue, running, retries, run, feeds,
                 todo>>

(* local.start() succeeded: remote.start() starts the watcher, and awaits   *)
(* its first watch unless it was running already.                           *)
LocalStarted(s) ==
  /\ pc[s] = "localStart"
  /\ pc' = [pc EXCEPT ![s] = "remoteStart"]
  /\ running' = TRUE
  /\ queue' = IF running THEN queue ELSE Append(queue, s)
  /\ UNCHANGED <<life, blockedFor, retries, run, feeds, todo>>

(* A failed start that does not end the start phase before fatal().         *)
StartFailsUnended(s) ==
  /\ pc[s] = "localStart" \/ (pc[s] = "remoteStart" /\ ~Queued(s))
  /\ pc' = [pc EXCEPT ![s] = "ended"]
  /\ stopping' = TRUE
  /\ ClearInterval
  /\ UNCHANGED <<currentState, listeners, blockedFor, queue, running, run,
                 feeds, todo>>

(* local.start() or remote.start() threw: the start phase ends, then stops. *)
StartFails(s) ==
  /\ pc[s] = "localStart" \/ (pc[s] = "remoteStart" /\ ~Queued(s))
  /\ pc' = [pc EXCEPT ![s] = "ended"]
  /\ currentState' = "done-start"
  /\ stopping' = TRUE
  /\ ClearInterval
  /\ UNCHANGED <<listeners, blockedFor, queue, running, run, feeds, todo>>

Started(s) ==
  /\ pc[s] = "remoteStart" /\ ~Queued(s)
  /\ currentState' = "done-start"
  /\ pc' = [pc EXCEPT ![s] = IF blockedFor = {} THEN "seq" ELSE "ready"]
  /\ UNCHANGED <<stopping, listeners, blockedFor, queue, running, retries, run,
                 feeds, todo>>

(* stop(), called by the GUI, or by fatal() when the local watcher fails.   *)
Stop == /\ CallStop
        /\ UNCHANGED <<blockedFor, pc, queue, running, run, feeds, todo>>

(* A stop() that releases the Pouch lock whoever holds it.                  *)
BeginStopUnlocking ==
  /\ stopping
  /\ currentState = "done-start"
  /\ currentState' = "will-stop"
  /\ stopping' = FALSE
  /\ pc' = [s \in Start |-> IF pc[s] \in {"feed", "pick"} THEN "ended"
                            ELSE pc[s]]
  /\ queue' = IF queue # <<>> THEN Tail(queue) ELSE queue
  /\ open' = {}
  /\ leaked' = leaked \cup (open \ {changes})
  /\ changes' = NoFeed
  /\ running' = FALSE
  /\ UNCHANGED <<listeners, blockedFor, retries, run, news, todo>>

(* begin('stop') succeeds in one of the awaiting calls. 'will-stop' resumes *)
(* the loops that wait for a change or pick one, and these end; the feed of *)
(* this.changes is cancelled, and so is the remote watcher stopped.         *)
BeginStop ==
  /\ stopping
  /\ currentState = "done-start"
  /\ currentState' = "will-stop"
  /\ stopping' = FALSE
  /\ pc' = [s \in Start |-> IF pc[s] \in {"feed", "pick"} THEN "ended"
                            ELSE pc[s]]
  /\ queue' = IF Picking # {} THEN Tail(queue) ELSE queue
  /\ open' = {}
  /\ leaked' = leaked \cup (open \ {changes})
  /\ changes' = NoFeed
  /\ running' = FALSE
  /\ UNCHANGED <<listeners, blockedFor, retries, run, news, todo>>

(* local.stop() and remote.stop() are over.                                 *)
EndStop ==
  /\ currentState = "will-stop"
  /\ currentState' = "done-stop"
  /\ ClearInterval
  /\ blockedFor' = {}
  /\ pc' = Ready(pc, {})
  /\ UNCHANGED <<stopping, listeners, queue, running, run, feeds, todo>>
-----------------------------------------------------------------------------
(* The loop: sync() and syncBatch().                                        *)

(* waitForNewChanges, once the local sequence was read: its live feed       *)
(* becomes this.changes.                                                    *)
OpenFeed(s) == /\ pc[s] = "seq"
               /\ pc' = [pc EXCEPT ![s] = "feed"]
               /\ open' = open \cup {s}
               /\ changes' = s
               /\ UNCHANGED <<life, blockedFor, queue, running, retries, run,
                              leaked, news, todo>>

(* The feed of loop s delivers a change. It cancels the feed this.changes   *)
(* stands for, which may be another one, and resolves; without this.changes *)
(* its promise never settles, since it left 'will-stop' too.                *)
FeedDelivers(s) ==
  /\ s \in open
  /\ todo > 0
  /\ open' = open \ {s, changes}
  /\ leaked' = IF changes = s THEN leaked ELSE leaked \cup {s}
  /\ changes' = NoFeed
  /\ pc' = [t \in Start |->
              IF t = s THEN IF changes = NoFeed THEN "stuck"
                            ELSE AtBatch(blockedFor)
              ELSE IF t \in Cancelled THEN AtLoop(blockedFor) ELSE pc[t]]
  /\ queue' = IF Cancelled # {} THEN Tail(queue) ELSE queue
  /\ UNCHANGED <<life, blockedFor, running, retries, run, news, todo>>

(* A feed that was never cancelled goes on delivering changes: its handler  *)
(* cancels whatever feed this.changes stands for by then.                   *)
LeakedFeedDelivers(s) ==
  /\ s \in news
  /\ news' = news \ {s}
  /\ open' = open \ {changes}
  /\ changes' = NoFeed
  /\ pc' = [t \in Start |-> IF t \in Cancelled THEN AtLoop(blockedFor)
                            ELSE pc[t]]
  /\ queue' = IF Cancelled # {} THEN Tail(queue) ELSE queue
  /\ UNCHANGED <<life, blockedFor, running, retries, run, leaked, todo>>

AskLock(s) == /\ pc[s] = "lock" /\ ~Queued(s)
              /\ queue' = Append(queue, s)
              /\ UNCHANGED <<life, blockedFor, pc, running, retries, run, feeds,
                             todo>>

(* With the lock, getNextChange opens a feed limited to one change.         *)
Pick(s) == /\ pc[s] = "lock" /\ Holds(s)
           /\ pc' = [pc EXCEPT ![s] = "pick"]
           /\ changes' = OneShot
           /\ UNCHANGED <<life, blockedFor, queue, running, retries, run, open,
                          leaked, news, todo>>

PickChange(s) == /\ pc[s] = "pick" /\ todo > 0
                 /\ pc' = [pc EXCEPT ![s] = "apply"]
                 /\ UNCHANGED <<life, blockedFor, queue, running, retries, run,
                                feeds, todo>>

PickNothing(s) == /\ pc[s] = "pick" /\ todo = 0
                  /\ queue' = Tail(queue)
                  /\ pc' = [pc EXCEPT ![s] = AtLoop(blockedFor)]
                  /\ UNCHANGED <<life, blockedFor, running, retries, run, feeds,
                                 todo>>

(* An apply() that counts a change twice when the user skips it meanwhile.  *)
AppliedTwice(s) == /\ pc[s] = "apply"
                   /\ todo' = todo - 1
                   /\ news' = leaked
                   /\ queue' = Tail(queue)
                   /\ pc' = [pc EXCEPT ![s] = AtBatch(blockedFor)]
                   /\ UNCHANGED <<life, blockedFor, running, retries, run, open,
                                  leaked, changes>>

(* apply() succeeds or gives the change up, and advances the sequence. The  *)
(* document it saves is one more change for the leaked feeds.               *)
Applied(s) == /\ pc[s] = "apply"
              /\ todo' = IF todo = 0 THEN 0 ELSE todo - 1
              /\ news' = leaked
              /\ queue' = Tail(queue)
              /\ pc' = [pc EXCEPT ![s] = AtBatch(blockedFor)]
              /\ UNCHANGED <<life, blockedFor, running, retries, run, open,
                             leaked, changes>>

(* apply() returns before the change is done: it waits for the remote       *)
(* trashing of a parent, or it made room for the change, which may save it. *)
Postponed(s) == /\ pc[s] = "apply"
                /\ news' \in {news, leaked}
                /\ queue' = Tail(queue)
                /\ pc' = [pc EXCEPT ![s] = AtBatch(blockedFor)]
                /\ UNCHANGED <<life, blockedFor, running, retries, run, open,
                               leaked, changes, todo>>

(* apply() fails with an error that blocks Sync until a retry. An           *)
(* unreachable Cozy also stops the remote watcher.                          *)
ApplyBlocks(s, code) ==
  /\ pc[s] = "apply"
  /\ Block(1, code, TRUE)
  /\ running' = (running /\ code # Unreachable)
  /\ queue' = Tail(queue)
  /\ pc' = [pc EXCEPT ![s] = AtBatch(blockedFor')]
  /\ UNCHANGED <<life, run, feeds, todo>>

(* apply() meets COZY_NOT_FOUND_CODE and calls fatal(), or it throws: the   *)
(* exception ends the loop and calls fatal(), unless Sync is stopping.      *)
ApplyFatal(s) ==
  /\ pc[s] = "apply"
  /\ \/ /\ CallStop
        /\ \E next \in {AtBatch(blockedFor), "ended"} :
             pc' = [pc EXCEPT ![s] = next]
     \/ /\ WillStop
        /\ pc' = [pc EXCEPT ![s] = "ended"]
        /\ UNCHANGED <<life, retries>>
  /\ queue' = Tail(queue)
  /\ UNCHANGED <<blockedFor, running, run, feeds, todo>>

(* A watcher merges a change into Pouch.                                    *)
NewChange == /\ todo < MaxChanges
             /\ todo' = todo + 1
             /\ news' = leaked
             /\ UNCHANGED <<life, blockedFor, pc, queue, running, retries, run,
                            open, leaked, changes>>
-----------------------------------------------------------------------------
(* The remote watcher: each watch() waits for the Pouch lock and holds it.  *)

(* watchTimeout elapses; it was set by the previous watch.                  *)
TimerFires == /\ running
              /\ \A w \in Handler \cup {Timer} : ~Queued(w)
              /\ \A s \in Start : pc[s] # "remoteStart"
              /\ queue' = Append(queue, Timer)
              /\ UNCHANGED <<life, blockedFor, pc, running, retries, run, feeds,
                             todo>>

(* The request at the head of the queue is a watch, not a loop.             *)
Watching(w) == Holds(w) /\ (w \in Start => pc[w] = "remoteStart")

WatchSucceeds(w) == /\ Watching(w)
                    /\ queue' = Tail(queue)
                    /\ UNCHANGED <<life, blockedFor, pc, running, retries, run,
                                   feeds, todo>>

(* RemoteWatcher:error: every handler attached by a start() blocks Sync,    *)
(* even when the watcher was stopped meanwhile, and stops the watcher.      *)
WatchBlocks(w, code) ==
  /\ Watching(w)
  /\ Block(listeners, code, FALSE)
  /\ running' = FALSE
  /\ queue' = Tail(queue)
  /\ UNCHANGED <<life, pc, run, feeds, todo>>

(* RemoteWatcher:fatal: Sync.fatal() and watcher.stop().                    *)
WatchFatal(w) == /\ Watching(w)
                 /\ CallStop
                 /\ running' = FALSE
                 /\ queue' = Tail(queue)
                 /\ UNCHANGED <<blockedFor, pc, run, feeds, todo>>
-----------------------------------------------------------------------------
(* The closures of blockSyncFor.                                            *)

Idle == {h \in Handler : run[h].pc = "idle"}
Goto(h, where) == [run EXCEPT ![h].pc = where]
Done(h) == [run EXCEPT ![h] = [pc |-> "idle", cause |-> 0]]
Cause(h) == causes[run[h].cause]

(* The closures given by assign start in free handlers.                     *)
Launch(assign, where) ==
  run' = [h \in Handler |-> IF h \in DOMAIN assign
                            THEN [pc |-> where, cause |-> assign[h]]
                            ELSE run[h]]

IntervalFires(h, c) ==
  /\ h \in Idle /\ c \in armed
  /\ Launch([x \in {h} |-> c], "retry")
  /\ listening' = listening \ {c}
  /\ UNCHANGED <<life, blockedFor, pc, queue, running, causes, armed,
                 retryInterval, feeds, todo>>

(* 'user-action-done' or 'user-action-skipped': all the closures that       *)
(* listen run, each in a handler of its own.                                *)
UserAction(where) ==
  /\ Users
  /\ listening # {}
  /\ \E handlers \in SUBSET Idle :
       /\ Cardinality(handlers) = Cardinality(listening)
       /\ \E assign \in [handlers -> listening] :
            /\ \A c \in listening : \E h \in handlers : assign[h] = c
            /\ Launch(assign, where)
  /\ listening' = {}
  /\ UNCHANGED <<life, blockedFor, pc, queue, running, causes, armed,
                 retryInterval, feeds, todo>>

(* The interval is cleared, and a failed change gets its errors counted.    *)
TryAgain(h) == /\ ClearInterval
               /\ run' = Goto(h, IF Cause(h).change THEN "save" ELSE "resume")
               /\ UNCHANGED <<life, blockedFor, pc, queue, running, feeds, todo>>

Retry(h) == run[h].pc = "retry" /\ Cause(h).code # Unreachable /\ TryAgain(h)

(* A Cozy that was unreachable is pinged first.                             *)
Ping(h) == /\ run[h].pc = "retry" /\ Cause(h).code = Unreachable
           /\ run' = Goto(h, "ping")
           /\ UNCHANGED <<life, blockedFor, pc, queue, running, retries, feeds,
                          todo>>

Reached(h) == run[h].pc = "ping" /\ TryAgain(h)

(* A failed ping that clears the interval instead of refreshing it.         *)
StillOfflineCleared(h) == /\ run[h].pc = "ping"
                          /\ run' = Done(h)
                          /\ ClearInterval
                          /\ UNCHANGED <<life, blockedFor, pc, queue, running,
                                         feeds, todo>>

StillOffline(h) == /\ run[h].pc = "ping"
                   /\ run' = Done(h)
                   /\ UNCHANGED <<life, blockedFor, pc, queue, running, retries,
                                  feeds, todo>>

PingEnds(h) == Reached(h) \/ StillOffline(h)

Skip(h) == /\ run[h].pc = "skip"
           /\ ClearInterval
           /\ run' = Goto(h, IF Cause(h).change THEN "setSeq" ELSE "resume")
           /\ UNCHANGED <<life, blockedFor, pc, queue, running, feeds, todo>>

(* updateErrors saves the document, which stays to be applied; skipChange   *)
(* moves the sequence past the change, if it was not applied meanwhile.     *)
Saved(h) == /\ \/ run[h].pc = "save" /\ news' = leaked /\ UNCHANGED todo
               \/ /\ run[h].pc = "setSeq" /\ UNCHANGED news
                  /\ todo' \in {todo, IF todo = 0 THEN 0 ELSE todo - 1}
            /\ run' = Goto(h, "resume")
            /\ UNCHANGED <<life, blockedFor, pc, queue, running, retries, open,
                           leaked, changes>>

(* A stopped watcher is started, and its first watch awaited.               *)
RestartWatcher(h) == /\ run[h].pc = "resume" /\ ~running
                     /\ running' = TRUE
                     /\ queue' = Append(queue, h)
                     /\ run' = Goto(h, "watching")
                     /\ UNCHANGED <<life, blockedFor, pc, retries, feeds, todo>>

(* lifecycle.unblockFor(err.code)                                           *)
Unblock(h) == /\ \/ run[h].pc = "resume" /\ running
                 \/ run[h].pc = "watching" /\ ~Queued(h)
              /\ blockedFor' = blockedFor \ {Cause(h).code}
              /\ pc' = Ready(pc, blockedFor')
              /\ run' = Done(h)
              /\ UNCHANGED <<life, queue, running, retries, feeds, todo>>
-----------------------------------------------------------------------------
StartStep(s) == LocalStarted(s) \/ Started(s) \/ StartFails(s)

LoopStep(s) == \/ OpenFeed(s) \/ FeedDelivers(s) \/ Pick(s)
               \/ PickChange(s) \/ PickNothing(s) \/ Applied(s) \/ Postponed(s)
               \/ (\E code \in Code : ApplyBlocks(s, code)) \/ ApplyFatal(s)

WatchStep(w) == \/ WatchSucceeds(w) \/ WatchFatal(w)
                \/ \E code \in Code : WatchBlocks(w, code)

(* Promises that have settled: the code awaiting them runs before anything  *)
(* else happens, in whatever order the promises settled.                    *)
Microtasks ==
  \/ stopping /\ currentState = "done-start"
  \/ currentState = "done-stop" /\ \E s \in Start : pc[s] = "awaitStopped"
  \/ \E s \in Start : pc[s] = "lock" /\ ~Queued(s)
  \/ \E h \in Handler : run[h].pc \in {"retry", "skip", "resume"}
  \/ \E h \in Handler : run[h].pc = "watching" /\ ~Queued(h)

Microtask == \/ BeginStop
             \/ \E s \in Start : BeginStart(s) \/ AskLock(s)
             \/ \E h \in Handler : Ping(h) \/ Retry(h) \/ Skip(h)
                                     \/ RestartWatcher(h) \/ Unblock(h)

(* The end of an input/output, a timer, or a call from outside.             *)
Event == \/ Stop \/ EndStop \/ NewChange \/ TimerFires
         \/ \E s \in Start : CallStart(s) \/ StartStep(s) \/ LoopStep(s)
                              \/ LeakedFeedDelivers(s)
         \/ \E w \in Watch : WatchStep(w)
         \/ \E h \in Handler, c \in armed : IntervalFires(h, c)
         \/ UserAction("retry") \/ UserAction("skip")
         \/ \E h \in Handler : PingEnds(h) \/ Saved(h)

Next == IF Microtasks THEN Microtask ELSE Event

Spec == Init /\ [][Next]_vars

(* Microtasks run, input/output ends, armed intervals elapse, and the Cozy  *)
(* is reachable again at some point. Nothing forces users or new changes.   *)
(* An event that stays possible is not put off for ever by microtasks, and  *)
(* a change is not postponed for ever: what it waits for was done.          *)
Fairness ==
  /\ WF_vars(Microtask) /\ WF_vars(EndStop)
  /\ \A s \in Start : /\ WF_vars(StartStep(s)) /\ WF_vars(LoopStep(s))
                      /\ SF_vars(Applied(s)) /\ WF_vars(LeakedFeedDelivers(s))
  /\ \A w \in Watch : WF_vars(WatchStep(w))
  /\ WF_vars(\E h \in Handler, c \in armed : IntervalFires(h, c))
  /\ \A h \in Handler : WF_vars(Saved(h)) /\ SF_vars(Reached(h))

FairSpec == Spec /\ Fairness
-----------------------------------------------------------------------------
LoopPc == {"new", "awaitStopped", "localStart", "remoteStart", "seq", "feed",
           "stuck", "ready", "batchReady", "lock", "pick", "apply", "ended"}
HandlerPc == {"idle", "retry", "skip", "ping", "save", "setSeq", "resume",
              "watching"}

TypeOK ==
  /\ currentState \in {"done-stop", "will-start", "done-start", "will-stop"}
  /\ blockedFor \subseteq Code
  /\ stopping \in BOOLEAN
  /\ pc \in [Start -> LoopPc]
  /\ queue \in Seq(Watch)
  /\ running \in BOOLEAN
  /\ listeners \in Nat
  /\ causes \in Seq([code : Code, change : BOOLEAN])
  /\ armed \subseteq 0..Len(causes)
  /\ retryInterval \in 0..Len(causes)
  /\ listening \subseteq 1..Len(causes)
  /\ run \in [Handler -> [pc : HandlerPc, cause : 0..Len(causes)]]
  /\ open \subseteq Start /\ leaked \subseteq Start /\ news \subseteq leaked
  /\ changes \in Start \cup {OneShot, NoFeed}
  /\ todo \in Nat

(* There is never more than one retry interval set, and clearInterval of    *)
(* this.retryInterval is enough to clear it: none escapes the variable,     *)
(* whatever closures, stops and errors interleave.                          *)
OneInterval == armed \subseteq {retryInterval}

(* No wake-up is lost: a loop only waits for 'ready' while an error blocks  *)
(* Sync, so it never waits for an event that was emitted already.           *)
NoLostWakeUp ==
  (\E s \in Start : pc[s] \in {"ready", "batchReady"}) => blockedFor # {}

(* Changes are picked and applied by the holder of the Pouch lock, even     *)
(* when several loops run: two changes are never applied at once, and none  *)
(* while the remote watcher merges changes.                                 *)
AppliesWithLock == \A s \in Start : pc[s] \in {"pick", "apply"} => Holds(s)

(* begin() and end() only check the state they go to, or nothing at all;    *)
(* still no interleaving of starts, failures and stops leaves the cycle     *)
(* done-stop, will-start, done-start, will-stop.                            *)
LegalTransition ==
  <<currentState, currentState'>> \in
    {<<"done-stop", "will-start">>, <<"will-start", "done-start">>,
     <<"done-start", "will-stop">>, <<"will-stop", "done-stop">>}
LegalTransitions == [][LegalTransition]_currentState

(* An error that blocks a started Sync is eventually lifted, by a retry or  *)
(* because Sync is stopped ("We'll automatically retry to sync the change   *)
(* after a delay"): holds when all the errors share one code.               *)
BlocksAreLifted ==
  currentState = "done-start" /\ blockedFor # {}
    ~> blockedFor = {} \/ currentState = "done-stop"

(* Changes merged while Sync runs are eventually applied or given up,       *)
(* unless Sync stops: errors, retries and user actions strand none of them. *)
(* When MaxChanges wait no more arrive, so that one must have been applied. *)
ChangesAreApplied ==
  currentState = "done-start" /\ todo = MaxChanges
    ~> todo < MaxChanges \/ currentState # "done-start"

(* stop() eventually stops a Sync that started or is starting.              *)
StopCompletes == stopping ~> currentState = "done-stop"
=============================================================================
