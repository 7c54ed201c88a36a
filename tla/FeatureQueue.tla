---------------------------- MODULE FeatureQueue ----------------------------
(***************************************************************************)
(* The blocking queue between the feature producers and the consumer:      *)
(* function-features/FeatureQueue.{h,cpp}.                                 *)
(*                                                                         *)
(* Every operation is one critical section of the mutex m, so each is one  *)
(* action here; the notify_all that enqueue and finish issue after they    *)
(* release m is an action of its own, and so is the return of cv.wait.     *)
(***************************************************************************)
EXTENDS Naturals, Sequences

VARIABLES
  q,        (* std::queue<void*> q, front first                            *)
  done,     (* bool done: finish() was called                              *)
  waiters   (* the threads blocked in cv.wait(lk)                          *)

queueVars == <<q, done, waiters>>

QueueInit == q = <<>> /\ done = FALSE /\ waiters = {}

(* enqueue, the part under the lock: q.push(new_item).                     *)
Push(item) == q' = Append(q, item) /\ UNCHANGED <<done, waiters>>

(* cv.notify_all(), called by enqueue and finish with the lock released.   *)
NotifyAll == waiters' = {} /\ UNCHANGED <<q, done>>

(* A thread may leave cv.wait without a notification, as the C++ standard  *)
(* allows; the while loop of dequeue is there for this.                    *)
SpuriousWakeup(t) == t \in waiters /\ waiters' = waiters \ {t} /\ UNCHANGED <<q, done>>

(* dequeue, the loop's test succeeds: t blocks.                            *)
DequeueWait(t) ==
  /\ t \notin waiters
  /\ q = <<>> /\ ~done
  /\ waiters' = waiters \union {t}
  /\ UNCHANGED <<q, done>>

(* Mutant: the front is read and not popped.                               *)
DequeueItemWithoutPop(t) == t \notin waiters /\ q # <<>> /\ ~done /\ UNCHANGED queueVars

(* dequeue, past the loop with done unset: the front is popped.            *)
DequeueItem(t) ==
  /\ t \notin waiters
  /\ q # <<>> /\ ~done
  /\ q' = Tail(q)
  /\ UNCHANGED <<done, waiters>>

(* dequeue, past the loop with done set: NULL is returned, whatever the    *)
(* queue still holds.                                                      *)
DequeueNull(t) == t \notin waiters /\ done /\ UNCHANGED queueVars

(* finish, the part under the lock.                                        *)
SetDone == done' = TRUE /\ UNCHANGED <<q, waiters>>
=============================================================================
