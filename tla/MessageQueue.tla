---------------------------- MODULE MessageQueue ----------------------------
(***************************************************************************)
(* ThreadSafeMQ with a thread that waits in waitPop: g_MQ.gui2net, between *)
(* the GUI and the sender.  A step is what happens under the mutex; the    *)
(* notifications of push and stop come after it has been released.         *)
(***************************************************************************)
EXTENDS Naturals, Sequences

VARIABLES
  queue,    \* m_queue
  stopped,  \* m_stopped
  consumer, \* where the sender is
  popped    \* the message it has popped, <<>> if there is none

queueVars == <<queue, stopped, consumer, popped>>

(* The sender evaluates the predicate of the wait with the mutex locked,   *)
(* sleeps on m_cv, passes on the message it has popped, has left its loop. *)
ConsumerState == {"CHECKING", "ASLEEP", "SENDING", "FINISHED"}

QueueInit ==
  /\ queue = <<>>
  /\ stopped = FALSE
  /\ consumer = "CHECKING"
  /\ popped = <<>>

PushMessage(m) == queue' = Append(queue, m) /\ UNCHANGED <<stopped, consumer, popped>>

(* m_cv.notify_one and m_cv.notify_all: there is one thread to wake. *)
Notify ==
  /\ consumer' = IF consumer = "ASLEEP" THEN "CHECKING" ELSE consumer
  /\ UNCHANGED <<queue, stopped, popped>>

StopQueue == stopped' = TRUE /\ UNCHANGED <<queue, consumer, popped>>

(* m_cv.wait: the mutex is released and the thread put to sleep in one.    *)
FallAsleep ==
  /\ consumer = "CHECKING"
  /\ queue = <<>> /\ ~stopped
  /\ consumer' = "ASLEEP"
  /\ UNCHANGED <<queue, stopped, popped>>

(* A condition variable may wake a thread that nobody has notified. *)
WakeUp ==
  /\ consumer = "ASLEEP"
  /\ consumer' = "CHECKING"
  /\ UNCHANGED <<queue, stopped, popped>>

(* Mutant: two messages are taken for one. *)
MutantPopsTwo ==
  /\ consumer = "CHECKING"
  /\ Len(queue) > 1 /\ ~stopped
  /\ popped' = queue[1] \o queue[2]
  /\ queue' = Tail(Tail(queue))
  /\ consumer' = "SENDING"
  /\ UNCHANGED stopped

Pop ==
  /\ consumer = "CHECKING"
  /\ queue # <<>> /\ ~stopped
  /\ popped' = Head(queue)
  /\ queue' = Tail(queue)
  /\ consumer' = "SENDING"
  /\ UNCHANGED stopped

(* Mutant: waitPop returns nothing once the queue is stopped and empty. *)
MutantFinish ==
  /\ consumer = "CHECKING"
  /\ stopped /\ queue = <<>>
  /\ consumer' = "FINISHED"
  /\ UNCHANGED <<queue, stopped, popped>>

(* waitPop returns nothing once the queue is stopped, full or not. *)
Finish ==
  /\ consumer = "CHECKING"
  /\ stopped
  /\ consumer' = "FINISHED"
  /\ UNCHANGED <<queue, stopped, popped>>

WaitPop == FallAsleep \/ Pop \/ Finish
=============================================================================
