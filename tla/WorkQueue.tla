----------------------------- MODULE WorkQueue -----------------------------
(***************************************************************************)
(* The user-mode work queue of libc/wqueue/work_usrthread.c: one worker    *)
(* thread running work_process() forever over the list g_usrwork.q,        *)
(* submitter threads calling work_queue()/work_cancel(), and callbacks     *)
(* that run on the worker thread with the queue unlocked and may submit    *)
(* or cancel work themselves.                                              *)
(*                                                                         *)
(* The queue lock g_usrmutex is not a variable: the worker holds it        *)
(* exactly while it scans the list or sleeps (wpc \in LockedPcs).  The     *)
(* critical sections of work_queue()/work_cancel() touch nothing the       *)
(* worker reads without the lock, so each is one atomic step taken while   *)
(* the lock is free.                                                       *)
(*                                                                         *)
(* systime_t arithmetic is unsigned and wraps: the tick counter is kept    *)
(* modulo Wrap and every subtraction and addition of ticks is (% Wrap).    *)
(***************************************************************************)
EXTENDS Naturals, Sequences, SequencesExt

CONSTANTS
  Items,    \* the struct work_s instances the callers own
  Threads,  \* submitter threads calling work_queue()/work_cancel()
  Wrap,     \* 2^w: the tick counter clock_systimer() counts modulo Wrap
  Period,   \* g_usrwork.delay = CONFIG_LIB_USRWORKPERIOD / USEC_PER_TICK
  Delays,   \* delays (ticks) the callers pass to work_queue()
  NoItem

ASSUME Period \in 1..(Wrap - 1) /\ Delays \subseteq 0..(Wrap - 2)
ASSUME NoItem \notin Items
Clock   == 0..(Wrap - 1)

VARIABLES
  now,      \* the tick counter read by clock_systimer()
  q,        \* g_usrwork.q, head first: each entry is a queued item with
            \* the qtime and delay work_queue() stored in it
  armed,    \* the items whose worker field is not NULL
  wpc,      \* where the worker thread is in work_process()
  cur,      \* the scan cursor `work', as a position in q
  stick,    \* the tick at which this polling pass started
  next,     \* the wake-up delay being computed for this pass
  slept,    \* ticks left of the usleep() in progress
  running,  \* the item whose worker function is executing (NoItem if none)
  req,      \* req[t]: the API call thread t is blocked in, waiting for the lock
  ret       \* ret[t]: what thread t's last work_cancel() returned

vars == <<now, q, armed, wpc, cur, stick, next, slept, running, req, ret>>

(* The worker holds g_usrmutex while scanning the list and while asleep.  *)
LockedPcs == {"scan", "sleep"}
Locked == wpc \in LockedPcs

Entries == [item: Items, qtime: Clock, delay: Delays]
Idle == [op |-> "idle"]
Requests ==
  [op: {"submit"}, item: Items, cb: BOOLEAN, delay: Delays]
    \cup [op: {"cancel"}, item: Items]

Linked == {e.item : e \in ToSet(q)}

-----------------------------------------------------------------------------
(* systime_t arithmetic.                                                   *)

Sub(a, b) == (a - b) % Wrap
Add(a, b) == (a + b) % Wrap
MIN(a, b) == IF a < b THEN a ELSE b

(* Mutant: the operands of the elapsed-time subtraction swapped.          *)
ElapsedSwapped(e, ctick) == Sub(e.qtime, ctick)

(* elapsed = ctick - work->qtime; the work is ready once it reaches delay. *)
Elapsed(e, ctick) == Sub(ctick, e.qtime)
Ready(e, ctick)   == Elapsed(e, ctick) >= e.delay

(* The wake-up delay a not-ready entry asks for: elapsed is advanced by   *)
(* the time spent so far in this pass and clamped to delay.               *)
Remaining(e, ctick) ==
  LET adj == Add(Elapsed(e, ctick), Sub(ctick, stick))
  IN  e.delay - MIN(adj, e.delay)

-----------------------------------------------------------------------------
(* The API calls.  work_queue() and work_cancel() live outside this        *)
(* source tree; they are modelled from the contract the queue offers.      *)

(* work_queue(): fill in the item and append it to the list.  Queuing an   *)
(* item that is still linked is a caller error, so callers never do it.    *)
Submit(r) ==
  /\ r.item \notin Linked
  /\ q' = Append(q, [item |-> r.item, qtime |-> now, delay |-> r.delay])
  /\ armed' = IF r.cb THEN armed \cup {r.item} ELSE armed \ {r.item}

(* work_cancel(): a non-NULL worker is cleared and the item unlinked.      *)
Cancel(r) ==
  /\ r.item \in armed
  /\ armed' = armed \ {r.item}
  /\ q' = SelectSeq(q, LAMBDA e : e.item /= r.item)

Call(r) ==
  IF r.op = "submit" THEN Submit(r)
  ELSE Cancel(r) \/ (r.item \notin armed /\ UNCHANGED <<q, armed>>)

CancelResult(r) == IF r.item \in armed THEN "ok" ELSE "noent"

(* Thread t enters work_queue()/work_cancel() and blocks on the lock.      *)
Request(t) ==
  /\ req[t] = Idle
  /\ \E r \in Requests : req' = [req EXCEPT ![t] = r]
  /\ UNCHANGED <<now, q, armed, wpc, cur, stick, next, slept, running, ret>>

(* Thread t gets the lock, does its call and returns.                      *)
Perform(t) ==
  /\ req[t] /= Idle
  /\ ~Locked
  /\ Call(req[t])
  /\ ret' = IF req[t].op = "cancel"
              THEN [ret EXCEPT ![t] = CancelResult(req[t])] ELSE ret
  /\ req' = [req EXCEPT ![t] = Idle]
  /\ UNCHANGED <<now, wpc, cur, stick, next, slept, running>>

(* The running callback calls work_queue()/work_cancel() itself.           *)
CallbackCall ==
  /\ wpc = "call"
  /\ \E r \in Requests : Call(r)
  /\ UNCHANGED <<now, wpc, cur, stick, next, slept, running, req, ret>>

-----------------------------------------------------------------------------
(* work_process(), one action per step of the worker thread.  Its locals   *)
(* cur, stick and next go out of scope when it returns.                    *)

ReturnFromProcess ==
  /\ wpc' = "start"
  /\ cur' = 1
  /\ stick' = 0
  /\ next' = Period

(* Mutant: the scan starts at the second entry instead of the head.       *)
StartPassFromSecond ==
  /\ wpc = "start"
  /\ wpc' = "scan"
  /\ next' = Period
  /\ stick' = now
  /\ cur' = 2
  /\ UNCHANGED <<now, q, armed, slept, running, req, ret>>

(* next = wqueue->delay; work_lock(); stick = clock_systimer();            *)
(* work = wqueue->q.head.                                                  *)
StartPass ==
  /\ wpc = "start"
  /\ wpc' = "scan"
  /\ next' = Period
  /\ stick' = now
  /\ cur' = 1
  /\ UNCHANGED <<now, q, armed, slept, running, req, ret>>

(* Mutant: work->worker is not cleared before the worker is called.       *)
DequeueAndCallKeepsWorker ==
  /\ wpc = "scan"
  /\ cur <= Len(q)
  /\ Ready(q[cur], now)
  /\ q[cur].item \in armed
  /\ q' = RemoveAt(q, cur)
  /\ running' = q[cur].item
  /\ wpc' = "call"
  /\ UNCHANGED <<now, armed, cur, stick, next, slept, req, ret>>

(* A ready item with a worker: dq_rem() it, take its worker and arg, mark  *)
(* it no longer queued, work_unlock() and call the worker.                 *)
DequeueAndCall ==
  /\ wpc = "scan"
  /\ cur <= Len(q)
  /\ Ready(q[cur], now)
  /\ q[cur].item \in armed
  /\ q' = RemoveAt(q, cur)
  /\ armed' = armed \ {q[cur].item}
  /\ running' = q[cur].item
  /\ wpc' = "call"
  /\ UNCHANGED <<now, cur, stick, next, slept, req, ret>>

(* Mutant: after unlinking a cancelled entry the scan steps past the one   *)
(* that took its place.                                                    *)
SkipCancelledSkipsNext ==
  /\ wpc = "scan"
  /\ cur <= Len(q)
  /\ Ready(q[cur], now)
  /\ q[cur].item \notin armed
  /\ q' = RemoveAt(q, cur)
  /\ cur' = cur + 1
  /\ UNCHANGED <<now, armed, wpc, stick, next, slept, running, req, ret>>

(* A ready item whose worker is NULL: dq_rem() it and go on to the next.   *)
SkipCancelled ==
  /\ wpc = "scan"
  /\ cur <= Len(q)
  /\ Ready(q[cur], now)
  /\ q[cur].item \notin armed
  /\ q' = RemoveAt(q, cur)
  /\ UNCHANGED <<now, armed, wpc, cur, stick, next, slept, running, req, ret>>

(* An item that is not ready yet: shorten next to its remaining time.      *)
NotReady ==
  /\ wpc = "scan"
  /\ cur <= Len(q)
  /\ ~Ready(q[cur], now)
  /\ next' = MIN(Remaining(q[cur], now), next)
  /\ cur' = cur + 1
  /\ UNCHANGED <<now, q, armed, wpc, stick, slept, running, req, ret>>

(* End of the list: sleep, still holding the lock, for the smaller of      *)
(* next and what is left of the period; else unlock and return.           *)
FinishPass ==
  /\ wpc = "scan"
  /\ cur > Len(q)
  /\ LET elapsed == Sub(now, stick) IN
       IF elapsed < Period /\ next > 0
         THEN /\ slept' = MIN(next, Period - elapsed)
              /\ wpc' = "sleep"
              /\ UNCHANGED <<cur, stick, next>>
         ELSE /\ ReturnFromProcess
              /\ UNCHANGED slept
  /\ UNCHANGED <<now, q, armed, running, req, ret>>

(* usleep() returns when its time is up; work_unlock() and return.        *)
Wake ==
  /\ wpc = "sleep"
  /\ slept = 0
  /\ ReturnFromProcess
  /\ UNCHANGED <<now, q, armed, slept, running, req, ret>>

(* usleep() returns early because a signal arrived.                        *)
WakeBySignal ==
  /\ wpc = "sleep"
  /\ slept > 0
  /\ slept' = 0
  /\ ReturnFromProcess
  /\ UNCHANGED <<now, q, armed, running, req, ret>>

(* The worker function returns.                                            *)
CallbackReturn ==
  /\ wpc = "call"
  /\ wpc' = "relock"
  /\ running' = NoItem
  /\ UNCHANGED <<now, q, armed, cur, stick, next, slept, req, ret>>

(* work_lock() again and restart the scan from the head of the list;       *)
(* stick and next carry over.                                              *)
Relock ==
  /\ wpc = "relock"
  /\ wpc' = "scan"
  /\ cur' = 1
  /\ UNCHANGED <<now, q, armed, stick, next, slept, running, req, ret>>

(* work_lock() is interrupted by a signal: work_process() returns and      *)
(* work_usrthread() calls it again.                                        *)
RelockFail ==
  /\ wpc = "relock"
  /\ ReturnFromProcess
  /\ UNCHANGED <<now, q, armed, slept, running, req, ret>>

-----------------------------------------------------------------------------
(* The system timer.  It may not advance so far that a queued item's       *)
(* elapsed time wraps past zero: a wait of Wrap ticks stands for one of    *)
(* 2^32 ticks, which the model leaves out.                                 *)
NoWrapHorizon == \A e \in ToSet(q) : Elapsed(e, now) < Wrap - 1

Tick ==
  /\ NoWrapHorizon
  /\ now' = Add(now, 1)
  /\ slept' = IF slept > 0 THEN slept - 1 ELSE 0
  /\ UNCHANGED <<q, armed, wpc, cur, stick, next, running, req, ret>>

-----------------------------------------------------------------------------
(* work_usrstart(): g_usrwork.delay is set and the list initialised; the   *)
(* work_s structures are zero-initialised by their owners.                 *)
Init ==
  /\ now = 0
  /\ q = <<>>
  /\ armed = {}
  /\ wpc = "start"
  /\ cur = 1
  /\ stick = 0
  /\ next = Period
  /\ slept = 0
  /\ running = NoItem
  /\ req = [t \in Threads |-> Idle]
  /\ ret = [t \in Threads |-> "none"]

WorkerStep ==
  \/ StartPass \/ DequeueAndCall \/ SkipCancelled \/ NotReady
  \/ FinishPass \/ Wake \/ WakeBySignal \/ CallbackReturn
  \/ Relock \/ RelockFail

Next ==
  \/ WorkerStep
  \/ CallbackCall
  \/ \E t \in Threads : Request(t) \/ Perform(t)
  \/ Tick

(* The worker and the clock never stop; a sleep always ends (usleep()     *)
(* returns); a blocked caller gets the lock once it is free infinitely    *)
(* often, since a posted semaphore is handed to a waiter.  Callers need   *)
(* not call at all, and a callback need not call the API.                 *)
Fairness ==
  /\ WF_vars(WorkerStep)
  /\ WF_vars(Tick)
  /\ \A t \in Threads : SF_vars(Perform(t))

Spec == Init /\ [][Next]_vars /\ Fairness

-----------------------------------------------------------------------------
TypeOK ==
  /\ now \in Clock
  /\ q \in Seq(Entries)
  /\ armed \subseteq Items
  /\ wpc \in {"start", "scan", "call", "relock", "sleep"}
  /\ cur \in Nat \ {0}
  /\ wpc = "scan" => cur <= Len(q) + 1
  /\ stick \in Clock
  /\ next \in 0..Period
  /\ slept \in 0..Period
  /\ running \in Items \cup {NoItem}
  /\ req \in [Threads -> Requests \cup {Idle}]
  /\ ret \in [Threads -> {"none", "ok", "noent"}]

-----------------------------------------------------------------------------
(* Safety.                                                                 *)

(* Every item whose worker field is set is on the list.  work_process()    *)
(* clears the field before it unlocks to run the worker (line 189), and    *)
(* work_cancel() unlinks any item whose field is set: were an armed item   *)
(* off the list, a cancel racing the running callback would dq_rem() an    *)
(* unlinked node.                                                          *)
ArmedAreLinked == armed \subseteq Linked

(* The queue implements DeferredWork: the pending submissions are the      *)
(* armed entries of the list in list order, and the running callback is    *)
(* the one work_process() called with the lock released.  This checks the  *)
(* delay, cancel-result, at-most-once and delay-0 FIFO rules against every *)
(* interleaving of the scan with callers and callbacks.                    *)
PendingSeq == SelectSeq(q, LAMBDA e : e.item \in armed)

DW == INSTANCE DeferredWork WITH pending <- PendingSeq

Refinement == DW!Spec

(* Spec 4.2 step 4: the worker sleeps "for min(default_period -           *)
(* pass_duration, min_remaining_seen) - i.e., wake ... exactly when the    *)
(* nearest pending item becomes eligible".  Checked here: while the worker *)
(* sleeps, no pending item falls due before the sleep is over.  The code   *)
(* measures each item's remaining time when it is scanned (lines 231-241)  *)
(* but sleeps from the end of the pass (line 274).                         *)
NoOversleep ==
  wpc = "sleep" =>
    \A e \in ToSet(PendingSeq) :
      slept <= e.delay - MIN(Elapsed(e, now), e.delay)

(* Spec 4.2 step 4: "Release the Queue Lock before sleeping."  Checked     *)
(* here: a caller blocked in work_queue()/work_cancel() while the worker   *)
(* sleeps can take the lock.  The code calls usleep() at line 274 and      *)
(* work_unlock() only at line 277.                                         *)
CallerNotBlockedBySleep ==
  \A t \in Threads :
    (wpc = "sleep" /\ req[t] /= Idle /\ req[t].op = "cancel")
      => ENABLED Perform(t)

-----------------------------------------------------------------------------
(* Liveness.                                                               *)

(* Every armed item is eventually called or cancelled, however the worker  *)
(* restarts its scan and whatever callbacks submit in between.             *)
PendingEventuallyRuns == \A i \in Items : (i \in armed) ~> (i \notin armed)

=============================================================================
