---------------------------- MODULE DeferredWork ----------------------------
(***************************************************************************)
(* What the work queue promises its callers, with no list, lock, cursor or *)
(* sleep: a sequence of pending submissions in submission order, at most   *)
(* one callback running, and three rules.                                  *)
(*   - A submission starts only once its delay has elapsed on the tick     *)
(*     counter, and never while an earlier pending one has delay 0.        *)
(*   - work_cancel() reports "ok" exactly when the item was pending, and a *)
(*     cancelled submission never starts.                                  *)
(*   - A submission starts at most once.                                   *)
(***************************************************************************)
EXTENDS Naturals, Sequences, SequencesExt

CONSTANTS Items, Threads, Wrap, Delays, NoItem

VARIABLES
  now,      \* the tick counter
  pending,  \* submissions not yet started or cancelled, oldest first
  running,  \* the item whose callback is running, or NoItem
  ret       \* ret[t]: the result of thread t's last cancel

vars == <<now, pending, running, ret>>

PendingItems == {e.item : e \in ToSet(pending)}

Due(e) == (now - e.qtime) % Wrap >= e.delay

Init ==
  /\ now = 0
  /\ pending = <<>>
  /\ running = NoItem
  /\ ret = [t \in Threads |-> "none"]

Tick ==
  /\ now' = (now + 1) % Wrap
  /\ UNCHANGED <<pending, running, ret>>

(* A submission with a callback joins the end of the pending sequence; one *)
(* without a callback never runs.                                          *)
Submit(i, cb, d) ==
  /\ i \notin PendingItems
  /\ pending' = IF cb THEN Append(pending, [item |-> i, qtime |-> now, delay |-> d])
                ELSE pending
  /\ UNCHANGED <<now, running, ret>>

Withdraw(i) == pending' = SelectSeq(pending, LAMBDA e : e.item /= i)

(* A thread's cancel, with its result.                                     *)
Cancel(t, i) ==
  /\ Withdraw(i)
  /\ ret' = [ret EXCEPT ![t] = IF i \in PendingItems THEN "ok" ELSE "noent"]
  /\ UNCHANGED <<now, running>>

(* A cancel made by a running callback; its result is not kept.            *)
CallbackCancel(i) ==
  /\ running /= NoItem
  /\ Withdraw(i)
  /\ UNCHANGED <<now, running, ret>>

Start(k) ==
  /\ running = NoItem
  /\ Due(pending[k])
  /\ \A j \in 1..(k - 1) : pending[j].delay /= 0
  /\ running' = pending[k].item
  /\ pending' = RemoveAt(pending, k)
  /\ UNCHANGED <<now, ret>>

Finish ==
  /\ running /= NoItem
  /\ running' = NoItem
  /\ UNCHANGED <<now, pending, ret>>

Next ==
  \/ Tick
  \/ \E i \in Items, cb \in BOOLEAN, d \in Delays : Submit(i, cb, d)
  \/ \E t \in Threads, i \in Items : Cancel(t, i)
  \/ \E i \in Items : CallbackCancel(i)
  \/ \E k \in 1..Len(pending) : Start(k)
  \/ Finish

Spec == Init /\ [][Next]_vars

=============================================================================
