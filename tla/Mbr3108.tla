------------------------------ MODULE Mbr3108 ------------------------------
(***************************************************************************)
(* The Cypress MBR3108 CapSense driver, drivers/input/cypress_mbr3108.c:   *)
(* user threads calling open(), close(), read(), write() and poll() on     *)
(* /dev node, and the chip's interrupt running mbr3108_isr_handler().      *)
(*                                                                         *)
(* Every file operation runs under priv->devsem, so two operations never   *)
(* interleave; the interrupt handler runs whenever the interrupt line is   *)
(* enabled, between any two steps of a thread, and is never interrupted   *)
(* itself (one CPU).  An operation is one step, except read(), which the   *)
(* handler can interrupt between its I2C status read and its clearing of   *)
(* int_pending.                                                            *)
(*                                                                         *)
(* Each user thread owns one open file; a poll() by the thread uses one    *)
(* struct pollfd.  Board callbacks, the probe and the configuration are   *)
(* abstracted to the outcome their callers test.  read() and the debug    *)
(* set-up take their results from the retry loops of Mbr3108I2c over the  *)
(* answers the bus gives.                                                  *)
(***************************************************************************)
EXTENDS Integers, FiniteSets, FiniteSetsExt, Functions

CONSTANTS
  Users,          \* threads, each with its own open file on the device
  NPollWaiters,   \* CONFIG_INPUT_CYPRESS_MBR3108_NPOLLWAITERS
  None,           \* a NULL pointer: no thread holds devsem / no pollfd
  Retries,        \* MBR3108_I2C_RETRIES
  SyncRetries,    \* MBR3108_SYNC_RETRIES
  I2CReset        \* whether CONFIG_I2C_RESET is set

ASSUME NPollWaiters \in Nat \ {0} /\ None \notin Users

Slots == 1..NPollWaiters

I2C == INSTANCE Mbr3108I2c

EINVAL == -22

VARIABLES
  sensor_conf,  \* whether the board passed a configuration to register()
  cref,         \* priv->cref, the number of open files
  power,        \* the board's set_power() state
  irqen,        \* the board's irq_enable() state
  debug,        \* priv->debug_conf.debug_mode
  int_pending,  \* priv->int_pending
  unread,       \* the chip raised an interrupt whose status no read returned
  fds,          \* priv->fds[]: the pollfd bound to each slot, or None
  fpriv,        \* fpriv[u]: the slot fds->priv of u's pollfd points to (0: NULL)
  revents,      \* revents[u]: POLLIN set in u's pollfd and its sem posted
  devsem,       \* the thread holding priv->devsem, or None
  pc,           \* pc[u]: "closed", "idle" (open), "read", "pollwait"
  lastread      \* the bus answers the read() in progress saw, and its result

vars == <<sensor_conf, cref, power, irqen, debug, int_pending, unread,
          fds, fpriv, revents, devsem, pc, lastread>>

-----------------------------------------------------------------------------
(* Outcomes of the chip and board calls, as their callers test them.       *)

(* mbr3108_probe_device(): the multi-byte ID read fails, or the family,    *)
(* device id or revision differ from the expected ones, or all match.      *)
ProbeResults == {"ok", "read_failed", "id_mismatch"}

(* mbr3108_device_configuration(): the CTRL_CMD read fails, the chip is    *)
(* still busy, the configuration write fails, saving and checking the CRC  *)
(* fails, the software reset fails, or all succeed.  The last two are      *)
(* commands that are written, waited for and confirmed by reading the     *)
(* command status registers.                                               *)
ConfigResults ==
  {"ok", "ctrl_read_failed", "busy", "write_failed", "crc_failed", "reset_failed"}

(* A read() with a buffer of the wrong size: no transfer, -EINVAL.        *)
NoTransfer ==
  [debug |-> FALSE, sized |-> FALSE, xfers |-> [k \in 1..Retries |-> "nack"],
   resets |-> [k \in 1..Retries |-> "ok"],
   syncs |-> [k \in 1..SyncRetries |-> "mismatch"], ret |-> EINVAL]

(* What read() can see and return in debug mode dbg: -EINVAL for a buffer *)
(* of the wrong size; otherwise mbr3108_get_sensor_debug_data()'s sync    *)
(* loop, or mbr3108_get_sensor_status()'s mbr3108_i2c_read() (0 on        *)
(* success, its error otherwise).                                          *)
ReadOutcomes(dbg) ==
  {NoTransfer} \cup
  IF dbg THEN {[NoTransfer EXCEPT !.debug = TRUE, !.sized = TRUE, !.syncs = s,
                                  !.ret = I2C!SyncRead(s)] : s \in I2C!SyncSeqs}
  ELSE {[NoTransfer EXCEPT !.sized = TRUE, !.xfers = x, !.resets = r,
                           !.ret = I2C!I2CRead(x, r)] :
          x \in I2C!AnswerSeqs, r \in I2C!ResetSeqs}

(* Mutant: a failed configuration in open() leaves the chip powered.      *)
PoweredAfterOpenNoOffOnConfFail(pwrok, probe, conf) == pwrok /\ probe = "ok"

(* Whether the chip is left powered after the first open: set_power(TRUE)  *)
(* succeeded, and neither the failed probe nor the failed configuration    *)
(* powered it off again.                                                   *)
PoweredAfterOpen(pwrok, probe, conf) == pwrok /\ probe = "ok" /\ conf = "ok"

(* mbr3108_poll_notify(): set POLLIN in, and post, every bound pollfd.     *)
PollNotify(slots, ev) == [v \in Users |-> ev[v] \/ v \in Range(slots)]

-----------------------------------------------------------------------------
(* mbr3108_open() by the first user: power on, probe, configure if the     *)
(* board gave a configuration (which enables the interrupt line), and      *)
(* power off again on any failure.                                         *)
OpenFirst(u) ==
  /\ pc[u] = "closed" /\ devsem = None
  /\ cref = 0
  /\ \E pwrok \in BOOLEAN, probe \in ProbeResults,
        conf \in IF sensor_conf THEN ConfigResults ELSE {"ok"} :
       LET ok == pwrok /\ probe = "ok" /\ conf = "ok"
       IN  /\ power' = PoweredAfterOpen(pwrok, probe, conf)
           /\ irqen' = (irqen \/ (ok /\ sensor_conf))
           /\ cref' = IF ok THEN 1 ELSE 0
           /\ pc' = [pc EXCEPT ![u] = IF ok THEN "idle" ELSE "closed"]
  /\ UNCHANGED <<sensor_conf, debug, int_pending, unread, fds, fpriv,
                 revents, devsem, lastread>>

(* mbr3108_open() while the device is already open.                        *)
OpenShared(u) ==
  /\ pc[u] = "closed" /\ devsem = None
  /\ cref > 0
  /\ cref' = cref + 1
  /\ pc' = [pc EXCEPT ![u] = "idle"]
  /\ UNCHANGED <<sensor_conf, power, irqen, debug, int_pending, unread,
                 fds, fpriv, revents, devsem, lastread>>

(* mbr3108_close() by the last user: disable the interrupt, put the chip   *)
(* in low-power mode, power it off (losing its status) and leave debug    *)
(* mode.  int_pending is left as it is.                                    *)
CloseLast(u) ==
  /\ pc[u] = "idle" /\ devsem = None
  /\ cref = 1
  /\ irqen' = FALSE
  /\ power' = FALSE
  /\ debug' = FALSE
  /\ unread' = FALSE
  /\ cref' = 0
  /\ pc' = [pc EXCEPT ![u] = "closed"]
  /\ UNCHANGED <<sensor_conf, int_pending, fds, fpriv, revents, devsem, lastread>>

(* mbr3108_close() while other files stay open.                            *)
CloseShared(u) ==
  /\ pc[u] = "idle" /\ devsem = None
  /\ cref > 1
  /\ cref' = cref - 1
  /\ pc' = [pc EXCEPT ![u] = "closed"]
  /\ UNCHANGED <<sensor_conf, power, irqen, debug, int_pending, unread,
                 fds, fpriv, revents, devsem, lastread>>

(* write() of CYPRESS_MBR3108_CMD_SENSOR_CONF: mbr3108_device_configuration *)
(* enables the interrupt line once the chip is configured and reset.       *)
WriteSensorConf(u) ==
  /\ pc[u] = "idle" /\ devsem = None
  /\ \E conf \in ConfigResults : irqen' = (irqen \/ conf = "ok")
  /\ UNCHANGED <<sensor_conf, cref, power, debug, int_pending, unread,
                 fds, fpriv, revents, devsem, pc, lastread>>

(* write() of CYPRESS_MBR3108_CMD_DEBUG_CONF: mbr3108_debug_setup() stores *)
(* the new mode, then writes the debug sensor id to SENSOR_ID, and leaves  *)
(* debug mode again if that write fails.                                   *)
WriteDebugConf(u) ==
  /\ pc[u] = "idle" /\ devsem = None
  /\ \E mode \in BOOLEAN, wrok \in {I2C!I2CWrite(x) = 0 : x \in I2C!AnswerSeqs} :
       /\ debug' = (mode /\ wrok)
  /\ UNCHANGED <<sensor_conf, cref, power, irqen, int_pending, unread, fds,
                 fpriv, revents, devsem, pc, lastread>>

(* mbr3108_read() up to the I2C transfer: take devsem and read the sensor  *)
(* status (or debug data); data handed back is the chip's latest status.   *)
ReadStart(u) ==
  /\ pc[u] = "idle" /\ devsem = None
  /\ devsem' = u
  /\ \E rd \in ReadOutcomes(debug) :
       /\ lastread' = rd
       /\ unread' = (unread /\ rd.ret /= 0)
  /\ pc' = [pc EXCEPT ![u] = "read"]
  /\ UNCHANGED <<sensor_conf, cref, power, irqen, debug, int_pending,
                 fds, fpriv, revents>>

(* mbr3108_read() after the transfer: clear int_pending with interrupts    *)
(* masked, whatever the result, and release devsem.                        *)
ReadEnd(u) ==
  /\ pc[u] = "read"
  /\ int_pending' = FALSE
  /\ devsem' = None
  /\ pc' = [pc EXCEPT ![u] = "idle"]
  /\ lastread' = NoTransfer
  /\ UNCHANGED <<sensor_conf, cref, power, irqen, debug, unread, fds,
                 fpriv, revents>>

(* The slot search of mbr3108_poll(): the first free slot, or one past the  *)
(* last when all are taken.                                                *)
FirstFreeSlot == Min({j \in Slots : fds[j] = None} \cup {NPollWaiters + 1})

(* Mutant: the -EBUSY test is one slot late.                               *)
SlotsExhaustedOffByOne(i) == i > NPollWaiters + 1

(* The -EBUSY test: the search ran past the last slot.                     *)
SlotsExhausted(i) == i > NPollWaiters

(* Mutant: set-up does not look at int_pending.                            *)
PollSetupNoPendingCheck(u) ==
  /\ pc[u] = "idle" /\ devsem = None
  /\ ~SlotsExhausted(FirstFreeSlot)
  /\ LET i == FirstFreeSlot
     IN  /\ fds' = [fds EXCEPT ![i] = u]
         /\ fpriv' = [fpriv EXCEPT ![u] = i]
         /\ revents' = [revents EXCEPT ![u] = FALSE]
  /\ pc' = [pc EXCEPT ![u] = "pollwait"]
  /\ UNCHANGED <<sensor_conf, cref, power, irqen, debug, int_pending,
                 unread, devsem, lastread>>

(* poll() set-up (mbr3108_poll() with setup true and POLLIN requested):    *)
(* poll() clears revents, the driver binds the first free slot and         *)
(* notifies at once if an interrupt is pending.  With no free slot it      *)
(* returns -EBUSY and nothing changes; without POLLIN it returns -EDEADLK. *)
PollSetup(u) ==
  /\ pc[u] = "idle" /\ devsem = None
  /\ ~SlotsExhausted(FirstFreeSlot)
  /\ LET i    == FirstFreeSlot
         fds1 == [fds EXCEPT ![i] = u]
         ev0  == [revents EXCEPT ![u] = FALSE]
     IN  /\ fds' = fds1
         /\ fpriv' = [fpriv EXCEPT ![u] = i]
         /\ revents' = IF int_pending THEN PollNotify(fds1, ev0) ELSE ev0
  /\ pc' = [pc EXCEPT ![u] = "pollwait"]
  /\ UNCHANGED <<sensor_conf, cref, power, irqen, debug, int_pending,
                 unread, devsem, lastread>>

(* Mutant: tear-down forgets "*slot = NULL".                               *)
PollTeardownKeepsSlot(u) ==
  /\ pc[u] = "pollwait" /\ devsem = None
  /\ fpriv' = [fpriv EXCEPT ![u] = 0]
  /\ revents' = [revents EXCEPT ![u] = FALSE]
  /\ pc' = [pc EXCEPT ![u] = "idle"]
  /\ UNCHANGED <<sensor_conf, cref, power, irqen, debug, int_pending,
                 unread, fds, devsem, lastread>>

(* poll() tear-down after its semaphore was posted or it timed out:        *)
(* mbr3108_poll() with setup false clears the slot and fds->priv.          *)
PollTeardown(u) ==
  /\ pc[u] = "pollwait" /\ devsem = None
  /\ fds' = [fds EXCEPT ![fpriv[u]] = None]
  /\ fpriv' = [fpriv EXCEPT ![u] = 0]
  /\ revents' = [revents EXCEPT ![u] = FALSE]
  /\ pc' = [pc EXCEPT ![u] = "idle"]
  /\ UNCHANGED <<sensor_conf, cref, power, irqen, debug, int_pending,
                 unread, devsem, lastread>>

(* mbr3108_isr_handler(): the chip signals a status change on an enabled   *)
(* line; the handler records it and notifies every bound pollfd.           *)
Isr ==
  /\ irqen /\ power
  /\ int_pending' = TRUE
  /\ unread' = TRUE
  /\ revents' = PollNotify(fds, revents)
  /\ UNCHANGED <<sensor_conf, cref, power, irqen, debug, fds, fpriv,
                 devsem, pc, lastread>>

-----------------------------------------------------------------------------
(* cypress_mbr3108_register(): a zeroed device structure, the interrupt    *)
(* line attached and disabled; the chip is unpowered until the first open. *)
Init ==
  /\ sensor_conf \in BOOLEAN
  /\ cref = 0
  /\ power = FALSE
  /\ irqen = FALSE
  /\ debug = FALSE
  /\ int_pending = FALSE
  /\ unread = FALSE
  /\ fds = [i \in Slots |-> None]
  /\ fpriv = [u \in Users |-> 0]
  /\ revents = [u \in Users |-> FALSE]
  /\ devsem = None
  /\ pc = [u \in Users |-> "closed"]
  /\ lastread = NoTransfer

Next ==
  \/ \E u \in Users :
       \/ OpenFirst(u) \/ OpenShared(u) \/ CloseLast(u) \/ CloseShared(u)
       \/ WriteSensorConf(u) \/ WriteDebugConf(u)
       \/ ReadStart(u) \/ ReadEnd(u) \/ PollSetup(u) \/ PollTeardown(u)
  \/ Isr

Spec == Init /\ [][Next]_vars

-----------------------------------------------------------------------------
TypeOK ==
  /\ sensor_conf \in BOOLEAN
  /\ cref \in 0..Cardinality(Users)
  /\ {power, irqen, debug, int_pending, unread} \subseteq BOOLEAN
  /\ fds \in [Slots -> Users \cup {None}]
  /\ fpriv \in [Users -> 0..NPollWaiters]
  /\ revents \in [Users -> BOOLEAN]
  /\ devsem \in Users \cup {None}
  /\ pc \in [Users -> {"closed", "idle", "read", "pollwait"}]
  /\ lastread \in ReadOutcomes(FALSE) \cup ReadOutcomes(TRUE)

(* The reference count, the power and the interrupt line agree with the    *)
(* open files through every open (including its three failure paths),     *)
(* close and reconfiguration: cref counts the open files, the chip is      *)
(* powered exactly while a file is open, and the line is enabled only on   *)
(* a powered chip.                                                         *)
PowerFollowsUsers ==
  /\ cref = Cardinality({u \in Users : pc[u] /= "closed"})
  /\ power <=> cref > 0
  /\ irqen => power

(* priv->fds[] holds only pollfds of threads still inside poll(), each in  *)
(* the slot its fds->priv names: a slot left behind by tear-down would let *)
(* the interrupt handler write into a pollfd whose poll() has returned.    *)
NoDanglingSlot ==
  /\ \A i \in Slots : fds[i] /= None =>
        pc[fds[i]] = "pollwait" /\ fpriv[fds[i]] = i
  /\ \A u \in Users : fpriv[u] /= 0 => fds[fpriv[u]] = u

(* No poller sleeps through a pending interrupt: while int_pending is set, *)
(* every bound pollfd has been posted, whether it was bound before the     *)
(* interrupt (the handler's notify) or after it (set-up's notify).         *)
PollerNotified ==
  int_pending => \A i \in Slots : fds[i] /= None => revents[fds[i]]


(* read() in status mode returns the chip's status (0 from               *)
(* mbr3108_get_sensor_status()) exactly when the chip acknowledged a      *)
(* transfer before any bus reset failed, so the buffer it hands back was  *)
(* really filled: a successful bus reset after a failed last attempt must *)
(* not be taken for a successful read, which is what the break at         *)
(* retries == MBR3108_I2C_RETRIES - 1 prevents.  The debug set-up's       *)
(* SENSOR_ID write succeeds exactly on an acknowledged transfer.           *)
I2CSucceedsOnlyOnAck ==
  /\ (lastread.sized /\ ~lastread.debug) =>
        ((lastread.ret = 0) <=> I2C!AckedBeforeFailedReset(lastread.xfers, lastread.resets))
  /\ \A x \in I2C!AnswerSeqs : (I2C!I2CWrite(x) = 0) <=> I2C!WriteAcked(x)

(* read() in debug mode returns debug data exactly when a read with       *)
(* matching sync counters came within MBR3108_SYNC_RETRIES passes, a read *)
(* error when a read failed first, and -EIO only when every pass saw      *)
(* differing counters; a match on the very last pass counts.              *)
SyncReadReference ==
  (lastread.sized /\ lastread.debug) => lastread.ret = I2C!SyncReference(lastread.syncs)

(* An interrupt whose status no read() returned stays pending, so the next *)
(* poll() reports it: read() clears int_pending after its I2C transfer     *)
(* (lines 753-755), also when the transfer failed or the buffer had the   *)
(* wrong size, and also when the interrupt came during the transfer.       *)
EventNotLost == unread => int_pending

=============================================================================
