---------------------------- MODULE Mbr3108I2c ----------------------------
(***************************************************************************)
(* The retry loops of drivers/input/cypress_mbr3108.c, as operators of the *)
(* sequence of answers the bus gives: mbr3108_i2c_write(),                 *)
(* mbr3108_i2c_read() (with and without CONFIG_I2C_RESET) and the          *)
(* sync-counter loop of mbr3108_get_sensor_debug_data(), with reference   *)
(* definitions of what their callers rely on.  Mbr3108 instantiates this  *)
(* module: its read() and debug set-up take their results from these      *)
(* loops over the answers the bus gives, and its properties compare them  *)
(* with the references.                                                    *)
(*                                                                         *)
(* A transfer answers "ack" (I2C_TRANSFER() >= 0), "nack" (-ENXIO: the     *)
(* chip is waking from low-power mode) or "err" (any other error); a bus   *)
(* reset answers "ok" or "fail".  Return values are 0 or a negated errno, *)
(* as in the code.                                                         *)
(***************************************************************************)
EXTENDS Integers, Sequences

CONSTANTS
  Retries,      \* MBR3108_I2C_RETRIES
  SyncRetries,  \* MBR3108_SYNC_RETRIES
  I2CReset      \* whether CONFIG_I2C_RESET is set

ASSUME Retries \in Nat \ {0} /\ SyncRetries \in Nat \ {0} /\ I2CReset \in BOOLEAN

Answers == {"ack", "nack", "err"}

(* Negated errno values: EIO and ENXIO as in NuttX's errno.h; BusErr       *)
(* stands for whatever other error the I2C driver returns, ResetErr for    *)
(* up_i2creset()'s error, and ReadErr for a failed read in the sync loop.  *)
EIO      == -5
ENXIO    == -6
BusErr   == -16
ResetErr == -22
ReadErr  == -70

(* The value I2C_TRANSFER() returns for an answer.                         *)
TransferRet(a) == CASE a = "ack"  -> 0
                    [] a = "nack" -> ENXIO
                    [] a = "err"  -> BusErr

(* mbr3108_i2c_write(): retry until a transfer succeeds; NACKs and other   *)
(* errors alike are retried, and the last transfer's error is returned.    *)
I2CWrite(x) ==
  LET RECURSIVE Loop(_, _)
      Loop(retries, ret) ==
        IF retries >= Retries THEN ret
        ELSE LET a == x[retries + 1]
             IN  IF a = "nack" THEN Loop(retries + 1, TransferRet(a))
                 ELSE IF a = "ack" THEN 0
                 ELSE Loop(retries + 1, TransferRet(a))
  IN  Loop(0, EIO)

(* Mutant: the bus reset is also tried after the last attempt's error.     *)
LastAttemptNoBreak(retries) == FALSE

(* The break of mbr3108_i2c_read() before resetting the bus after the last *)
(* attempt.                                                                *)
LastAttempt(retries) == retries = Retries - 1

(* mbr3108_i2c_read(): NACKs are retried; with CONFIG_I2C_RESET any other  *)
(* error resets the bus (returning at once if that fails, and leaving ret  *)
(* at the reset's 0 otherwise) except after the last attempt.              *)
I2CRead(x, rst) ==
  LET RECURSIVE Loop(_, _)
      Loop(retries, ret) ==
        IF retries >= Retries THEN ret
        ELSE LET a == x[retries + 1]
             IN  IF a = "nack" THEN Loop(retries + 1, TransferRet(a))
                 ELSE IF a = "ack" THEN 0
                 ELSE IF ~I2CReset THEN Loop(retries + 1, TransferRet(a))
                 ELSE IF LastAttempt(retries) THEN TransferRet(a)
                 ELSE IF rst[retries + 1] = "fail" THEN ResetErr
                 ELSE Loop(retries + 1, 0)
  IN  Loop(0, EIO)

(* One pass of the sync loop: the multi-byte read fails, or it succeeds    *)
(* and SYNC_COUNTER1 and SYNC_COUNTER2 differ or match.                    *)
SyncAnswers == {"readfail", "mismatch", "match"}

(* Mutant: a match on the last pass is taken for running out of passes.   *)
SyncExhaustedOffByOne(retries) == retries <= 1

(* The test after the loop: the loop ran out of passes.                    *)
SyncExhausted(retries) == retries = 0

(* mbr3108_get_sensor_debug_data(): count retries down from SyncRetries,   *)
(* return a failed read's error at once, stop at a matching pair, and      *)
(* report -EIO if the count reached 0.                                     *)
SyncRead(s) ==
  LET RECURSIVE Loop(_)
      Loop(retries) ==
        IF ~(retries > 0) THEN retries
        ELSE LET a == s[SyncRetries - retries + 1]
             IN  IF a = "readfail" THEN ReadErr
                 ELSE IF a = "match" THEN retries
                 ELSE Loop(retries - 1)
      left == Loop(SyncRetries)
  IN  IF left = ReadErr THEN ReadErr
      ELSE IF SyncExhausted(left) THEN EIO
      ELSE 0

-----------------------------------------------------------------------------
(* Every answer sequence of the bounded length: the transfers' answers,   *)
(* the bus resets' answers and the passes of the sync loop.               *)
AnswerSeqs == [1..Retries -> Answers]
ResetSeqs  == [1..Retries -> {"ok", "fail"}]
SyncSeqs   == [1..SyncRetries -> SyncAnswers]

(* Reference: a transfer succeeds within the retries and, before it, every *)
(* bus reset the read performed succeeded.                                 *)
AckedBeforeFailedReset(x, rst) ==
  \E k \in 1..Retries :
    /\ x[k] = "ack"
    /\ \A j \in 1..(k - 1) : (I2CReset /\ x[j] = "err") => rst[j] = "ok"

(* Reference: a write succeeds when a transfer was acknowledged.          *)
WriteAcked(x) == \E k \in 1..Retries : x[k] = "ack"

(* Reference: the first pass that does not mismatch decides.              *)
FirstDecisive(s) ==
  LET d == {k \in 1..SyncRetries : s[k] /= "mismatch"}
  IN  IF d = {} THEN "none" ELSE s[CHOOSE k \in d : \A j \in d : k <= j]

(* Reference: what the debug read returns for the passes it saw.          *)
SyncReference(s) ==
  CASE FirstDecisive(s) = "match"    -> 0
    [] FirstDecisive(s) = "readfail" -> ReadErr
    [] FirstDecisive(s) = "none"     -> EIO

=============================================================================
