---------------------------- MODULE Mbr3108Cmd ----------------------------
(***************************************************************************)
(* The command protocol of drivers/input/cypress_mbr3108.c: a command is   *)
(* written to CTRL_CMD and confirmed by a multi-byte read of CTRL_CMD,     *)
(* CTRL_CMD_STATUS and CTRL_CMD_ERR (mbr3108_check_cmd_status()).          *)
(* mbr3108_save_check_crc(), mbr3108_software_reset() and                  *)
(* mbr3108_clear_latched() are such commands; mbr3108_device_configuration *)
(* chains a CTRL_CMD read, the configuration write and two of them; and    *)
(* write() of CYPRESS_MBR3108_CMD_CLEAR_LATCHED returns the third.         *)
(*                                                                         *)
(* An I2C transfer is abstracted to what mbr3108_i2c_write() and           *)
(* mbr3108_i2c_read() return (their retry loops are checked in            *)
(* Mbr3108I2c); the registers the chip answers with are small sets.        *)
(***************************************************************************)
EXTENDS Integers, Bitwise

CONSTANTS
  CmdErrs,      \* the codes the chip leaves in CTRL_CMD_ERR after a failed command
  TypeSize      \* sizeof(enum mbr3108_cmd_e)

ASSUME CmdErrs \subseteq 0..255 /\ TypeSize \in Nat \ {0}

(* Negated errno values as in NuttX's errno.h; I2CErr stands for any error *)
(* the I2C helpers return.                                                  *)
EIO    == -5
ENXIO  == -6
EBUSY  == -16
EINVAL == -22
I2CErr == ENXIO

(* Values of CTRL_CMD: the chip is done, or still busy with a command.      *)
MBR3108_CMD_COMPLETED        == 0
MBR3108_CMD_CHECK_CONFIG_CRC == 2
MBR3108_CMD_STATUS_SUCCESS   == 0
MBR3108_CMD_STATUS_MASK      == 1

(* What the chip answers to one command: the write of CTRL_CMD, the status *)
(* read, and the three registers that read returns.                        *)
CmdAnswers ==
  [wr : {0, I2CErr}, rd : {0, I2CErr},
   cmd : {MBR3108_CMD_COMPLETED, MBR3108_CMD_CHECK_CONFIG_CRC},
   status : 0..2, err : CmdErrs]

(* Mutant: the status compared without the mask.                           *)
StatusSuccessUnmasked(s) == s = MBR3108_CMD_STATUS_SUCCESS

(* (cmd_status & MBR3108_CMD_STATUS_MASK) == MBR3108_CMD_STATUS_SUCCESS    *)
StatusSuccess(s) == (s & MBR3108_CMD_STATUS_MASK) = MBR3108_CMD_STATUS_SUCCESS

(* mbr3108_check_cmd_status(): the read's error, -EBUSY while CTRL_CMD is  *)
(* not COMPLETED, 0 on a successful status, and otherwise cmd_err itself.  *)
CheckCmdStatus(a) ==
  IF a.rd < 0 THEN a.rd
  ELSE IF a.cmd /= MBR3108_CMD_COMPLETED THEN EBUSY
  ELSE IF StatusSuccess(a.status) THEN 0
  ELSE a.err

(* Mutant: the status check's result is returned as it is.                 *)
ConfirmedCommandNoErrMap(a) ==
  IF a.wr < 0 THEN a.wr ELSE CheckCmdStatus(a)

(* The body of mbr3108_save_check_crc(): the write's error, or the status  *)
(* check's, with a positive cmd_err turned into -EIO.                      *)
ConfirmedCommand(a) ==
  IF a.wr < 0 THEN a.wr
  ELSE LET ret == CheckCmdStatus(a)
       IN  IF ret /= 0 THEN (IF ret < 0 THEN ret ELSE EIO) ELSE 0

(* mbr3108_software_reset() and mbr3108_clear_latched() have the same body *)
(* with another command and wait.                                          *)
SoftwareReset(a) == ConfirmedCommand(a)

ClearLatched(a) == ConfirmedCommand(a)

(* mbr3108_device_configuration(): read CTRL_CMD, give up with -EBUSY if   *)
(* the chip is busy, write the configuration, then save and check the CRC *)
(* and reset the chip, returning the first error.                          *)
DeviceConfiguration(c, crc, rst) ==
  IF c.rd < 0 THEN c.rd
  ELSE IF c.value /= MBR3108_CMD_COMPLETED THEN EBUSY
  ELSE IF c.wr < 0 THEN c.wr
  ELSE IF ConfirmedCommand(crc) < 0 THEN ConfirmedCommand(crc)
  ELSE IF SoftwareReset(rst) < 0 THEN SoftwareReset(rst)
  ELSE 0

(* mbr3108_write() of CYPRESS_MBR3108_CMD_CLEAR_LATCHED: -EINVAL for a     *)
(* buffer shorter than the type or not exactly the type, the command's     *)
(* error, or buflen.                                                       *)
WriteClearLatched(buflen, a) ==
  IF buflen < TypeSize \/ buflen /= TypeSize THEN EINVAL
  ELSE LET ret == ClearLatched(a) IN IF ret < 0 THEN ret ELSE buflen

-----------------------------------------------------------------------------
(* One state per combination of answers: the CTRL_CMD read and the        *)
(* configuration write, the answers to two commands, and the length of a  *)
(* write() buffer; each step changes one of them.                          *)
VARIABLES ctrl, cmd1, cmd2, wlen

vars == <<ctrl, cmd1, cmd2, wlen>>

CtrlAnswers ==
  [rd : {0, I2CErr},
   value : {MBR3108_CMD_COMPLETED, MBR3108_CMD_CHECK_CONFIG_CRC},
   wr : {0, I2CErr}]

Lengths == {TypeSize - 1, TypeSize, TypeSize + 1}

Done == [wr |-> 0, rd |-> 0, cmd |-> MBR3108_CMD_COMPLETED,
         status |-> MBR3108_CMD_STATUS_SUCCESS, err |-> CHOOSE e \in CmdErrs : TRUE]

Init ==
  /\ ctrl = [rd |-> 0, value |-> MBR3108_CMD_COMPLETED, wr |-> 0]
  /\ cmd1 = Done /\ cmd2 = Done
  /\ wlen = TypeSize

ChangeCtrl ==
  /\ \E c \in CtrlAnswers : ctrl' = c
  /\ UNCHANGED <<cmd1, cmd2, wlen>>

ChangeCommand ==
  \/ \E a \in CmdAnswers : cmd1' = a /\ UNCHANGED <<ctrl, cmd2, wlen>>
  \/ \E a \in CmdAnswers : cmd2' = a /\ UNCHANGED <<ctrl, cmd1, wlen>>

ChangeLength ==
  /\ \E n \in Lengths : wlen' = n
  /\ UNCHANGED <<ctrl, cmd1, cmd2>>

Next == ChangeCtrl \/ ChangeCommand \/ ChangeLength

Spec == Init /\ [][Next]_vars

-----------------------------------------------------------------------------
(* Reference: the command was written and read back, CTRL_CMD says         *)
(* COMPLETED and the status bit says success.                              *)
Confirmed(a) ==
  /\ a.wr = 0 /\ a.rd = 0
  /\ a.cmd = MBR3108_CMD_COMPLETED
  /\ a.status % 2 = MBR3108_CMD_STATUS_SUCCESS

(* open() and write() test the result of mbr3108_device_configuration()   *)
(* with ret < 0 and enable the interrupt on anything else; write() of     *)
(* CLEAR_LATCHED returns ret < 0 ? ret : buflen.  So the configuration     *)
(* must return 0 exactly when the chip was idle, took the configuration  *)
(* and confirmed both the CRC check and the reset, and a negative error    *)
(* otherwise (never the chip's positive cmd_err); and CLEAR_LATCHED must   *)
(* return the buffer length exactly when the length is right and the      *)
(* chip confirmed the command.                                              *)
CommandsConfirmed ==
  /\ LET ok  == /\ ctrl.rd = 0 /\ ctrl.value = MBR3108_CMD_COMPLETED /\ ctrl.wr = 0
                /\ Confirmed(cmd1) /\ Confirmed(cmd2)
         ret == DeviceConfiguration(ctrl, cmd1, cmd2)
     IN  IF ok THEN ret = 0 ELSE ret < 0
  /\ LET ret == WriteClearLatched(wlen, cmd1)
     IN  IF wlen = TypeSize /\ Confirmed(cmd1) THEN ret = wlen ELSE ret < 0

=============================================================================
