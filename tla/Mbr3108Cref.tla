---------------------------- MODULE Mbr3108Cref ----------------------------
(***************************************************************************)
(* The use count of drivers/input/cypress_mbr3108.c at its real width:     *)
(* priv->cref is a uint8_t, mbr3108_open() computes use_count = cref + 1   *)
(* in an unsigned int and mbr3108_close() computes use_count = cref - 1 in *)
(* an int, and both store use_count back into cref.  The limits are        *)
(* checked only by DEBUGASSERT(), which is compiled out unless CONFIG_DEBUG*)
(* is set.                                                                 *)
(*                                                                         *)
(* Open files have no identity here: files counts them.  The power-on,     *)
(* probe and configuration of a first open are one outcome, as in Mbr3108. *)
(***************************************************************************)
EXTENDS Integers

CONSTANTS
  MaxFiles,   \* the most files the system opens on the device at once
  Debug       \* CONFIG_DEBUG: DEBUGASSERT() halts the system

ASSUME MaxFiles \in Nat /\ Debug \in BOOLEAN

UINT8_MAX == 255

(* Storing an int into a uint8_t keeps it modulo 2^8.                      *)
AsUint8(n) == n % 256

VARIABLES
  cref,       \* priv->cref
  files,      \* the files open on the device
  power,      \* the chip's power switch
  halted      \* a DEBUGASSERT() failed

vars == <<cref, files, power, halted>>

Init == cref = 0 /\ files = 0 /\ power = FALSE /\ halted = FALSE

(* DEBUGASSERT(cond): with CONFIG_DEBUG a false cond halts the system.     *)
Assert(cond) == halted' = (Debug /\ ~cond)

(* mbr3108_open() when use_count == 1: set_power(true), the probe and the  *)
(* configuration either all succeed (cref = use_count), or a failure after *)
(* power-on switches the power off again, or set_power() itself fails.    *)
OpenFirst ==
  /\ ~halted /\ files < MaxFiles
  /\ cref + 1 = 1
  /\ \/ cref' = AsUint8(cref + 1) /\ power' = TRUE /\ files' = files + 1
     \/ power' = FALSE /\ UNCHANGED <<cref, files>>
     \/ UNCHANGED <<cref, files, power>>
  /\ halted' = FALSE

(* mbr3108_open() otherwise: DEBUGASSERT(use_count < UINT8_MAX &&          *)
(* use_count > priv->cref), then cref = use_count.                         *)
OpenShared ==
  /\ ~halted /\ files < MaxFiles
  /\ cref + 1 /= 1
  /\ Assert(cref + 1 < UINT8_MAX /\ cref + 1 > cref)
  /\ cref' = AsUint8(cref + 1)
  /\ files' = files + 1
  /\ UNCHANGED power

(* mbr3108_close() when use_count == 0: irq off, low-power mode, power    *)
(* off, cref = 0.                                                          *)
CloseLast ==
  /\ ~halted /\ files > 0
  /\ cref - 1 = 0
  /\ cref' = 0 /\ power' = FALSE /\ files' = files - 1
  /\ halted' = FALSE

(* mbr3108_close() otherwise: DEBUGASSERT(use_count > 0), then cref =      *)
(* use_count.                                                              *)
CloseShared ==
  /\ ~halted /\ files > 0
  /\ cref - 1 /= 0
  /\ Assert(cref - 1 > 0)
  /\ cref' = AsUint8(cref - 1)
  /\ files' = files - 1
  /\ UNCHANGED power

Next == OpenFirst \/ OpenShared \/ CloseLast \/ CloseShared

Spec == Init /\ [][Next]_vars

-----------------------------------------------------------------------------
(* The driver powers the chip off only when its last user closes it: while *)
(* a file is open on the device the chip stays powered, however many files *)
(* are opened and closed, unless a DEBUGASSERT() has stopped the system.   *)
PoweredWhileOpen == (~halted /\ files > 0) => power

====
