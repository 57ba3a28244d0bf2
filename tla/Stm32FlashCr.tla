--------------------------- MODULE Stm32FlashCr ---------------------------
(***************************************************************************)
(* The Flash Control Register (CR) layout of STM32F20xx/F40xx in           *)
(* arch/arm/src/stm32/chip/stm32_flash.h, with CONFIG_STM32_STM32F427 or   *)
(* CONFIG_STM32_STM32F429 as DualBank, used the way NuttX flash code       *)
(* writes the register: modifyreg32(STM32_FLASH_CR, clearbits, setbits),   *)
(* a read-modify-write that clears the clearbits and sets the setbits.     *)
(*                                                                         *)
(* The header defines the bits; the register writes of a sector erase     *)
(* below are the sequence of NuttX's STM32 flash driver, which is not in  *)
(* this tree.  The chip reads SNB from the bits the header's               *)
(* FLASH_CR_SNB(n) uses for the sectors its comment names (n = 0..11, or   *)
(* n = 0..23 on the dual-bank parts).                                      *)
(***************************************************************************)
EXTENDS Integers, Bitwise

CONSTANT DualBank   \* CONFIG_STM32_STM32F427 || CONFIG_STM32_STM32F429

ASSUME DualBank \in BOOLEAN

Bit(n) == 2^n

FLASH_CR_SER         == Bit(1)
FLASH_CR_SNB_SHIFT   == 3

FLASH_CR_SNB_MASK    == 15 * Bit(FLASH_CR_SNB_SHIFT)

(* (((n % 12) << 3) | ((n / 12) << 7)) on the dual-bank parts, n << 3     *)
(* otherwise.                                                              *)
FLASH_CR_SNB(n) ==
  IF DualBank THEN ((n % 12) * Bit(FLASH_CR_SNB_SHIFT)) | ((n \div 12) * Bit(7))
  ELSE n * Bit(FLASH_CR_SNB_SHIFT)

FLASH_CR_STRT        == Bit(16)

(* The sectors the header's comments name.                                 *)
Sectors == IF DualBank THEN 0..23 ELSE 0..11

(* modifyreg32(): regval &= ~clearbits; regval |= setbits.                  *)
ModifyReg(reg, clearbits, setbits) == (reg - (reg & clearbits)) | setbits

(* The bits the chip takes the sector number from: bits 3-6, and bit 7    *)
(* on the dual-bank parts, where FLASH_CR_SNB(n) puts the bank.            *)
SnbField(reg) == reg & (120 + (IF DualBank THEN Bit(7) ELSE 0))

(* The sector the chip erases for a CR value ("none" for a field no sector *)
(* is encoded as).                                                         *)
SectorOf(reg) ==
  IF \E n \in Sectors : FLASH_CR_SNB(n) = SnbField(reg)
  THEN CHOOSE n \in Sectors : FLASH_CR_SNB(n) = SnbField(reg)
  ELSE "none"

-----------------------------------------------------------------------------
VARIABLES
  cr,         \* the CR register
  requested,  \* the sector the last erase asked for
  erased      \* the sector the chip erased for it

vars == <<cr, requested, erased>>

(* After the unlock sequence: LOCK clear, every other bit at reset value 0. *)
Init == cr = 0 /\ requested = "none" /\ erased = "none"

(* Sector erase: modifyreg32(CR, 0, SER); modifyreg32(CR, SNB_MASK,        *)
(* SNB(n)); modifyreg32(CR, 0, STRT); the chip erases and clears STRT when *)
(* BSY clears; modifyreg32(CR, SER, 0).                                    *)
EraseSector(n) ==
  LET set   == ModifyReg(ModifyReg(cr, 0, FLASH_CR_SER), FLASH_CR_SNB_MASK, FLASH_CR_SNB(n))
      start == ModifyReg(set, 0, FLASH_CR_STRT)
  IN  /\ requested' = n
      /\ erased' = SectorOf(start)
      /\ cr' = ModifyReg(start - FLASH_CR_STRT, FLASH_CR_SER, 0)

Next == \E n \in Sectors : EraseSector(n)

Spec == Init /\ [][Next]_vars

-----------------------------------------------------------------------------
(* A sector erase written with FLASH_CR_SNB_MASK and FLASH_CR_SNB(n)       *)
(* erases sector n, whatever sector an earlier erase selected: clearing   *)
(* the mask must clear every bit an earlier FLASH_CR_SNB() set.            *)
ErasesRequestedSector == erased = requested

====
