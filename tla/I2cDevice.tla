----------------------------- MODULE I2cDevice -----------------------------
(***************************************************************************)
(* An I2C slave, as the driver uses one (i2c.c): a device of one-byte      *)
(* registers.  The first byte after START addresses it, the next written   *)
(* one selects a register, all others are written to or read from the      *)
(* registers in turn.  It samples SDA when SCL rises, changes it when SCL  *)
(* falls, and may refuse any byte it is written.  External: it is not part *)
(* of the repository.                                                      *)
(***************************************************************************)
EXTENDS Naturals

CONSTANTS Bits, DeviceAddress

VARIABLES
  dphase,      \* what the next byte is for the device; "free" when none is
  dbits,       \* bits of it that are through; Bits + 1 when it is acknowledged
  dbyte,       \* the bits received
  dptr,        \* the register it is about
  regs,        \* its registers
  dsda,        \* what it does to SDA
  dscl, dpin   \* SCL and SDA as it saw them last

deviceVars == <<dphase, dbits, dbyte, dptr, regs, dsda, dscl, dpin>>

Wire == {0, 1}
Word == [1..Bits -> Wire]
Blank == [i \in Word |-> [j \in 1..Bits |-> 0]]

\* An address byte: all bits but the last, which is set to read.
Here(address) == \A i \in 1..(Bits - 1) : address[i] = DeviceAddress[i]

\* The number after a byte, and 0 after the last.
Successor(byte) ==
  [i \in 1..Bits |->
     IF \A j \in (i + 1)..Bits : byte[j] = 1 THEN 1 - byte[i] ELSE byte[i]]

Receiving == dphase \in {"address", "index", "data"}

DeviceTypeOK ==
  /\ dphase \in {"free", "address", "index", "data", "send"}
  /\ dbits \in 0..(Bits + 1)
  /\ dbyte \in Word
  /\ dptr \in Word
  /\ regs \in [Word -> Word]
  /\ dsda \in Wire /\ dscl \in Wire /\ dpin \in Wire

DeviceInit ==
  /\ dphase = "free"
  /\ dbits = 0
  /\ dbyte = [i \in 1..Bits |-> 0]
  /\ dptr = [i \in 1..Bits |-> 0]
  /\ regs = Blank
  /\ dsda = 1 /\ dscl = 1 /\ dpin = 1

StartSeen(sda) == dpin = 1 /\ sda = 0
StopSeen(sda)  == dpin = 0 /\ sda = 1

OnStart ==
  /\ dphase' = "address" /\ dbits' = 0 /\ dsda' = 1
  /\ UNCHANGED <<dbyte, dptr, regs>>

OnStop ==
  /\ dphase' = "free" /\ dbits' = 0 /\ dsda' = 1
  /\ UNCHANGED <<dbyte, dptr, regs>>

\* SCL rises: a bit is through, or the master's acknowledge of a byte sent.
OnRise(sda) ==
  /\ dbits' = IF dphase = "free" \/ dbits = Bits + 1 \/ (Receiving /\ dbits = Bits)
              THEN dbits ELSE IF dbits = Bits /\ sda = 1 THEN 0 ELSE dbits + 1
  /\ dbyte' = IF Receiving /\ dbits < Bits THEN [dbyte EXCEPT ![dbits + 1] = sda] ELSE dbyte
  /\ dphase' = IF dphase = "send" /\ dbits = Bits /\ sda = 1 THEN "free" ELSE dphase
  /\ dptr' = IF dphase = "send" /\ dbits = Bits /\ sda = 0 THEN Successor(dptr) ELSE dptr
  /\ UNCHANGED <<regs, dsda>>

\* SCL falls on a whole byte received: it is taken and acknowledged, or not.
Take ==
  /\ Receiving /\ dbits = Bits
  /\ dphase = "address" => Here(dbyte)
  /\ dphase' = IF dphase = "address" /\ dbyte[Bits] = 1 THEN "send"
               ELSE IF dphase = "address" THEN "index" ELSE "data"
  /\ dptr' = IF dphase = "index" THEN dbyte
             ELSE IF dphase = "data" THEN Successor(dptr) ELSE dptr
  /\ regs' = IF dphase = "data" THEN [regs EXCEPT ![dptr] = dbyte] ELSE regs
  /\ dsda' = 0
  /\ dbits' = Bits + 1
  /\ UNCHANGED dbyte

Refuse ==
  /\ Receiving /\ dbits = Bits
  /\ dphase' = "free" /\ dbits' = 0 /\ dsda' = 1
  /\ UNCHANGED <<dbyte, dptr, regs>>

\* SCL falls otherwise: the next bit is put on SDA, or SDA is left alone.
PutBit ==
  /\ ~(Receiving /\ dbits = Bits)
  /\ dbits' = IF dbits = Bits + 1 THEN 0 ELSE dbits
  /\ dsda' = IF dphase = "send" /\ dbits # Bits THEN regs[dptr][(dbits' % Bits) + 1] ELSE 1
  /\ UNCHANGED <<dphase, dbyte, dptr, regs>>

DeviceClock(scl, sda) ==
  /\ dscl' = scl
  /\ dpin' = sda
  /\ \/ dscl = 1 /\ scl = 1 /\ StartSeen(sda) /\ OnStart
     \/ dscl = 1 /\ scl = 1 /\ StopSeen(sda) /\ OnStop
     \/ dscl = 0 /\ scl = 1 /\ OnRise(sda)
     \/ dscl = 1 /\ scl = 0 /\ (Take \/ Refuse \/ PutBit)
     \/ /\ dscl = scl /\ (scl = 0 \/ dpin = sda)
        /\ UNCHANGED <<dphase, dbits, dbyte, dptr, regs, dsda>>

============================================================================
