---------------------------- MODULE I2cService -----------------------------
(***************************************************************************)
(* What the I2C driver promises its caller: a device of registers that a   *)
(* call writes or reads one after the other, from an index on.  A call     *)
(* says I2C_SUCCESS only when it got through all of them; the error        *)
(* I2C_EBADACK only comes from a device that is there.  Whatever it        *)
(* returns, the registers have what was counted and nothing else.          *)
(***************************************************************************)
EXTENDS Naturals, Sequences

CONSTANTS
  Calls,          \* the read and write calls
  Here(_),        \* whether there is a device at an address
  Successor(_),   \* the register after a register
  Blank           \* what the registers hold at first

NoCall == [op |-> "none"]

VARIABLES
  call,     \* the call under way, NoCall when there is none
  done,     \* registers it got through
  got,      \* what it read
  result,   \* what the last call returned
  regs      \* the registers of the device

serviceVars == <<call, done, got, result, regs>>

\* The register that comes n registers after an index.
Register(index, n) ==
  LET At[k \in 0..n] == IF k = 0 THEN index ELSE Successor(At[k - 1]) IN At[n]

Call(c) ==
  /\ call = NoCall
  /\ call' = c
  /\ done' = 0
  /\ got' = << >>
  /\ UNCHANGED <<result, regs>>

WriteOne ==
  /\ call.op = "write" /\ Here(call.device)
  /\ done < call.size
  /\ regs' = [regs EXCEPT ![Register(call.index, done)] = call.values[done + 1]]
  /\ done' = done + 1
  /\ UNCHANGED <<call, got, result>>

ReadOne ==
  /\ call.op = "read" /\ Here(call.device)
  /\ done < call.size
  /\ got' = Append(got, regs[Register(call.index, done)])
  /\ done' = done + 1
  /\ UNCHANGED <<call, result, regs>>

Returns(status) ==
  /\ call # NoCall
  /\ CASE status = "I2C_SUCCESS" -> done = call.size
       [] status = "I2C_ENODEV"  -> done = 0
       [] status = "I2C_EBADACK" -> done < call.size /\ Here(call.device)
  /\ result' = status
  /\ call' = NoCall
  /\ UNCHANGED <<done, got, regs>>

ServiceInit ==
  /\ call = NoCall
  /\ done = 0
  /\ got = << >>
  /\ result = "I2C_SUCCESS"
  /\ regs = Blank

ServiceNext ==
  \/ \E c \in Calls : Call(c)
  \/ WriteOne
  \/ ReadOne
  \/ \E status \in {"I2C_SUCCESS", "I2C_ENODEV", "I2C_EBADACK"} : Returns(status)

ServiceSpec == ServiceInit /\ [][ServiceNext]_serviceVars

============================================================================
