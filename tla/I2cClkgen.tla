----------------------------- MODULE I2cClkgen -----------------------------
(***************************************************************************)
(* i2c_clkgen: the pulse that paces the I2C core                           *)
(* (LCD/hw/quartus/ip/i2c/hdl/i2c_clkgen.vhd).  Clock stretching is        *)
(* switched off in line 63: the counter never waits for the SCL pin.       *)
(***************************************************************************)
EXTENDS Naturals

VARIABLES
  clk_ctr,   \* clk_ctr
  sclk       \* i_clk_out: the pulse

clkgenVars == <<clk_ctr, sclk>>

ClkgenTypeOK ==
  /\ clk_ctr \in Nat
  /\ sclk \in BOOLEAN

ClkgenInit ==
  /\ clk_ctr = 0
  /\ sclk = TRUE

Pulse(clk_cnt) ==
  /\ clk_ctr >= clk_cnt
  /\ clk_ctr' = 0
  /\ sclk' = TRUE

CountClock(clk_cnt) ==
  /\ clk_ctr < clk_cnt
  /\ clk_ctr' = clk_ctr + 1
  /\ sclk' = FALSE

ClkgenClock(clk_cnt) == Pulse(clk_cnt) \/ CountClock(clk_cnt)

============================================================================
