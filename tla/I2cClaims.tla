----------------------------- MODULE I2cClaims -----------------------------
(***************************************************************************)
(* What the sources say of the I2C master and its driver and the code does *)
(* not do.                                                                 *)
(***************************************************************************)
EXTENDS MCI2cDriver

\* "STP - Generate a I2C Stop Sequence" (i2c_interface.vhd:44): the driver asks
\* for one when a device does not answer (i2c.c:131-135), so that the bus is free
\* when a call has returned.
FreeAfterCall == [](stage = "ready" => <>(stage # "ready" \/ (SCL = 1 /\ SDA(dsda) = 1)))

============================================================================
