---------------------------- MODULE MCI2cDriver ----------------------------
(***************************************************************************)
(* Bounds for I2cDriver: bytes of two bits, so two devices and four        *)
(* registers, of which the calls use two; the device is at address 0.      *)
(***************************************************************************)
EXTENDS I2cDriver

Address == <<0, 0>>
Elsewhere == <<1, 0>>
Index == <<0, 1>>

SomeCalls ==
  {i2c_write(Address, Index, <<1, 0>>),
   i2c_write(Elsewhere, Index, <<1, 0>>),
   i2c_write_array(Address, Index, << <<0, 1>>, <<1, 1>> >>),
   i2c_read(Address, Index),
   i2c_read_array(Address, Index, 2),
   i2c_configure(TRUE),
   i2c_init(400000)}

============================================================================
