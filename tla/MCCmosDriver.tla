---------------------------- MODULE MCCmosDriver ----------------------------
(***************************************************************************)
(* Bounds for CmosDriver: two configurations in bounds, of which one has   *)
(* every blank, and one each with a value too small and too large.         *)
(***************************************************************************)
EXTENDS CmosDriver

SomeCalls ==
  {cmos_sensor_output_generator_init,
   cmos_sensor_output_generator_configure(<<2, 3, 1, 1, 2, 2>>),
   cmos_sensor_output_generator_configure(<<2, 2, 2, 0, 1, 4>>),
   cmos_sensor_output_generator_configure(<<0, 2, 1, 1, 1, 0>>),
   cmos_sensor_output_generator_start,
   cmos_sensor_output_generator_stop}

AllValues == [f \in Fields |-> 0..MaxConfig]

============================================================================
