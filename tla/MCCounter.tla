------------------------------ MODULE MCCounter ------------------------------
(***************************************************************************)
(* Instances of Counter for TLC: the configurations and their worlds.      *)
(***************************************************************************)
EXTENDS Counter

\* A device that meters in steps of 1 or 2, may lose its count once and may
\* report a negative reading; a failing write, a crash or an exit, a restart.
Device ==
  [integrate_power |-> FALSE, max_power |-> 0, sign |-> 1, powers |-> {},
   steps |-> {1, 2}, glitches |-> {-1}, energy |-> 2, time |-> 2, resets |-> 1,
   fails |-> 1, loads |-> 2]

\* A device with max_power that reports nonsense for a moment.
Checked ==
  [integrate_power |-> FALSE, max_power |-> 1, sign |-> 1, powers |-> {},
   steps |-> {3}, glitches |-> {0, 2}, energy |-> 3, time |-> 3, resets |-> 0,
   fails |-> 0, loads |-> 1]

\* A power integrated with sign = -1, flowing both ways.
Power ==
  [integrate_power |-> TRUE, max_power |-> 0, sign |-> -1, powers |-> {-2, 1},
   steps |-> {}, glitches |-> {}, energy |-> 0, time |-> 2, resets |-> 0,
   fails |-> 1, loads |-> 2]

\* A device that meters in steps finer than the file's last decimal.
Fine ==
  [integrate_power |-> FALSE, max_power |-> 0, sign |-> 1, powers |-> {},
   steps |-> {5}, glitches |-> {}, energy |-> 5, time |-> 2, resets |-> 0,
   fails |-> 0, loads |-> 2]

AllConfigs == {Device, Checked, Power}
OnlyFine   == {Fine}
=============================================================================
