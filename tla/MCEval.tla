-------------------------------- MODULE MCEval --------------------------------
(***************************************************************************)
(* An instance of Eval for TLC: an eval reading an input and the result of *)
(* the eval behind it (so a second scan is needed to settle), that one     *)
(* reading another input, and a periodic eval reading the chain's end.     *)
(***************************************************************************)
EXTENDS Eval

CONSTANTS a, b, diff, pump, runtime

ChainPub      == <<pump, diff, runtime>>
ChainReads    == <<<<diff, b>>, <<a>>, <<pump>>>>
ChainTriggers == <<{diff, b}, {a}, {}>>
ChainPeriod   == <<0, 0, 2>>
=============================================================================
