------------------------------ MODULE MCDispatch ------------------------------
(***************************************************************************)
(* Instances of Dispatch for TLC.                                          *)
(*   List: a computed name in front of an MQTT input with a stale_timeout, *)
(*   published by different threads; the watchdog walks the list with one  *)
(*   `now'.                                                                *)
(*   Cell: one MQTT input with a stale_timeout and two outputs, and a      *)
(*   reader; all interleavings of data, reset, read and startup.           *)
(***************************************************************************)
EXTENDS Dispatch

CONSTANTS mqtt, eval, reader, out1, out2, in1, ev1

ListWriters      == <<{eval}, {mqtt}>>
ListCbs          == <<<<out1>>, <<out1, out2>>>>
ListProducerVal  == <<ev1, in1>>
ListInitValue    == <<0, 0>>
ListStaleTimeout == <<0, 1>>

CellWriters      == <<{mqtt}>>
CellCbs          == <<<<out1, out2>>>>
CellProducerVal  == <<in1>>
CellInitValue    == <<0>>
CellStaleTimeout == <<1>>
=============================================================================
