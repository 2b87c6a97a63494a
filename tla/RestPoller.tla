----------------------------- MODULE RestPoller -----------------------------
(***************************************************************************)
(* A JSON connection of rest.c: its thread gets a document now and then    *)
(* and dispatches the values it finds, one by one; the stale data watchdog *)
(* of uvrgw_conf.c looks at its clock round by round and, once per check   *)
(* period, resets the values that were not refreshed.                      *)
(*                                                                         *)
(* Times are counted in ticks: until the next poll, since the request,     *)
(* until the watchdog looks and checks next, and for each value until it   *)
(* is stale and since the request its number comes from.  The body of the answer arrives in chunks: the JSON text may be   *)
(* complete while the transfer still fails.  The flags get_failed, invalid *)
(* and missing only limit the logging and are left out.                    *)
(***************************************************************************)
EXTENDS Integers

CONSTANTS
  NumJson,        \* values of the connection
  PollInterval,   \* interval
  GetTimeout,     \* timeout of a request
  JsonStale,      \* stale_timeout of the values
  CheckPeriod,    \* WATCHDOG_CHECK_MS
  LookPeriod,     \* longest round of the watchdog thread, WATCHDOG_THREAD_PERIOD_US and its pass
  Gated,          \* valid_if is given
  NoJson,         \* no JSON text has been parsed
  NotObject       \* a JSON text that is no object has been parsed

JsonVals == 1..NumJson

\* What is found at a value's path: a number or boolean, nothing, another
\* type, or a number that is not finite.
Entries   == {"number", "null", "other", "nonfinite"}
Documents == [entry : [JsonVals -> Entries], gate : BOOLEAN]

ASSUME RestConstants ==
  /\ NumJson \in Nat
  /\ {PollInterval, GetTimeout, JsonStale, CheckPeriod, LookPeriod} \subseteq Nat \ {0}
  /\ Gated \in BOOLEAN

VARIABLES
  rest,         \* what the thread does: "sleep", "get", "values", "done", "ended"
  until_poll,   \* ticks until next_poll
  since_get,    \* ticks since the request was sent
  json,         \* what rest_get_json() has parsed
  val_no,       \* value processed next
  valid,        \* value -> it is valid in the dispatcher
  until_stale,  \* value -> ticks until its deadline
  until_check,  \* ticks until next_check of the watchdog
  until_look,   \* ticks until the watchdog's round ends and it looks again
  age,          \* history: value -> ticks since the request it comes from
  got_vals,        \* history: values dispatched in this poll
  transfer      \* history: how the transfer ended

cells    == <<valid, until_stale, age, got_vals>>
watchdog == <<until_check, until_look>>
restVars == <<rest, until_poll, since_get, json, val_no, cells, transfer, watchdog>>

RestInit ==
  /\ rest = "sleep" /\ until_poll = 0 /\ since_get = 0
  /\ json = NoJson /\ val_no = 1
  /\ valid = [v \in JsonVals |-> FALSE]
  /\ until_stale = [v \in JsonVals |-> JsonStale]
  /\ age = [v \in JsonVals |-> 0]
  /\ got_vals = {} /\ transfer = "none"
  /\ until_check = 0 /\ until_look = 0

\* conn_task(): it is time for a poll; the next one counts from here.
PollStart ==
  /\ rest = "sleep" /\ until_poll = 0
  /\ until_poll' = PollInterval
  /\ rest' = "get" /\ since_get' = 0
  /\ got_vals' = {} /\ transfer' = "none"
  /\ UNCHANGED <<json, val_no, valid, until_stale, age, watchdog>>

\* rest_get_json_callback(): a chunk completes the JSON text; what follows is
\* skipped.  (A chunk in the middle changes nothing here, a chunk that is no
\* JSON makes the transfer fail.)
ChunkCompletes(d) ==
  /\ rest = "get" /\ json = NoJson
  /\ json' = d
  /\ UNCHANGED <<rest, until_poll, since_get, val_no, cells, transfer, watchdog>>

\* The poll ends without values.
NoData == rest' = "done" /\ UNCHANGED <<since_get, json, val_no>>

\* Mutant: a document complete before the transfer failed is used.
GetFailsUses ==
  /\ rest = "get"
  /\ IF json \notin {NoJson, NotObject} THEN rest' = "values" /\ UNCHANGED <<since_get, json, val_no>>
     ELSE NoData
  /\ transfer' = "failed"
  /\ UNCHANGED <<until_poll, cells, watchdog>>

\* The transfer fails: no connection, timeout, HTTP error status, bad JSON.
\* There is no data, also if a JSON text was already complete.
GetFails ==
  /\ rest = "get"
  /\ NoData
  /\ transfer' = "failed"
  /\ UNCHANGED <<until_poll, cells, watchdog>>

Usable(d) == d \notin {NoJson, NotObject} /\ (Gated => d.gate)

\* The transfer succeeds.  A text that is incomplete or no JSON object is
\* dropped, and so is a document that does not pass valid_if.
GetSucceeds ==
  /\ rest = "get"
  /\ IF Usable(json) THEN rest' = "values" /\ UNCHANGED <<since_get, json, val_no>>
     ELSE NoData
  /\ transfer' = "ok"
  /\ UNCHANGED <<until_poll, cells, watchdog>>

\* Mutant: a value that is not found ends the poll.
NotFoundReturns(v) == val_no' = NumJson + 1 /\ UNCHANGED cells

\* Mutant: a value that is not found is dispatched with its last number.
NotFoundRepeats(v) ==
  /\ val_no' = v + 1
  /\ until_stale' = [until_stale EXCEPT ![v] = JsonStale]
  /\ UNCHANGED <<valid, age, got_vals>>

\* The value is missing, of another type or not finite: it is skipped.
NotFound(v) == val_no' = v + 1 /\ UNCHANGED cells

\* uvrgw_conf_disp_val().
Dispatched(v) ==
  /\ val_no' = v + 1
  /\ valid' = [valid EXCEPT ![v] = TRUE]
  /\ until_stale' = [until_stale EXCEPT ![v] = JsonStale]
  /\ age' = [age EXCEPT ![v] = since_get]
  /\ got_vals' = got_vals \cup {v}

\* The loop of conn_task() over the values.
ProcessValue ==
  /\ rest = "values" /\ val_no <= NumJson
  /\ IF json.entry[val_no] = "number" THEN Dispatched(val_no) ELSE NotFound(val_no)
  /\ UNCHANGED <<rest, until_poll, since_get, json, transfer, watchdog>>

ValuesDone ==
  /\ rest = "values" /\ val_no > NumJson
  /\ rest' = "done"
  /\ UNCHANGED <<until_poll, since_get, json, val_no, cells, transfer, watchdog>>

\* conn_task() returns.
PollReturns ==
  /\ rest = "done"
  /\ rest' = "sleep" /\ since_get' = 0 /\ json' = NoJson /\ val_no' = 1
  /\ got_vals' = {} /\ transfer' = "none"
  /\ UNCHANGED <<until_poll, valid, until_stale, age, watchdog>>

\* watchdog_check(): the values whose deadline has come are reset.
ResetStale ==
  LET stale == {v \in JsonVals : valid[v] /\ until_stale[v] = 0}
  IN  /\ valid' = [v \in JsonVals |-> valid[v] /\ v \notin stale]
      /\ age' = [v \in JsonVals |-> IF v \in stale THEN 0 ELSE age[v]]

\* watchdog_thread(): a round.  It checks the values only when a check period
\* has passed since the last check, and then sleeps.
WatchdogLooks ==
  /\ until_look = 0
  /\ IF until_check = 0 THEN until_check' = CheckPeriod /\ ResetStale
     ELSE UNCHANGED <<until_check, valid, age>>
  /\ until_look' \in 1..LookPeriod
  /\ UNCHANGED <<rest, until_poll, since_get, json, val_no, until_stale, got_vals, transfer>>

\* rest_shutdown(): the thread ends between two polls.
RestStop ==
  /\ rest = "sleep"
  /\ rest' = "ended"
  /\ UNCHANGED <<until_poll, since_get, json, val_no, cells, transfer, watchdog>>

RestDone == rest = "ended" /\ UNCHANGED restVars

Before(t) == IF t > 0 THEN t - 1 ELSE 0

\* Time passes, for values past their deadline too.  A request ends with its
\* timeout, a round of the watchdog with LookPeriod, and the time to process a
\* document is small against a tick.
RestTick ==
  /\ rest \in {"sleep", "get"}
  /\ rest = "get" => since_get < GetTimeout
  /\ until_look > 0
  /\ until_look' = until_look - 1
  /\ until_check' = Before(until_check)
  /\ until_poll' = Before(until_poll)
  /\ since_get' = IF rest = "get" THEN since_get + 1 ELSE since_get
  /\ until_stale' = [v \in JsonVals |-> Before(until_stale[v])]
  /\ age' = [v \in JsonVals |-> IF valid[v] THEN age[v] + 1 ELSE 0]
  /\ UNCHANGED <<rest, json, val_no, valid, got_vals, transfer>>

RestNext ==
  \/ PollStart
  \/ \E d \in Documents \cup {NotObject} : ChunkCompletes(d)
  \/ GetFails \/ GetSucceeds
  \/ ProcessValue \/ ValuesDone \/ PollReturns
  \/ WatchdogLooks
  \/ RestStop \/ RestDone
  \/ RestTick

RestSpec == RestInit /\ [][RestNext]_restVars

-----------------------------------------------------------------------------
\* conn_task() and watchdog_thread(): a value other modules see as valid was in
\* the device at most stale_timeout, the length of a request, a check period
\* and a round of the watchdog ago, whatever polls fail, are gated, or lack the
\* value, and however the deadline falls between two checks.
AgeIsBounded ==
  \A v \in JsonVals :
    valid[v] => age[v] <= JsonStale + GetTimeout + CheckPeriod + LookPeriod

\* conn_task() and rest_get_json(): a poll takes every number its document
\* has, whatever is missing beside it, and takes nothing from a transfer that
\* failed or a document that is gated.
PollIsComplete ==
  rest = "done" =>
    got_vals = {v \in JsonVals : /\ transfer = "ok" /\ Usable(json)
                              /\ json.entry[v] = "number"}
=============================================================================
