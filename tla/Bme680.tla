---------------------------------- MODULE Bme680 ----------------------------------
(***************************************************************************)
(* The BME680 environmental sensor of src/picofuse/dev/bme680/bme680.c:    *)
(* the set-up with its retries, the forced measurement of                  *)
(* dev_bme680_read, how long it waits, and which gas reading it trusts.    *)
(* The compensation formulas turn one reading into another number and are  *)
(* left out; a value here is the measurement it comes from.                *)
(***************************************************************************)
EXTENDS Integers, Sequences, FiniteSets

CONSTANTS
    Oversamplings,  \* of {0 .. 7}: what a configuration asks for
    Heaters,        \* heater_duration_ms
    Retries,        \* BME680_IO_RETRY_COUNT
    MaxRuns         \* measurements the sensor makes at most

PollMs == 5         \* BME680_MEAS_POLL_MS
MarginMs == 50      \* BME680_MEAS_POLL_MARGIN_MS

VARIABLES
    config,     \* [temp, press, hum, gas, heater]
    variant,    \* of the sensor: "low", "high"
    known,      \* variant_id, as the driver knows it
    written,    \* registers the set-up has written
    pc,         \* the set-up or the read, "none" without a driver
    tries,      \* attempts at the current register
    reads,      \* warm-up reads still to do
    run,        \* the measurement the sensor last began
    field,      \* the measurement in the data field, 0 for none
    gasOf,      \* the measurement whose gas conversion is valid, per sensor
    result      \* what the last read gave: [of, gas], or "failed"

vars == <<config, variant, known, written, pc, tries, reads, run, field, gasOf, result>>
sensor == <<run, field, gasOf>>

----------------------------------------------------------------------------
\* _dev_bme680_default_os.
DefaultOs(os) == IF os > 5 THEN 1 ELSE os
Cycles(os) == IF DefaultOs(os) = 0 THEN 0 ELSE 2 ^ (DefaultOs(os) - 1)

\* _dev_bme680_measurement_duration_ms.
Conversion(c) == (Cycles(c.temp) + Cycles(c.press) + Cycles(c.hum)) * 1963 + 477 * 9
Duration(c) == (Conversion(c) + 500) \div 1000 + 1 + (IF c.gas THEN c.heater ELSE 0)

\* A bug the checks must see: a fixed number of polls, enough for the defaults.
WaitedFixed(c) == 40 * PollMs
\* The time the polls of a read cover.
Waited(c) == LET longest == Duration(c) + MarginMs IN ((longest + PollMs - 1) \div PollMs) * PollMs


\* _dev_bme680_calc_gas_wait: six bits and a power of four; and the time the
\* sensor heats for when it is given that.
GasWait(ms) ==
    LET Fits(f) == ms \div (4 ^ f) <= 63
        factor == CHOOSE f \in 0 .. 3 : Fits(f) /\ \A g \in 0 .. f - 1 : ~Fits(g) IN
    IF ms >= 4032 THEN 255 ELSE ms \div (4 ^ factor) + 64 * factor
HeatTime(code) == (code % 64) * 4 ^ (code \div 64)

\* How long the sensor takes over a measurement.
Takes(c) == Conversion(c) + (IF c.gas THEN HeatTime(GasWait(c.heater)) * 1000 ELSE 0)

----------------------------------------------------------------------------
\* The registers of the set-up, in order: whether each is retried, and what
\* the set-up does when it fails.
SetUp ==
    <<[name |-> "chipid", tries |-> 1, fails |-> "none"],
      [name |-> "variant", tries |-> Retries, fails |-> "reset"],
      [name |-> "reset", tries |-> Retries, fails |-> "none"],
      [name |-> "coeff", tries |-> 1, fails |-> "none"],
      [name |-> "hum", tries |-> Retries, fails |-> "none"],
      [name |-> "filter", tries |-> Retries, fails |-> "none"],
      [name |-> "heater", tries |-> 2 * Retries, fails |-> "warmup"],
      [name |-> "gas0", tries |-> Retries, fails |-> "warmup"],
      [name |-> "gas1", tries |-> Retries, fails |-> "warmup"]>>
Steps == {SetUp[k].name : k \in 1 .. Len(SetUp)}
Place(name) == CHOOSE k \in 1 .. Len(SetUp) : SetUp[k].name = name
After(name) ==
    IF Place(name) = Len(SetUp) \/ (name = "filter" /\ ~config.gas) THEN "warmup"
    ELSE SetUp[Place(name) + 1].name

Configs == [temp : Oversamplings, press : Oversamplings, hum : Oversamplings,
            gas : BOOLEAN, heater : Heaters]

Init ==
    /\ config \in Configs
    /\ variant \in {"low", "high"}
    /\ known = "low" /\ written = {}
    /\ pc = "none" /\ tries = 0 /\ reads = 0
    /\ run = 0 /\ field = 0 /\ gasOf = 0
    /\ result = [of |-> 0, gas |-> 0]

Goto(place) == pc' = place /\ tries' = 0

Open ==
    /\ pc = "none" /\ Goto("chipid")
    /\ written' = {} /\ known' = "low" /\ reads' = 2
    /\ UNCHANGED <<config, variant, sensor, result>>

\* One register I/O of dev_bme680_init: done, or tried again, or given up.
\* A failed set-up frees the driver; without its gas registers it goes on.
RegisterDone ==
    /\ pc \in Steps /\ Goto(After(pc))
    /\ written' = written \cup {pc}
    /\ known' = IF pc = "variant" THEN variant ELSE known
    /\ UNCHANGED <<config, variant, reads, sensor, result>>

RegisterFails ==
    /\ pc \in Steps
    /\ LET step == SetUp[Place(pc)] IN
       IF tries + 1 < step.tries THEN tries' = tries + 1 /\ UNCHANGED pc
       ELSE Goto(step.fails)
    /\ UNCHANGED <<config, variant, known, written, reads, sensor, result>>

\* dev_bme680_read: start a forced measurement; the sensor's old data are
\* no longer new.
Start ==
    /\ pc \in {"warmup", "ready"} /\ run < MaxRuns
    /\ run' = run + 1 /\ field' = 0
    /\ Goto(IF pc = "warmup" THEN "warming" ELSE "reading")
    /\ UNCHANGED <<config, variant, known, written, reads, gasOf, result>>

\* The sensor ends its measurement; the gas conversion runs if it was set up
\* the way this variant wants it, and may not be valid.
RunsGas ==
    /\ config.gas /\ {"heater", "gas0", "gas1"} \subseteq written
    /\ known = variant
Measured ==
    /\ pc \in {"warming", "reading"} /\ field # run
    /\ field' = run
    /\ \/ RunsGas /\ gasOf' = run
       \/ UNCHANGED gasOf
    /\ UNCHANGED <<config, variant, known, written, pc, tries, reads, run, result>>

\* A bug the checks must see: the gas value is taken without its valid bit.
GasAnyway == IF config.gas THEN gasOf ELSE 0
\* The variant decides which gas field and which valid bit are read.
Gas == IF config.gas /\ known = variant /\ gasOf = run THEN run ELSE 0


ReadDone ==
    /\ pc \in {"warming", "reading"} /\ field = run
    /\ result' = [of |-> run, gas |-> Gas]
    /\ reads' = IF pc = "warming" THEN reads - 1 ELSE reads
    /\ Goto(IF pc = "warming" /\ reads > 1 THEN "warmup" ELSE "ready")
    /\ UNCHANGED <<config, variant, known, written, sensor>>

\* A transfer fails, or the wait ends first; a warm-up that fails frees the
\* driver.
TimesOut == field # run /\ Takes(config) > Waited(config) * 1000
ReadFails ==
    /\ pc \in {"warming", "reading"}
    /\ Goto(IF pc = "warming" THEN "none" ELSE "ready")
    /\ UNCHANGED <<config, variant, known, written, reads, sensor, result>>

Close ==
    /\ pc = "ready" /\ Goto("none")
    /\ UNCHANGED <<config, variant, known, written, reads, sensor, result>>

Next ==
    \/ Open \/ RegisterDone \/ RegisterFails \/ Start \/ Measured \/ ReadDone \/ ReadFails \/ Close

Spec == Init /\ [][Next]_vars

----------------------------------------------------------------------------
\* A driver that is handed out knows its chip and has calibrated, set up and
\* warmed the sensor; the numbers of a read are of one measurement; the gas
\* value is that measurement's or none; and a read outlasts the measurement.
SensorSound ==
    /\ pc = "ready" => {"chipid", "reset", "coeff", "hum", "filter"} \subseteq written /\ reads = 0
    /\ result.gas \in {0, result.of}
    /\ ~TimesOut
=============================================================================
