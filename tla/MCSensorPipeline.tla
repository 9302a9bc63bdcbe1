-------------------------- MODULE MCSensorPipeline --------------------------
(***************************************************************************)
(* Instances of SensorPipeline for TLC: raw records of two readings, each  *)
(* of which may come more than once, a malformed and a poison record.      *)
(***************************************************************************)
EXTENDS SensorPipeline, TLC

CONSTANTS json, text, one, two, bad, overflow, deep, rawBad, rawOverflow, r1, r2

MCGood == {one, two}
MCReadings == {r1, r2}
MCReading == (one :> r1) @@ (two :> r2)
MCMalformed == {bad}
MCPoison == {overflow}
MCUndecodable == {deep}
MCRawMalformed == {rawBad}
MCRawPoison == {rawOverflow}
MCTwoTopics == {json, text}
MCSources == [topic : RawTopics, offset : 1..MaxRaw]
=============================================================================
