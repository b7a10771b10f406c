---------------------------- MODULE MCTimeseries ----------------------------
(***************************************************************************)
(* Small instances of Timeseries for TLC: two things with two channels     *)
(* each.  "soil_moisture" is in the table of units and in the database,    *)
(* "humidity" in neither, and the two things report it in different units. *)
(***************************************************************************)
EXTENDS Timeseries

CONSTANTS x1, x2

Names == {"soil_moisture", "humidity"}

Codes == {<<"Thingful.Connectors.GROWSensors", n>> : n \in Names}

Reading(t, v) == [at |-> t, value |-> v]

\* Readings of a channel.
Histories ==
  {{}, {Reading(2, 7)}, {Reading(4, 5), Reading(3, 6), Reading(1, 5)},
   {Reading(4, 5), Reading(2, NotANumber)}}

Channel(u, name, unit, history) ==
  [id |-> <<"things", u, name>>, unit |-> unit, readings |-> history]

Thing(u, soilUnit, otherUnit, soil, other) ==
  [id |-> <<"things", u>>,
   channels |-> <<Channel(u, "soil_moisture", soilUnit, soil),
                  Channel(u, "humidity", otherUnit, other)>>]

MCContents ==
  {[u \in {x1, x2} |->
      IF u = x1 THEN Thing(x1, "m3-lite:DegreeCelsius", NoUnit, s1, o1)
                ELSE Thing(x2, NoUnit, "g/m3", s2, {Reading(3, 1)})] :
     s1, s2 \in Histories, o1 \in {{}, {Reading(3, NotANumber)}}}

MCRequests ==
  [wellFormed : {TRUE},
   locations  : {<<>>, <<x2>>, <<x1, x2>>, <<x2, x1, x2>>, <<x1, x1, x2, x2>>},
   variables  : {<<c>> : c \in Codes} \union {<<c, d>> : c, d \in Codes},
   start      : {0, 1, 2},
   end        : {1, 3, 4},
   ascending  : BOOLEAN]
  \union
  [wellFormed : {FALSE}, locations : {<<x1>>}, variables : {<<>>},
   start : {1}, end : {2}, ascending : {TRUE}]

MCSources == [n \in {"soil_moisture"} |-> 1]

MCUnits ==
  [n \in {"soil_moisture", "m3-lite:DegreeCelsius"} |->
     IF n = "soil_moisture" THEN "%" ELSE "C"]
=============================================================================
