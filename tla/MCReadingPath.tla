--------------------------- MODULE MCReadingPath ---------------------------
(* Matter structures for the run of ReadingPath.                    *)
EXTENDS ReadingPath

Map(f, a, attribute) == [function |-> f, address |-> a, attribute |-> attribute]

\* A battery behind a solar inverter, whose root lists the charge as well
\* although its wrapper does not take it, and an inverter that measures its
\* power.
Battery ==
  <<[types |-> <<"Solar">>, mappings |-> <<Map(4, 28, "BatPercentRemaining")>>,
     parts |-> <<[types |-> <<"ElectricalSensor", "PowerSource">>,
                  mappings |-> <<Map(4, 28, "BatPercentRemaining")>>]>>]>>

Inverter ==
  <<[types |-> <<"Solar">>, mappings |-> <<Map(3, 0, "ActivePower")>>, parts |-> <<>>]>>

MCExplored == {Battery, Inverter}

Mappings ==
  {Map(f, a, t) : f \in {3, 4, None}, a \in {0, 124, 125, 65535},
                  t \in {"Voltage", "BatPercentRemaining"}}

Node(types, mappings) == [types |-> types, mappings |-> mappings]
Endpoint(types, mappings, parts) == [types |-> types, mappings |-> mappings, parts |-> parts]

\* One or two endpoints, with up to two mappings on the root, a part, and
\* another endpoint after them; a root whose second type gets no cluster.
MCDocuments ==
  MCExplored \cup {<<>>}
  \cup {<<Endpoint(<<"ElectricalSensor", "PowerSource">>, <<m, n>>, <<>>)>> :
          m \in Mappings, n \in Mappings}
  \cup {<<Endpoint(types, <<m, n>>, <<>>)>> :
          types \in {<<"Solar">>, <<>>}, m \in Mappings, n \in Mappings}
  \cup {<<Endpoint(<<"Solar">>, <<m>>, <<Node(<<"ElectricalSensor">>, <<>>),
                                        Node(<<"ElectricalSensor", "Solar">>, <<n>>)>>)>> :
          m \in Mappings, n \in Mappings}
  \cup {<<Endpoint(<<"ElectricalSensor">>, <<m>>, <<>>),
          Endpoint(<<>>, <<n>>, <<Node(<<>>, <<m, n>>)>>)>> : m \in Mappings, n \in Mappings}
=============================================================================
