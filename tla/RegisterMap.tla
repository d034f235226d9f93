---------------------------- MODULE RegisterMap ----------------------------
(***************************************************************************)
(* How a matter structure decides which registers are read and where their *)
(* values go.  Two managers walk the same document independently: the      *)
(* Modbus side (build_register_specs in modbus_manager.cpp, read_group in  *)
(* modbus_device.cpp) turns it into requests, the Matter side              *)
(* (parse_all_mappings and on_readings in matter_manager.cpp, set_raw of   *)
(* the two device wrappers) into a table of attributes.                    *)
(*                                                                         *)
(* A document is a sequence of endpoints                                   *)
(*   [types, mappings, parts], a part is [types, mappings],                *)
(*   a mapping is [function, address, attribute];                          *)
(* `function' is None where the document has no number there.              *)
(* A loop that skips some of its elements is a FlattenSeq of sequences of  *)
(* one element or none.                                                    *)
(***************************************************************************)
EXTENDS Integers, Sequences, FiniteSets, SequencesExt

CONSTANTS
  AddressCount,    \* 2^16
  ValueCount,      \* 2^16
  MaxRegisters,    \* MODBUS_MAX_REGISTERS
  None

ASSUME RegisterAssumptions ==
  /\ AddressCount \in Nat \ {0}
  /\ ValueCount \in Nat \ {0}
  /\ ValueCount % 2 = 0
  /\ MaxRegisters \in 0..(AddressCount - 1)
  /\ None \notin {3, 4}

Registers == [input : BOOLEAN, address : 0..(AddressCount - 1)]

Mapping == [function : Int \cup {None}, address : 0..(AddressCount - 1), attribute : STRING]
Part == [types : Seq(STRING), mappings : Seq(Mapping)]
Document == Seq([types : Seq(STRING), mappings : Seq(Mapping), parts : Seq(Part)])

-----------------------------------------------------------------------------
(* The Modbus side: which registers, in which requests.                    *)

WithParts(ep) == <<ep>> \o ep.parts

\* build_register_specs: all endpoints, each followed by its parts.
Walked(doc) == FlattenSeq([i \in DOMAIN doc |-> WithParts(doc[i])])

SpecOf(m) == [input |-> m.function = 4, address |-> m.address]

\* collect_regs_from_endpoint
Collected(ep) ==
  FlattenSeq([i \in DOMAIN ep.mappings |->
                IF ep.mappings[i].function # None THEN <<SpecOf(ep.mappings[i])>> ELSE <<>>])

\* Mutant: duplicates are recognised by their address alone.
SameAddress(a, b) == a.address = b.address

SameRegister(a, b) == a = b

\* The specs, each where it occurs first.
Distinct(specs) ==
  FlattenSeq([i \in DOMAIN specs |->
                IF \E j \in 1..(i - 1) : SameRegister(specs[j], specs[i])
                THEN <<>> ELSE <<specs[i]>>])

RegisterSpecs(doc) ==
  LET walked == Walked(doc)
  IN  Distinct(FlattenSeq([i \in DOMAIN walked |-> Collected(walked[i])]))

\* read_group: one request from the lowest to the highest address of a group.
Group(specs, input) ==
  FlattenSeq([i \in DOMAIN specs |-> IF specs[i].input = input THEN <<specs[i]>> ELSE <<>>])
Addresses(group) == {group[i].address : i \in DOMAIN group}
Lowest(group) == Min(Addresses(group))
Count(group) == (Max(Addresses(group)) - Lowest(group) + 1) % AddressCount

\* Mutant: the limit is only read_group's.
Sendable(count) == count <= MaxRegisters

\* send_request checks the count once more.
Accepted(count) == count # 0 /\ count <= MaxRegisters

Readable(group) == group # <<>> /\ Accepted(Count(group))

\* The answer holds one value per address of the request, from Lowest on;
\* each spec picks its own.
Picked(group, answer) ==
  [i \in DOMAIN group |->
     [address |-> group[i].address,
      value |-> answer[group[i].address - Lowest(group)]]]

-----------------------------------------------------------------------------
(* The Matter side: which attribute of which endpoint.                     *)

Entries(node, index) ==
  [i \in DOMAIN node.mappings |->
     [address |-> node.mappings[i].address,
      cell |-> <<index, node.mappings[i].attribute>>]]

\* Mutant: the parts are numbered from the root's own index.
PartsFromRoot(doc) ==
  IF doc = <<>> THEN <<>>
  ELSE LET nodes == WithParts(doc[1])
       IN  FlattenSeq([i \in DOMAIN nodes |-> Entries(nodes[i], IF i = 1 THEN 1 ELSE i - 1)])

\* parse_all_mappings: the first endpoint and its parts; the function of a
\* mapping is not looked at.  Index 1 is the root, endpoint_idx 0.
AllMappings(doc) ==
  IF doc = <<>> THEN <<>>
  ELSE LET nodes == WithParts(doc[1])
       IN  FlattenSeq([i \in DOMAIN nodes |-> Entries(nodes[i], i)])

\* The type that picks the wrapper: the first one, for the root none if the
\* list is empty.
Wrapper(doc, index) ==
  LET types == WithParts(doc[1])[index].types
  IN  IF types # <<>> /\ types[1] = "Solar" THEN "Solar" ELSE "ElectricalSensor"

Measurements == {"Voltage", "ActiveCurrent", "ActivePower"}
Attributes == Measurements \cup {"BatPercentRemaining"}

\* set_raw: SolarPowerDevice has no PowerSource branch.
Takes(wrapper, attribute) ==
  \/ attribute \in Measurements
  \/ attribute = "BatPercentRemaining" /\ wrapper = "ElectricalSensor"

\* Mutant: every wrapper is handed every attribute.
UpdatesOfAnyAttribute(doc, mappings, readings) ==
  LET For(r) ==
        FlattenSeq([i \in DOMAIN mappings |->
                      IF mappings[i].address = r.address
                      THEN <<[cell |-> mappings[i].cell, raw |-> r.value]>> ELSE <<>>])
  IN  FlattenSeq([i \in DOMAIN readings |-> For(readings[i])])

\* on_readings: every reading against every mapping, by address.
Updates(doc, mappings, readings) ==
  LET Hit(m, r) == m.address = r.address /\ Takes(Wrapper(doc, m.cell[1]), m.cell[2])
      For(r) ==
        FlattenSeq([i \in DOMAIN mappings |->
                      IF Hit(mappings[i], r)
                      THEN <<[cell |-> mappings[i].cell, raw |-> r.value]>> ELSE <<>>])
  IN  FlattenSeq([i \in DOMAIN readings |-> For(readings[i])])

\* The types whose clusters an endpoint gets: a root only its first one, which
\* esp_matter_bridge is given, a part all of them and at least one.
Composed(doc, index) ==
  LET types == WithParts(doc[1])[index].types
  IN  CASE index = 1 /\ types # <<>> -> {types[1]}
        [] index = 1 /\ types = <<>> -> {}
        [] index # 1 /\ types # <<>> -> Range(types)
        [] index # 1 /\ types = <<>> -> {"ElectricalSensor"}

\* add_device_clusters: solar and sensor types bring the cluster of the
\* measurements, only a Power Source type the one of the charge.
Published(doc, cell) ==
  LET types == Composed(doc, cell[1])
  IN  \/ cell[2] \in Measurements /\ {"Solar", "ElectricalSensor"} \cap types # {}
      \/ cell[2] = "BatPercentRemaining" /\ "PowerSource" \in types

Cells(doc, mappings) ==
  {c \in {mappings[i].cell : i \in DOMAIN mappings} : Takes(Wrapper(doc, c[1]), c[2])}

-----------------------------------------------------------------------------
(* set_voltage and its siblings: from 16 bits to Matter units.             *)

Signed(raw) == IF raw < ValueCount \div 2 THEN raw ELSE raw - ValueCount

\* Mutant: the charge is kept in eight bits before it is limited.
HalfPercentEightBit(raw) ==
  LET scaled == (raw * 2) % 256 IN IF scaled > 200 THEN 200 ELSE scaled

HalfPercent(raw) ==
  LET scaled == (raw * 2) % ValueCount IN IF scaled > 200 THEN 200 ELSE scaled

Scaled(attribute, raw) ==
  CASE attribute = "Voltage"             -> raw * 100
    [] attribute = "ActiveCurrent"       -> Signed(raw) * 100
    [] attribute = "ActivePower"         -> Signed(raw) * 1000
    [] attribute = "BatPercentRemaining" -> HalfPercent(raw)
=============================================================================
