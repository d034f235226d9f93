------------------------- MODULE DevicesStoreProofs -------------------------
(***************************************************************************)
(* Theorems about DevicesStore, for any set of ids, any DEVICES_MAX, any   *)
(* read limit and any set of faults; the last one says for which limits no *)
(* device is ever lost, by induction over the fold that adds up a file.    *)
(***************************************************************************)
EXTENDS DevicesStore, FiniteSetTheorems, Induction, TLAPS

-----------------------------------------------------------------------------
(* The inductive invariant.                                                *)

Fits(t) == Cardinality(Used(t)) <= DEVICES_MAX

\* Every copy of the table fits the array.
Bounded == Fits(before) /\ Fits(text) /\ Fits(Content(main)) /\ Fits(Content(tmp))

\* What each program point says about the mount and the table.
PowerState ==
  /\ pc = "off" => s_devices = Empty /\ ~mounted
  /\ pc \in {"write", "flush", "rename"} => mounted
  /\ ~mounted => before = Empty /\ (pc = "idle" => s_devices = Empty)

\* While persist runs, its text is the table; once flushed, so is the tmp file.
TextCurrent ==
  /\ pc \in Persisting => text = Serialised(s_devices)
  /\ pc = "rename" => tmp = text \/ lossy

\* The file never holds a device that memory has forgotten by accident.
InSync ==
  mounted /\ ~lossy =>
    /\ Used(Content(main)) \subseteq Used(s_devices) \cup dropped
    /\ pc \in Persisting => Used(Content(main)) \subseteq Used(before) \cup dropped

\* The table differs from the one before the call by what the call asked for.
EditMatchesCall ==
  pc \in Persisting =>
    \/ /\ op = "add"
       /\ \E i \in Ids, d \in Device :
            /\ before[i] = Vacant
            /\ Content(main)[i] = Vacant
            /\ Cardinality(Used(before)) < DEVICES_MAX
            /\ s_devices = [before EXCEPT ![i] = d]
    \/ /\ op = "update"
       /\ \E i \in Used(before), d \in Device : s_devices = [before EXCEPT ![i] = d]
    \/ /\ op = "restructure"
       /\ \E i \in Used(before), d \in Device :
            d.cfg = before[i].cfg /\ s_devices = [before EXCEPT ![i] = d]
    \/ /\ op = "remove"
       /\ \E i \in Used(before) : s_devices = [before EXCEPT ![i] = Vacant]
    \/ op = "clear" /\ s_devices = Empty

IInv ==
  /\ TypeOK
  /\ Bounded
  /\ PowerState
  /\ TextCurrent
  /\ PublishedIsWhole
  /\ InSync
  /\ EditMatchesCall

-----------------------------------------------------------------------------
(* Lemmas about tables and their serialised form.                          *)

LEMMA EmptyTable ==
  /\ Empty \in Table
  /\ Empty \in Text
  /\ Used(Empty) = {}
  /\ Fits(Empty)
<1>1. Used(Empty) = {}
  BY DEF Used, Empty
<1>2. Cardinality({}) = 0
  BY FS_EmptySet
<1> QED
  BY <1>1, <1>2, StoreAssumptions DEF Empty, Table, Text, Fits

LEMMA VacantIsNoEntry == Entry \subseteq Device /\ Vacant \notin Entry
BY StoreAssumptions DEF Entry, Device

\* Writing a table out and reading it back keeps its ids.
LEMMA SerialisedTable ==
  ASSUME NEW t \in Table
  PROVE  Serialised(t) \in Text /\ Used(Serialised(t)) = Used(t)
<1>1. ASSUME NEW d \in Device
      PROVE  Stored(d) \in Entry /\ Stored(d) # Vacant
  BY StoreAssumptions, VacantIsNoEntry DEF Stored, Device, Entry
<1>2. Stored(Vacant) = Vacant
  BY DEF Stored
<1> QED
  BY <1>1, <1>2, VacantIsNoEntry, StoreAssumptions
  DEF Table, Text, Serialised, Used

LEMMA SerialisedExcept ==
  ASSUME NEW t \in Table, NEW i \in Ids, NEW d
  PROVE  Serialised([t EXCEPT ![i] = d]) = [Serialised(t) EXCEPT ![i] = Stored(d)]
BY DEF Serialised, Table

LEMMA TextIsTable ==
  ASSUME NEW t \in Text
  PROVE  t \in Table /\ Serialised(t) = t
<1>1. t \in Table
  BY VacantIsNoEntry DEF Text, Table
<1>2. ASSUME NEW i \in Ids PROVE Stored(t[i]) = t[i]
  <2>1. CASE t[i] = Vacant
    BY <2>1 DEF Stored
  <2>2. CASE t[i] \in Entry
    BY <2>2, VacantIsNoEntry, StoreAssumptions DEF Stored, Entry
  <2> QED
    BY <2>1, <2>2 DEF Text
<1>3. t = [i \in Ids |-> t[i]]
  BY DEF Text
<1> QED
  BY <1>1, <1>2, <1>3 DEF Serialised

LEMMA UsedExcept ==
  ASSUME NEW t \in Table, NEW i \in Ids, NEW d \in Device
  PROVE  /\ [t EXCEPT ![i] = d] \in Table
         /\ Used([t EXCEPT ![i] = d]) = Used(t) \cup {i}
         /\ [t EXCEPT ![i] = Vacant] \in Table
         /\ Used([t EXCEPT ![i] = Vacant]) = Used(t) \ {i}
BY StoreAssumptions DEF Table, Used

LEMMA UsedIsFinite ==
  ASSUME NEW t
  PROVE  IsFiniteSet(Used(t)) /\ Cardinality(Used(t)) \in Nat
BY StoreAssumptions, FS_Subset, FS_CardinalityType DEF Used

LEMMA FitsExcept ==
  ASSUME NEW t \in Table, NEW i \in Ids, NEW d \in Device, Fits(t)
  PROVE  /\ i \in Used(t) \/ Cardinality(Used(t)) < DEVICES_MAX
              => Fits([t EXCEPT ![i] = d])
         /\ Fits([t EXCEPT ![i] = Vacant])
<1>1. IsFiniteSet(Used(t)) /\ Cardinality(Used(t)) \in Nat
  BY UsedIsFinite
<1>2. Cardinality(Used(t) \cup {i}) =
        IF i \in Used(t) THEN Cardinality(Used(t)) ELSE Cardinality(Used(t)) + 1
  BY <1>1, FS_AddElement
<1>3. Cardinality(Used(t) \ {i}) =
        IF i \in Used(t) THEN Cardinality(Used(t)) - 1 ELSE Cardinality(Used(t))
  BY <1>1, FS_RemoveElement
<1>4. /\ Used([t EXCEPT ![i] = d]) = Used(t) \cup {i}
      /\ Used([t EXCEPT ![i] = Vacant]) = Used(t) \ {i}
  BY UsedExcept
<1>5. DEVICES_MAX \in Nat
  BY StoreAssumptions
<1>6. i \in Used(t) \/ Cardinality(Used(t)) < DEVICES_MAX
        => Cardinality(Used(t) \cup {i}) <= DEVICES_MAX
  BY <1>1, <1>2, <1>5 DEF Fits
<1>7. Cardinality(Used(t) \ {i}) <= DEVICES_MAX
  BY <1>1, <1>3, <1>5 DEF Fits
<1> QED
  BY <1>4, <1>6, <1>7 DEF Fits

LEMMA FitsSerialised ==
  ASSUME NEW t \in Table, Fits(t)
  PROVE  Fits(Serialised(t))
BY SerialisedTable DEF Fits

LEMMA ContentIsText ==
  ASSUME NEW f \in Text \cup {NoFile, Torn}
  PROVE  Content(f) \in Text /\ Content(Torn) = Empty /\ Content(NoFile) = Empty
BY EmptyTable DEF Content, Whole

LEMMA LoadedIsText ==
  ASSUME NEW f \in Text \cup {NoFile, Torn}
  PROVE  Loaded(f) \in {Content(f), Empty}
BY DEF Loaded, Content, Whole

-----------------------------------------------------------------------------
(* The invariant is inductive: the initial states, then one lemma an       *)
(* action.                                                                 *)

LEMMA InitIInv == Init => IInv
<1> SUFFICES ASSUME Init PROVE IInv
  OBVIOUS
<1>1. TypeOK
  BY EmptyTable, StoreAssumptions DEF Init, TypeOK, Fits
<1>2. Bounded
  BY EmptyTable, ContentIsText DEF Init, Bounded
<1> QED
  BY <1>1, <1>2, EmptyTable, StoreAssumptions
  DEF Init, IInv, PowerState, TextCurrent, PublishedIsWhole, InSync,
      EditMatchesCall, Persisting

LEMMA StutterIInv == IInv /\ UNCHANGED vars => IInv'
BY DEF vars, IInv, TypeOK, Bounded, PowerState, TextCurrent, PublishedIsWhole,
       InSync, EditMatchesCall, Fits, Content, Whole, Used, Persisting, Serialised

LEMMA BootIInv == IInv /\ Boot => IInv'
<1> SUFFICES ASSUME IInv, Boot PROVE IInv'
  OBVIOUS
<1> USE DEF IInv
<1>1. /\ s_devices' \in {Content(main), Empty}
      /\ main' \in {main, NoFile} /\ tmp' \in {tmp, NoFile}
      /\ mounted' \in BOOLEAN /\ lossy' \in BOOLEAN
      /\ UNCHANGED <<before, text, dropped, op>> /\ pc' = "idle"
  BY LoadedIsText DEF Boot, Mount, Format, NoMount, TypeOK
<1>2. s_devices' \in Table /\ Fits(s_devices')
  BY <1>1, ContentIsText, EmptyTable, TextIsTable DEF Bounded, TypeOK
<1>3. TypeOK'
  BY <1>1, <1>2, StoreAssumptions DEF TypeOK, Fits, Used
<1>4. Fits(Content(main)') /\ Fits(Content(tmp)')
  BY <1>1, ContentIsText, EmptyTable DEF Bounded, Content, Fits, Used, Whole
<1>5. Bounded'
  BY <1>1, <1>4 DEF Bounded, Fits, Used
<1>6. PublishedIsWhole' /\ PowerState'
  BY StoreAssumptions
  DEF Boot, Mount, Format, NoMount, PublishedIsWhole, PowerState, TypeOK
<1>7. TextCurrent' /\ EditMatchesCall'
  BY <1>1 DEF TextCurrent, EditMatchesCall, Persisting
<1>8. InSync'
  <2>1. CASE Mount
    BY <1>1, <2>1 DEF Mount, InSync, Persisting, Used, Content, Whole
  <2>2. CASE Format
    <3>1. Used(Content(main)') = {}
      BY <2>2, EmptyTable DEF Format, Content, Whole, Used
    <3> QED
      BY <1>1, <3>1 DEF InSync, Persisting, Used
  <2>3. CASE NoMount
    BY <2>3 DEF NoMount, InSync
  <2> QED
    BY <2>1, <2>2, <2>3 DEF Boot
<1> QED
  BY <1>3, <1>5, <1>6, <1>7, <1>8

\* Every call enters persist through Begin.
LEMMA BeginIInv ==
  ASSUME IInv, NEW name, NEW table, Begin(name, table),
         name \in {"add", "update", "restructure", "remove", "clear"},
         table \in Table, Fits(table),
         UNCHANGED dropped \/ dropped' \in SUBSET Ids,
         dropped \subseteq dropped',
         Used(s_devices) \subseteq Used(table) \cup dropped',
         EditMatchesCall'
  PROVE  IInv'
<1> USE DEF IInv
<1>1. s_devices' = table /\ before' = s_devices /\ text' = Serialised(table)
  BY DEF Begin
<1>2. TypeOK'
  BY <1>1, SerialisedTable DEF Begin, TypeOK, Persisting, Fits
<1>3. Fits(s_devices)
  BY DEF TypeOK, Fits
<1>4. Bounded'
  BY <1>1, <1>3, FitsSerialised DEF Begin, Bounded, Fits, Used, Content, Whole
<1>5. PowerState' /\ PublishedIsWhole'
  BY <1>1 DEF Begin, PowerState, PublishedIsWhole
<1>6. TextCurrent'
  BY <1>1 DEF Begin, TextCurrent, Serialised
<1>7. InSync'
  BY <1>1 DEF Begin, InSync, Persisting, Used, Content, Whole
<1> QED
  BY <1>2, <1>4, <1>5, <1>6, <1>7

LEMMA AddIInv ==
  ASSUME IInv, NEW cfg \in Configs, NEW ms \in Inputs \cup {NoStructure}, Add(cfg, ms)
  PROVE  IInv'
<1> DEFINE d == [cfg |-> cfg, ms |-> Copied(ms)]
<1>1. d \in Device
  BY StoreAssumptions DEF Device, Copied, Inputs
<1>2. PICK i \in Ids : Fresh(i) /\ Begin("add", [s_devices EXCEPT ![i] = d])
  BY DEF Add
<1> DEFINE table == [s_devices EXCEPT ![i] = d]
<1>3. s_devices \in Table /\ Fits(s_devices) /\ Cardinality(Used(s_devices)) < DEVICES_MAX
  BY DEF IInv, TypeOK, Fits, Add, HasRoom
<1>4. table \in Table /\ Fits(table) /\ Used(table) = Used(s_devices) \cup {i}
  BY <1>1, <1>3, UsedExcept, FitsExcept
<1>5. s_devices[i] = Vacant /\ Content(main)[i] = Vacant
  BY <1>2 DEF Fresh, Used
<1>6. EditMatchesCall'
  BY <1>1, <1>2, <1>3, <1>5 DEF EditMatchesCall, Begin, Used, Content, Whole
<1>7. UNCHANGED dropped /\ dropped \subseteq dropped'
  BY DEF Add
<1> QED
  BY <1>2, <1>4, <1>6, <1>7, BeginIInv

LEMMA UpdateIInv ==
  ASSUME IInv, NEW i \in Ids, NEW cfg \in Configs, NEW ms \in Inputs \cup {Null},
         Update(i, cfg, ms)
  PROVE  IInv'
<1> DEFINE kept == IF ms = Null THEN s_devices[i].ms ELSE Copied(ms)
           d == [cfg |-> cfg, ms |-> kept]
           table == [s_devices EXCEPT ![i] = d]
<1>1. s_devices \in Table /\ Fits(s_devices) /\ i \in Used(s_devices)
  BY DEF IInv, TypeOK, Fits, Update
<1>2. s_devices[i] \in Device
  BY <1>1 DEF Table, Used
<1>3. d \in Device
  BY <1>2, StoreAssumptions DEF Device, Copied, Inputs
<1>4. table \in Table /\ Fits(table) /\ Used(table) = Used(s_devices) \cup {i}
  BY <1>1, <1>3, UsedExcept, FitsExcept
<1>5. Begin("update", table) /\ UNCHANGED dropped
  BY DEF Update
<1>6. EditMatchesCall'
  BY <1>1, <1>3, <1>5 DEF EditMatchesCall, Begin, Used
<1> QED
  BY <1>4, <1>5, <1>6, BeginIInv

LEMMA UpdateMatterStructureIInv ==
  ASSUME IInv, NEW i \in Ids, NEW ms \in Inputs, UpdateMatterStructure(i, ms)
  PROVE  IInv'
<1> DEFINE d == [s_devices[i] EXCEPT !.ms = Copied(ms)]
           table == [s_devices EXCEPT ![i] = d]
<1>1. s_devices \in Table /\ Fits(s_devices) /\ i \in Used(s_devices)
  BY DEF IInv, TypeOK, Fits, UpdateMatterStructure
<1>2. s_devices[i] \in Device
  BY <1>1 DEF Table, Used
<1>3. d \in Device /\ d.cfg = s_devices[i].cfg
  BY <1>2, StoreAssumptions DEF Device, Copied, Inputs
<1>4. table \in Table /\ Fits(table) /\ Used(table) = Used(s_devices) \cup {i}
  BY <1>1, <1>3, UsedExcept, FitsExcept
<1>5. Begin("restructure", table) /\ UNCHANGED dropped
  BY DEF UpdateMatterStructure
<1>6. EditMatchesCall'
  BY <1>1, <1>3, <1>5 DEF EditMatchesCall, Begin, Used
<1> QED
  BY <1>4, <1>5, <1>6, BeginIInv

LEMMA RemoveIInv ==
  ASSUME IInv, NEW i \in Ids, Remove(i)
  PROVE  IInv'
<1> DEFINE table == [s_devices EXCEPT ![i] = Vacant]
<1>1. s_devices \in Table /\ Fits(s_devices) /\ i \in Used(s_devices)
  BY DEF IInv, TypeOK, Fits, Remove
<1>2. s_devices[i] \in Device
  BY <1>1 DEF Table, Used
<1>3. table \in Table /\ Fits(table) /\ Used(table) = Used(s_devices) \ {i}
  BY <1>1, <1>2, UsedExcept, FitsExcept
<1>4. Begin("remove", table) /\ dropped' = dropped \cup {i}
  BY DEF Remove
<1>5. EditMatchesCall'
  BY <1>1, <1>4 DEF EditMatchesCall, Begin, Used
<1>6. dropped' \in SUBSET Ids
  BY <1>4 DEF IInv, TypeOK
<1> QED
  BY <1>3, <1>4, <1>5, <1>6, BeginIInv

LEMMA ClearIInv == IInv /\ Clear => IInv'
<1> SUFFICES ASSUME IInv, Clear PROVE IInv'
  OBVIOUS
<1>1. Begin("clear", Empty) /\ dropped' = dropped \cup Used(s_devices)
  BY DEF Clear
<1>2. EditMatchesCall'
  BY <1>1 DEF EditMatchesCall, Begin, Empty
<1>3. dropped' \in SUBSET Ids
  BY <1>1 DEF IInv, TypeOK, Used
<1> QED
  BY <1>1, <1>2, <1>3, EmptyTable, BeginIInv

\* A failing persist: the old table is back (add, update) or the edit stays.
LEMMA FailIInv ==
  ASSUME IInv, Fail, pc \in Persisting,
         tmp' \in {tmp, Torn}
  PROVE  IInv'
<1> USE DEF IInv
<1>1. s_devices' \in {before, s_devices}
  BY DEF Fail
<1>2. s_devices' \in Table /\ Fits(s_devices')
  BY <1>1 DEF TypeOK, Bounded, Fits
<1>3. TypeOK'
  BY <1>2, EmptyTable DEF Fail, Return, TypeOK, Fits
<1>4. Fits(Content(tmp)')
  BY ContentIsText, EmptyTable DEF Bounded, Content, Fits, Used
<1>5. Bounded'
  BY <1>4, EmptyTable DEF Fail, Return, Bounded, Fits, Used, Content, Whole
<1>6. ~mounted => s_devices' = Empty
  <2>1. SUFFICES ASSUME ~mounted PROVE s_devices' = Empty
    OBVIOUS
  <2>2. before = Empty
    BY <2>1 DEF PowerState
  <2>3. CASE op \in RollsBack
    BY <2>2, <2>3 DEF Fail
  <2>4. CASE op \notin RollsBack
    <3>1. \/ op = "clear" /\ s_devices = Empty
          \/ \E i \in Used(before) : TRUE
      BY <2>4 DEF EditMatchesCall, RollsBack
    <3> QED
      BY <3>1, <2>2, <2>4, EmptyTable DEF Fail
  <2> QED
    BY <2>3, <2>4
<1>7. PowerState'
  BY <1>6 DEF Fail, Return, PowerState
<1>8. TextCurrent' /\ EditMatchesCall'
  BY DEF Fail, Return, TextCurrent, EditMatchesCall, Persisting
<1>9. PublishedIsWhole'
  BY DEF Fail, Return, PublishedIsWhole
<1>10. InSync'
  BY <1>1 DEF Fail, Return, InSync, Persisting, Used, Content, Whole
<1> QED
  BY <1>3, <1>5, <1>7, <1>8, <1>9, <1>10

\* A step of persist that moves on and touches neither table nor main file.
LEMMA AdvanceIInv ==
  ASSUME IInv, pc \in Persisting, pc' \in {"write", "flush", "rename"}, mounted,
         UNCHANGED <<s_devices, main, mounted, op, before, text, dropped>>,
         tmp' \in {tmp, Torn, text},
         pc' = "rename" => tmp' = text \/ lossy',
         lossy \in BOOLEAN, lossy' \in BOOLEAN, lossy => lossy'
  PROVE  IInv'
<1> USE DEF IInv
<1>1. TypeOK'
  BY DEF TypeOK, Persisting, Fits, Used
<1>2. Fits(Content(tmp)')
  <2>1. CASE tmp' = text
    BY <2>1, StoreAssumptions DEF Bounded, Content, Fits, Used, Whole, TypeOK
  <2>2. CASE tmp' # text
    BY <2>2, ContentIsText, EmptyTable DEF Bounded, Content, Fits, Used
  <2> QED
    BY <2>1, <2>2
<1>3. Bounded'
  BY <1>2 DEF Bounded, Fits, Used, Content, Whole
<1>4. PowerState' /\ TextCurrent' /\ PublishedIsWhole'
  BY DEF PowerState, TextCurrent, PublishedIsWhole, Serialised, Persisting
<1>5. InSync'
  BY DEF InSync, Persisting, Used, Content, Whole
<1>6. EditMatchesCall'
  BY DEF EditMatchesCall, Persisting, Used, Content, Whole
<1> QED
  BY <1>1, <1>3, <1>4, <1>5, <1>6

LEMMA PersistOpenIInv == IInv /\ PersistOpen => IInv'
<1> SUFFICES ASSUME IInv, PersistOpen PROVE IInv'
  OBVIOUS
<1>1. CASE Fail
  BY <1>1, FailIInv DEF PersistOpen, Persisting
<1>2. CASE ~Fail
  BY <1>2, AdvanceIInv DEF PersistOpen, Persisting, IInv, TypeOK
<1> QED
  BY <1>1, <1>2

LEMMA PersistWriteIInv == IInv /\ PersistWrite => IInv'
<1> SUFFICES ASSUME IInv, PersistWrite PROVE IInv'
  OBVIOUS
<1>1. CASE Fail
  BY <1>1, FailIInv DEF PersistWrite, Persisting
<1>2. CASE ~Fail
  BY <1>2, AdvanceIInv DEF PersistWrite, Persisting, IInv, TypeOK, PowerState
<1> QED
  BY <1>1, <1>2

LEMMA PersistFlushIInv == IInv /\ PersistFlush => IInv'
<1> SUFFICES ASSUME IInv, PersistFlush PROVE IInv'
  OBVIOUS
<1>1. tmp' \in {tmp, Torn, text} /\ (tmp' = text \/ lossy') /\ (lossy => lossy')
  BY DEF PersistFlush
<1>2. lossy \in BOOLEAN /\ lossy' \in BOOLEAN
  BY DEF PersistFlush, IInv, TypeOK
<1> QED
  BY <1>1, <1>2, AdvanceIInv DEF PersistFlush, Persisting, IInv, PowerState

\* The rename publishes the table that memory holds.
LEMMA PersistRenameIInv == IInv /\ PersistRename => IInv'
<1> SUFFICES ASSUME IInv, PersistRename PROVE IInv'
  OBVIOUS
<1>1. CASE Fail /\ UNCHANGED tmp
  BY <1>1, FailIInv DEF PersistRename, Persisting
<1>2. CASE main' = tmp /\ tmp' = NoFile /\ Return /\ UNCHANGED s_devices
  <2> USE DEF IInv
  <2>1. /\ main' = tmp /\ tmp' = NoFile /\ Return /\ UNCHANGED s_devices
        /\ pc = "rename"
    BY <1>2 DEF PersistRename
  <2>2. TypeOK'
    BY <2>1, EmptyTable DEF Return, TypeOK, Fits, Used
  <2>3. Bounded'
    BY <2>1, EmptyTable, ContentIsText DEF Return, Bounded, Fits, Used, Content, Whole
  <2>4. PowerState' /\ TextCurrent' /\ EditMatchesCall'
    BY <2>1 DEF Return, PowerState, TextCurrent, EditMatchesCall, Persisting
  <2>5. ~lossy => tmp = Serialised(s_devices)
    BY <2>1 DEF TextCurrent, Persisting
  <2>6. s_devices \in Table
    BY DEF TypeOK
  <2>7. ~lossy => Whole(tmp) /\ Used(tmp) = Used(s_devices)
    BY <2>5, <2>6, SerialisedTable, StoreAssumptions DEF Whole
  <2>8. PublishedIsWhole'
    BY <2>1, <2>7 DEF Return, PublishedIsWhole, Whole
  <2>9. InSync'
    BY <2>1, <2>7 DEF Return, InSync, Content, Used, Persisting, Whole
  <2> QED
    BY <2>2, <2>3, <2>4, <2>8, <2>9
<1> QED
  BY <1>1, <1>2 DEF PersistRename

LEMMA RestartIInv == IInv /\ Restart => IInv'
<1> SUFFICES ASSUME IInv, Restart PROVE IInv'
  OBVIOUS
<1> USE DEF IInv
<1>1. tmp' \in {tmp, Torn}
  BY DEF Restart
<1>2. TypeOK'
  BY <1>1, EmptyTable, StoreAssumptions DEF Restart, TypeOK, Fits, Used
<1>3. Fits(Content(tmp)')
  BY <1>1, ContentIsText, EmptyTable DEF Bounded, Content, Fits, Used
<1>4. Bounded'
  BY <1>3, EmptyTable DEF Restart, Bounded, Fits, Used, Content, Whole
<1>5. PowerState' /\ TextCurrent' /\ EditMatchesCall' /\ InSync' /\ PublishedIsWhole'
  BY DEF Restart, PowerState, TextCurrent, EditMatchesCall, InSync,
         PublishedIsWhole, Persisting
<1> QED
  BY <1>2, <1>4, <1>5

LEMMA NextIInv == IInv /\ [Next]_vars => IInv'
<1> SUFFICES ASSUME IInv, [Next]_vars PROVE IInv'
  OBVIOUS
<1>1. CASE Boot
  BY <1>1, BootIInv
<1>2. ASSUME NEW cfg \in Configs, NEW ms \in Inputs \cup {NoStructure}, Add(cfg, ms)
      PROVE  IInv'
  BY <1>2, AddIInv
<1>3. ASSUME NEW i \in Ids, NEW cfg \in Configs, NEW ms \in Inputs \cup {Null},
             Update(i, cfg, ms)
      PROVE  IInv'
  BY <1>3, UpdateIInv
<1>4. ASSUME NEW i \in Ids, NEW ms \in Inputs, UpdateMatterStructure(i, ms)
      PROVE  IInv'
  BY <1>4, UpdateMatterStructureIInv
<1>5. ASSUME NEW i \in Ids, Remove(i)
      PROVE  IInv'
  BY <1>5, RemoveIInv
<1>6. CASE Clear
  BY <1>6, ClearIInv
<1>7. CASE PersistOpen
  BY <1>7, PersistOpenIInv
<1>8. CASE PersistWrite
  BY <1>8, PersistWriteIInv
<1>9. CASE PersistFlush
  BY <1>9, PersistFlushIInv
<1>10. CASE PersistRename
  BY <1>10, PersistRenameIInv
<1>11. CASE Restart
  BY <1>11, RestartIInv
<1>12. CASE UNCHANGED vars
  BY <1>12, StutterIInv
<1> QED
  BY <1>1, <1>2, <1>3, <1>4, <1>5, <1>6, <1>7, <1>8, <1>9, <1>10, <1>11, <1>12
  DEF Next

LEMMA Invariance == Spec => []IInv
BY InitIInv, NextIInv, PTL DEF Spec

-----------------------------------------------------------------------------
(* The theorems.                                                           *)

\* Type correctness; the table never holds more than DEVICES_MAX devices,
\* however calls, faults and restarts follow one another.
THEOREM TypeCorrect == Spec => []TypeOK
<1>1. IInv => TypeOK
  BY DEF IInv
<1> QED
  BY <1>1, Invariance, PTL

\* persist() never publishes a part of a file, unless a flush failed unnoticed.
THEOREM FileIsWhole == Spec => []PublishedIsWhole
<1>1. IInv => PublishedIsWhole
  BY DEF IInv
<1> QED
  BY <1>1, Invariance, PTL

\* An entry leaves devices.json only because a caller asked for it, a flush
\* failed or a file was ignored before, or the partition was formatted.
THEOREM OnlyRemovalLoses == Spec => OnlyRemovalLosesDevices
<1>1. IInv /\ [Next]_vars
        => [\A i \in Ids : DeviceLost(i) => i \in dropped \/ lossy \/ Formatted]_main
  <2> SUFFICES ASSUME IInv, [Next]_vars, main' # main,
                      NEW i \in Ids, DeviceLost(i), ~lossy,
                      ~Formatted
               PROVE  i \in dropped
    OBVIOUS
  <2>1. main' = tmp /\ pc = "rename"
    BY DEF Formatted, Next, vars, Boot, Mount, Format, NoMount, Add,
           Update, UpdateMatterStructure, Remove, Clear, Begin, PersistOpen,
           PersistWrite, PersistFlush, PersistRename, Fail, Restart
  <2>2. tmp = Serialised(s_devices) /\ s_devices \in Table /\ mounted
    BY <2>1 DEF IInv, TextCurrent, Persisting, TypeOK, PowerState
  <2>3. Content(main') = tmp /\ Used(tmp) = Used(s_devices)
    BY <2>1, <2>2, SerialisedTable, StoreAssumptions DEF Content, Whole
  <2>4. Used(Content(main)) \subseteq Used(s_devices) \cup dropped
    BY <2>2 DEF IInv, InSync
  <2> QED
    BY <2>3, <2>4 DEF DeviceLost
<1> QED
  BY <1>1, Invariance, PTL DEF Spec, OnlyRemovalLosesDevices

-----------------------------------------------------------------------------
(* Refinement: every step of the store is a step of StoreContract, as long *)
(* as no file was ignored and no flush lost.                               *)

Live == Serialised(IF pc \in Persisting THEN before ELSE s_devices)

LEMMA ContractVars ==
  /\ Contract!vars = <<Live, Content(main), pc # "off" /\ mounted>>
  /\ Contract!Entry = Entry
  /\ \A t : Contract!Used(t) = Used(t)
  /\ Contract!Empty = Empty
BY DEF Contract!vars, Live, Contract!Entry, Entry, Contract!Used, Used,
       Contract!Empty, Empty

LEMMA InitContract == Init => Contract!Init
BY EmptyTable, TextIsTable
DEF Init, Contract!Init, Contract!Empty, Empty, Persisting, Content, Whole

LEMMA StoredDevice ==
  ASSUME NEW d \in Device
  PROVE  Stored(d) \in Entry /\ Stored(d).cfg = d.cfg
BY StoreAssumptions, VacantIsNoEntry DEF Stored, Device, Entry

\* The edits of the contract, read off the table before and after a call.
LEMMA EditOfContract ==
  ASSUME IInv, pc \in Persisting, Live' = Serialised(s_devices)
  PROVE  \/ /\ op \in RollsBack
            /\ \E i \in Ids, e \in Entry : Contract!Added(i, e) \/ Contract!Changed(i, e)
         \/ /\ op = "restructure"
            /\ \E i \in Ids, e \in Entry :
                 Contract!Restructured(i, e) /\ Contract!Changed(i, e)
         \/ op = "remove" /\ \E i \in Ids : Contract!Removed(i)
         \/ op = "clear" /\ Contract!Cleared
<1> USE DEF Live
<1>1. before \in Table /\ Live = Serialised(before)
  BY DEF IInv, TypeOK
<1>2. /\ Serialised(before) \in Text
      /\ Used(Serialised(before)) = Used(before)
  BY <1>1, SerialisedTable
<1>3. ASSUME NEW i \in Ids
      PROVE  /\ Serialised(before)[i] = Vacant <=> before[i] = Vacant
             /\ i \in Used(before) => Serialised(before)[i].cfg = before[i].cfg
  <2>1. Serialised(before)[i] = Stored(before[i])
    BY DEF Serialised
  <2> QED
    BY <2>1, <1>1, <1>2, StoredDevice DEF Used, Table
<1>4. CASE op = "add"
  <2>1. PICK i \in Ids, d \in Device :
          /\ before[i] = Vacant
          /\ Content(main)[i] = Vacant
          /\ Cardinality(Used(before)) < DEVICES_MAX
          /\ s_devices = [before EXCEPT ![i] = d]
    BY <1>4 DEF IInv, EditMatchesCall
  <2>2. Live' = [Live EXCEPT ![i] = Stored(d)]
    BY <1>1, <2>1, SerialisedExcept
  <2>3. Contract!Cardinality(Contract!Used(Live)) = Cardinality(Used(before))
    <3>1. Contract!Used(Live) = Used(before)
      BY <1>1, <1>2 DEF Contract!Used, Used
    <3>2. ASSUME NEW S PROVE Contract!Cardinality(S) = Cardinality(S)
      BY DEF Contract!Cardinality, Cardinality
    <3> QED
      BY <3>1, <3>2
  <2>4. Contract!Added(i, Stored(d))
    BY <1>1, <1>3, <2>1, <2>2, <2>3 DEF Contract!Added
  <2>5. Stored(d) \in Entry
    BY StoredDevice
  <2> HIDE DEF Live
  <2> QED
    BY <1>4, <2>4, <2>5 DEF RollsBack
<1>5. CASE op = "update"
  <2>1. PICK i \in Used(before), d \in Device : s_devices = [before EXCEPT ![i] = d]
    BY <1>5 DEF IInv, EditMatchesCall
  <2>2. i \in Ids
    BY DEF Used
  <2>3. Live' = [Live EXCEPT ![i] = Stored(d)]
    BY ZenonT(60), <1>1, <2>1, <2>2, SerialisedExcept
  <2>4. Contract!Changed(i, Stored(d))
    BY <1>1, <1>3, <2>2, <2>3 DEF Contract!Changed, Used
  <2> QED
    BY <1>5, <2>2, <2>4, StoredDevice DEF RollsBack
<1>6. CASE op = "restructure"
  <2>1. PICK i \in Used(before), d \in Device :
          d.cfg = before[i].cfg /\ s_devices = [before EXCEPT ![i] = d]
    BY <1>6 DEF IInv, EditMatchesCall
  <2>2. i \in Ids
    BY DEF Used
  <2>3. Live' = [Live EXCEPT ![i] = Stored(d)]
    BY <1>1, <2>1, <2>2, SerialisedExcept
  <2>4. Contract!Changed(i, Stored(d))
    BY <1>1, <1>3, <2>2, <2>3 DEF Contract!Changed, Used
  <2>5. Contract!Restructured(i, Stored(d))
    BY <1>1, <1>3, <2>1, <2>2, <2>3, StoredDevice DEF Contract!Restructured, Used
  <2> QED
    BY <1>6, <2>2, <2>4, <2>5, StoredDevice
<1>7. CASE op = "remove"
  <2>1. PICK i \in Used(before) : s_devices = [before EXCEPT ![i] = Vacant]
    BY <1>7 DEF IInv, EditMatchesCall
  <2>2. i \in Ids /\ Stored(Vacant) = Vacant
    BY DEF Used, Stored
  <2>3. Live' = [Live EXCEPT ![i] = Vacant]
    <3>1. Serialised([before EXCEPT ![i] = Vacant])
            = [Serialised(before) EXCEPT ![i] = Stored(Vacant)]
      BY <1>1, <2>2, SerialisedExcept
    <3> HIDE DEF Live
    <3> QED
      BY <1>1, <2>1, <2>2, <3>1
  <2>4. Contract!Removed(i)
    BY <1>1, <1>3, <2>2, <2>3 DEF Contract!Removed, Used
  <2> QED
    BY <1>7, <2>2, <2>4
<1>8. CASE op = "clear"
  BY <1>8, EmptyTable, TextIsTable
  DEF IInv, EditMatchesCall, Contract!Cleared, Contract!Empty, Empty
<1> QED
  BY <1>4, <1>5, <1>6, <1>7, <1>8 DEF IInv, EditMatchesCall

LEMMA NextContract ==
  IInv /\ [Next]_vars => lossy' \/ [Contract!Next]_(Contract!vars)
<1> SUFFICES ASSUME IInv, [Next]_vars, ~lossy'
             PROVE  [Contract!Next]_(Contract!vars)
  OBVIOUS
<1> DEFINE up == pc # "off" /\ mounted
<1>a. (UNCHANGED <<Live, Content(main), up>>) => [Contract!Next]_(Contract!vars)
  BY ContractVars DEF Contract!vars, Live
<1>b. Serialised(Empty) = Empty
  BY EmptyTable, TextIsTable
<1>1. CASE Boot
  <2>1. Live = Empty /\ ~up /\ Live' = Serialised(s_devices') /\ pc' # "off"
    BY <1>1, <1>b DEF Boot, Live, Persisting, IInv, PowerState
  <2>2. CASE NoMount
    <3>1. Live' = Empty /\ ~up' /\ UNCHANGED Content(main)
      BY <1>b, <2>1, <2>2 DEF NoMount, Content, Whole
    <3> QED
      BY <1>a, <2>1, <3>1
  <2>3. CASE Mount
    <3>1. s_devices' = Content(main) /\ UNCHANGED Content(main)
      BY <2>3 DEF Mount, Content, Whole
    <3>2. Serialised(Content(main)) = Content(main)
      BY ContentIsText, TextIsTable DEF IInv, TypeOK
    <3>3. Live' = Content(main) /\ up'
      BY <2>1, <2>3, <3>1, <3>2 DEF Mount
    <3>4. Contract!PowerOn
      BY <2>1, <3>1, <3>3 DEF Contract!PowerOn, Live
    <3> QED
      BY <3>4 DEF Contract!Next
  <2>4. CASE Format
    <3>1. Live' = Empty /\ Content(main)' = Empty /\ up' \in BOOLEAN
      BY <1>b, <2>1, <2>4 DEF Format, Content, Whole, Empty
    <3>2. Contract!Wiped
      BY <2>1, <2>4, <3>1 DEF Contract!Wiped, Contract!Empty, Empty, Live, Format
    <3> QED
      BY <3>2 DEF Contract!Next
  <2> QED
    BY <1>1, <2>2, <2>3, <2>4 DEF Boot
<1>2. ASSUME NEW name, NEW table, Begin(name, table)
      PROVE  [Contract!Next]_(Contract!vars)
  <2>1. UNCHANGED <<Live, Content(main), up>>
    BY <1>2 DEF Begin, Live, Persisting, Content, Whole, Serialised
  <2> QED
    BY <1>a, <2>1
<1>3. CASE (\E cfg \in Configs, ms \in Inputs \cup {NoStructure} : Add(cfg, ms))
  BY <1>3, <1>2 DEF Add, HasRoom
<1>4. CASE (\E i \in Ids, cfg \in Configs, ms \in Inputs \cup {Null} : Update(i, cfg, ms))
  BY <1>4, <1>2 DEF Update
<1>5. CASE (\E i \in Ids, ms \in Inputs : UpdateMatterStructure(i, ms))
  BY <1>5, <1>2 DEF UpdateMatterStructure
<1>6. CASE (\E i \in Ids : Remove(i)) \/ Clear
  BY <1>6, <1>2 DEF Remove, Clear
<1>7. ASSUME Fail, pc \in Persisting
      PROVE  [Contract!Next]_(Contract!vars)
  <2>1. UNCHANGED <<Content(main), up>> /\ Live' = Serialised(s_devices')
    BY <1>7 DEF Fail, Return, Live, Persisting, Content, Whole
  <2>2. CASE op \in RollsBack
    BY <1>7, <1>a, <2>1, <2>2 DEF Fail, Live
  <2>3. CASE op \notin RollsBack
    <3>1. s_devices' = s_devices
      BY <1>7, <2>3 DEF Fail
    <3>2. CASE ~mounted
      <4>1. before = Empty /\ s_devices = Empty
        BY <1>7, <2>3, <3>2, EmptyTable
        DEF IInv, PowerState, EditMatchesCall, RollsBack
      <4> QED
        BY <1>7, <1>a, <2>1, <3>1, <4>1 DEF Live
    <3>3. CASE mounted
      <4>1. Live' = Serialised(s_devices)
        BY <2>1, <3>1 DEF Serialised
      <4>2. up /\ UNCHANGED <<Content(main), up>>
        BY <1>7, <2>1, <3>3 DEF Persisting
      <4>3. Contract!LoseSync
        BY <1>7, <2>3, <4>1, <4>2, EditOfContract, ContractVars DEF Contract!LoseSync
      <4> QED
        BY <4>3 DEF Contract!Next
    <3> QED
      BY <3>2, <3>3 DEF IInv, TypeOK
  <2> QED
    BY <2>2, <2>3
<1>8. ASSUME pc \in Persisting, pc' \in Persisting,
             UNCHANGED <<s_devices, main, mounted, before>>
      PROVE  [Contract!Next]_(Contract!vars)
  <2>1. UNCHANGED <<Live, Content(main), up>>
    BY <1>8 DEF Live, Persisting, Content, Whole, Serialised
  <2> QED
    BY <1>a, <2>1
<1>9. CASE PersistOpen \/ PersistWrite \/ PersistFlush
  BY <1>7, <1>8, <1>9 DEF PersistOpen, PersistWrite, PersistFlush, Persisting
<1>10. CASE PersistRename
  <2>1. CASE Fail
    BY <1>7, <1>10, <2>1 DEF PersistRename, Persisting
  <2>2. CASE main' = tmp /\ tmp' = NoFile /\ Return /\ UNCHANGED s_devices
    <3>1. pc = "rename" /\ ~lossy /\ mounted
      BY <1>10, <2>2 DEF PersistRename, Return, IInv, PowerState
    <3>2. tmp = Serialised(s_devices) /\ s_devices \in Table
      BY <3>1 DEF IInv, TextCurrent, Persisting, TypeOK
    <3>3. Content(main)' = Serialised(s_devices)
      BY <2>2, <3>2, SerialisedTable, StoreAssumptions DEF Content, Whole
    <3>4. Live' = Serialised(s_devices) /\ up /\ up'
      BY <2>2, <3>1 DEF Return, Live, Persisting, Serialised
    <3>5. Contract!Commit
      BY <3>1, <3>3, <3>4, EditOfContract, ContractVars
      DEF Contract!Commit, Live, Persisting
    <3> QED
      BY <3>5 DEF Contract!Next
  <2> QED
    BY <1>10, <2>1, <2>2 DEF PersistRename
<1>11. CASE Restart
  <2>1. Live' = Empty /\ ~up' /\ UNCHANGED Content(main)
    BY <1>11, <1>b DEF Restart, Live, Persisting, Content, Whole, Empty
  <2>2. Contract!PowerOff
    BY <2>1 DEF Contract!PowerOff, Live, Contract!Empty, Empty
  <2> QED
    BY <2>2 DEF Contract!Next
<1>12. CASE UNCHANGED vars
  BY <1>12, <1>a DEF vars, Live, Content, Whole, Serialised, Persisting
<1> QED
  BY <1>1, <1>3, <1>4, <1>5, <1>6, <1>9, <1>10, <1>11, <1>12 DEF Next

\* devices_store implements StoreContract: success is durable, a failed add or
\* update has no effect, a restart restores what was saved, or nothing at all
\* if it found a partition that it had to format.
THEOREM StoreImplementsContract == Spec => ImplementsContract
BY InitContract, NextContract, Invariance, PTL DEF Spec, ImplementsContract


-----------------------------------------------------------------------------
(* How long devices.json gets.                                             *)

Chosen(s) == CHOOSE i \in s : TRUE
WeightIn(t, i) == Weight[t[i].ms]

\* The recursive function in the definition of FileSize, on the sets of at
\* most n of the used ids.
IsTally(it, t, n) ==
  it = [s \in {x \in SUBSET Used(t) : Cardinality(x) <= n} |->
          IF s = {} THEN 0 ELSE WeightIn(t, Chosen(s)) + it[s \ {Chosen(s)}]]

LEMMA Shrinks ==
  ASSUME NEW t, NEW s \in SUBSET Used(t), s # {}
  PROVE  /\ IsFiniteSet(s) /\ Cardinality(s) \in Nat \ {0}
         /\ Chosen(s) \in s
         /\ s \ {Chosen(s)} \in SUBSET Used(t)
         /\ Cardinality(s \ {Chosen(s)}) = Cardinality(s) - 1
<1>1. IsFiniteSet(s) /\ Cardinality(s) \in Nat
  BY UsedIsFinite, FS_Subset, FS_CardinalityType
<1>2. Cardinality(s) # 0
  BY <1>1, FS_EmptySet
<1>3. Chosen(s) \in s
  BY DEF Chosen
<1>4. Cardinality(s \ {Chosen(s)}) = Cardinality(s) - 1
  BY <1>1, <1>3, FS_RemoveElement
<1> QED
  BY <1>1, <1>2, <1>3, <1>4

LEMMA TallyExists ==
  ASSUME NEW t
  PROVE  \A n \in Nat : \E it : IsTally(it, t, n)
<1> DEFINE T == {n \in Nat : \E it : IsTally(it, t, n)}
           D(n) == {x \in SUBSET Used(t) : Cardinality(x) <= n}
<1>1. 0 \in T
  <2> DEFINE it == [s \in D(0) |-> 0]
  <2>1. ASSUME NEW s \in D(0) PROVE s = {}
    <3>1. s \in SUBSET Used(t) /\ Cardinality(s) <= 0
      OBVIOUS
    <3>2. s # {} => Cardinality(s) \in Nat \ {0}
      BY <3>1, Shrinks
    <3> HIDE DEF D
    <3> QED
      BY <3>1, <3>2
  <2>2. it = [s \in D(0) |-> IF s = {} THEN 0 ELSE WeightIn(t, Chosen(s)) + it[s \ {Chosen(s)}]]
    BY <2>1
  <2>3. IsTally(it, t, 0)
    BY <2>2, Zenon DEF IsTally
  <2> QED
    BY <2>3
<1>2. ASSUME NEW n \in Nat, n \in T PROVE n + 1 \in T
  <2>1. PICK f : IsTally(f, t, n)
    BY <1>2
  <2> DEFINE g == [s \in D(n + 1) |->
                     IF s = {} THEN 0 ELSE WeightIn(t, Chosen(s)) + f[s \ {Chosen(s)}]]
  <2>2. \A s \in D(n) : f[s] = IF s = {} THEN 0 ELSE WeightIn(t, Chosen(s)) + f[s \ {Chosen(s)}]
    BY <2>1, Zenon DEF IsTally
  <2>3. ASSUME NEW s \in D(n + 1), s # {} PROVE s \ {Chosen(s)} \in D(n) /\ s \ {Chosen(s)} \in D(n + 1)
    <3>1. Cardinality(s) \in Nat /\ Cardinality(s) <= n + 1
      BY <2>3, Shrinks
    <3> QED
      BY <2>3, <3>1, Shrinks
  <2>4. ASSUME NEW s \in D(n), s \in D(n + 1) PROVE g[s] = f[s]
    BY <2>2, <2>4
  <2>5. ASSUME NEW s \in D(n + 1), s # {} PROVE g[s \ {Chosen(s)}] = f[s \ {Chosen(s)}]
    BY <2>3, <2>4, <2>5
  <2>6. g = [s \in D(n + 1) |-> IF s = {} THEN 0 ELSE WeightIn(t, Chosen(s)) + g[s \ {Chosen(s)}]]
    <3>1. ASSUME NEW s \in D(n + 1)
          PROVE  g[s] = IF s = {} THEN 0 ELSE WeightIn(t, Chosen(s)) + g[s \ {Chosen(s)}]
      BY <2>5
    <3>2. g = [s \in D(n + 1) |-> g[s]]
      OBVIOUS
    <3> HIDE DEF g, D
    <3> QED
      BY <3>1, <3>2, Zenon
  <2>7. IsTally(g, t, n + 1)
    BY <2>6, Zenon DEF IsTally
  <2> HIDE DEF g
  <2> QED
    BY <2>7
<1> HIDE DEF T
<1>3. \A n \in Nat : n \in T
  BY <1>1, <1>2, SetInduction
<1> QED
  BY <1>3 DEF T

LEMMA FileSizeDef ==
  ASSUME NEW t
  PROVE  \E it : IsTally(it, t, Cardinality(Used(t))) /\ FileSize(t) = it[Used(t)]
<1> DEFINE n == Cardinality(Used(t))
           F == CHOOSE it : it = [s \in SUBSET Used(t) |->
                  IF s = {} THEN 0 ELSE Weight[t[CHOOSE i \in s : TRUE].ms] + it[s \ {CHOOSE i \in s : TRUE}]]
<1>1. FileSize(t) = F[Used(t)]
  BY DEF FileSize, MapThenSumSet, MapThenFoldSet
<1>2. {x \in SUBSET Used(t) : Cardinality(x) <= n} = SUBSET Used(t)
  BY UsedIsFinite, FS_Subset
<1>3. \A it : IsTally(it, t, n) <=>
        it = [s \in SUBSET Used(t) |->
                IF s = {} THEN 0 ELSE Weight[t[CHOOSE i \in s : TRUE].ms] + it[s \ {CHOOSE i \in s : TRUE}]]
  BY <1>2, Zenon DEF IsTally, WeightIn, Chosen
<1>4. \E it : IsTally(it, t, n)
  BY UsedIsFinite, TallyExists
<1>5. IsTally(F, t, n)
  BY <1>3, <1>4, ZenonT(60)
<1> HIDE DEF F
<1> QED
  BY <1>1, <1>5

\* A file is no longer than its number of entries times its longest entry.
LEMMA FileSizeBound ==
  ASSUME NEW t \in Text, NEW longest \in Nat,
         \A ms \in Structures \cup {NoStructure} : Weight[ms] <= longest
  PROVE  FileSize(t) \in Nat /\ FileSize(t) <= Cardinality(Used(t)) * longest
<1> DEFINE N == Cardinality(Used(t))
           Bound(it, n) == \A s \in SUBSET Used(t) :
                             Cardinality(s) = n => it[s] \in Nat /\ it[s] <= n * longest
<1>1. PICK it : IsTally(it, t, N) /\ FileSize(t) = it[Used(t)]
  BY FileSizeDef
<1>2. N \in Nat
  BY UsedIsFinite
<1>3. ASSUME NEW s \in SUBSET Used(t)
      PROVE  it[s] = IF s = {} THEN 0 ELSE WeightIn(t, Chosen(s)) + it[s \ {Chosen(s)}]
  <2>1. Cardinality(s) <= N
    BY UsedIsFinite, FS_Subset
  <2> HIDE DEF N
  <2>2. s \in {x \in SUBSET Used(t) : Cardinality(x) <= N}
    BY <2>1
  <2> QED
    BY <1>1, <2>2, Zenon DEF IsTally
<1>4. ASSUME NEW i \in Used(t) PROVE WeightIn(t, i) \in Nat /\ WeightIn(t, i) <= longest
  <2>1. t[i] \in Entry
    BY DEF Used, Text
  <2>2. t[i].ms \in Structures \cup {NoStructure}
    BY <2>1 DEF Entry
  <2> QED
    BY <2>2, StoreAssumptions DEF WeightIn
<1> DEFINE T == {n \in Nat : Bound(it, n)}
<1>5. 0 \in T
  <2>1. ASSUME NEW s \in SUBSET Used(t), Cardinality(s) = 0 PROVE it[s] = 0
    <3>1. s = {}
      BY <2>1, Shrinks
    <3> QED
      BY <1>3, <3>1
  <2> QED
    BY <2>1
<1>6. ASSUME NEW n \in Nat, n \in T PROVE n + 1 \in T
  <2>1. ASSUME NEW s \in SUBSET Used(t), Cardinality(s) = n + 1
        PROVE  it[s] \in Nat /\ it[s] <= (n + 1) * longest
    <3> DEFINE r == s \ {Chosen(s)}
    <3>1. s # {}
      BY <2>1, FS_EmptySet
    <3>2. r \in SUBSET Used(t) /\ Cardinality(r) = n /\ Chosen(s) \in Used(t)
      BY <2>1, <3>1, Shrinks
    <3>3. it[s] = WeightIn(t, Chosen(s)) + it[r]
      BY <1>3, <3>1
    <3> HIDE DEF r
    <3>4. it[r] \in Nat /\ it[r] <= n * longest
      BY <1>6, <3>2
    <3>5. WeightIn(t, Chosen(s)) \in Nat /\ WeightIn(t, Chosen(s)) <= longest
      BY <1>4, <3>2
    <3>6. n * longest \in Nat /\ (n + 1) * longest = n * longest + longest
      OBVIOUS
    <3> QED
      BY <3>3, <3>4, <3>5, <3>6
  <2> QED
    BY <2>1
<1> HIDE DEF T
<1>7. N \in T
  BY <1>2, <1>5, <1>6, SetInduction
<1>8. Bound(it, N)
  BY <1>7 DEF T
<1> QED
  BY <1>1, <1>8

\* As many entries as the array has fit a file that a start-up reads, neither
\* reading nor flushing fails, and no start-up has to format the partition.
\* The limits of the code are not such: 32 entries, with structures of up to
\* 2047 bytes each, against a file of 16384 bytes.
RoomForAll ==
  /\ {"load", "flush", "format"} \cap Faults = {}
  /\ \E longest \in Nat :
       /\ \A ms \in Structures \cup {NoStructure} : Weight[ms] <= longest
       /\ DEVICES_MAX * longest <= ReadLimit

LEMMA EveryFileIsRead ==
  ASSUME RoomForAll, IInv, ~lossy
  PROVE  Loaded(main) = Content(main)
<1>1. main \in Text \cup {NoFile} /\ Content(main) \in Text /\ Fits(Content(main))
  BY ContentIsText DEF IInv, TypeOK, PublishedIsWhole, Bounded
<1>2. CASE Whole(main)
  <2>1. PICK longest \in Nat : /\ \A ms \in Structures \cup {NoStructure} : Weight[ms] <= longest
                               /\ DEVICES_MAX * longest <= ReadLimit
    BY DEF RoomForAll
  <2> DEFINE n == Cardinality(Used(Content(main)))
             size == FileSize(Content(main))
  <2>2. size \in Nat /\ size <= n * longest
    BY <1>1, <2>1, FileSizeBound
  <2>3. n \in Nat /\ n <= DEVICES_MAX
    BY <1>1, UsedIsFinite DEF Fits
  <2> HIDE DEF n, size
  <2>4. n * longest <= DEVICES_MAX * longest /\ n * longest \in Nat /\ DEVICES_MAX * longest \in Nat
    BY <2>3, StoreAssumptions
  <2>5. size <= ReadLimit
    BY <2>1, <2>2, <2>4, StoreAssumptions
  <2> QED
    BY <1>2, <2>5 DEF Loaded, Content, size
<1>3. CASE ~Whole(main)
  BY <1>3 DEF Loaded, Content
<1> QED
  BY <1>2, <1>3

LEMMA NeverLossy == RoomForAll => (Spec => []~lossy)
<1> SUFFICES ASSUME RoomForAll PROVE Spec => []~lossy
  OBVIOUS
<1>1. Init => ~lossy
  BY DEF Init
<1>2. IInv /\ ~lossy /\ [Next]_vars => ~lossy'
  <2> SUFFICES ASSUME IInv, ~lossy, [Next]_vars PROVE ~lossy'
    OBVIOUS
  <2>1. CASE Boot
    <3>1. Loaded(main) = Content(main) /\ "load" \notin Faults
      BY EveryFileIsRead DEF RoomForAll
    <3> QED
      BY <2>1, <3>1 DEF Boot, Mount, Format, NoMount
  <2>2. CASE PersistFlush
    BY <2>2 DEF PersistFlush, RoomForAll
  <2>3. CASE UNCHANGED lossy
    BY <2>3
  <2>4. Boot \/ PersistFlush \/ UNCHANGED lossy
    BY DEF Next, vars, Add, Update, UpdateMatterStructure, Remove, Clear, Begin,
       PersistOpen, PersistWrite, PersistRename, Fail, Return, Restart
  <2> QED
    BY <2>1, <2>2, <2>3, <2>4
<1> QED
  BY <1>1, <1>2, Invariance, PTL DEF Spec

\* The too large file is the one way to lose a device that needs no fault: with
\* room for all in the file, and none of the faults that RoomForAll names, no
\* device is lost that nobody removed, and the store keeps its contract, whose
\* start-up then never comes up empty-handed.
THEOREM FilesThatFitAreKept == RoomForAll => (Spec => NeverLosesDevices /\ Contract!Spec)
<1> SUFFICES ASSUME RoomForAll PROVE Spec => NeverLosesDevices /\ Contract!Spec
  OBVIOUS
<1>1. ~lossy /\ [Next]_vars
        /\ [\A i \in Ids : DeviceLost(i) => i \in dropped \/ lossy \/ Formatted]_main
        => [\A i \in Ids : DeviceLost(i) => i \in dropped]_main
  <2>1. pc = "off" /\ [Next]_vars => UNCHANGED main
    BY DEF RoomForAll, Next, vars, Boot, Mount, Format, NoMount, Add, Update,
           UpdateMatterStructure, Remove, Clear, Begin, PersistOpen, PersistWrite,
           PersistFlush, PersistRename, Restart
  <2>2. Formatted /\ [Next]_vars => UNCHANGED main
    BY <2>1 DEF Formatted
  <2> QED
    BY <2>2
<1>2. Spec => []~lossy
  BY NeverLossy
<1>3. Spec => NeverLosesDevices
  BY <1>1, <1>2, Invariance, OnlyRemovalLoses, PTL
  DEF Spec, OnlyRemovalLosesDevices, NeverLosesDevices
<1>4. IInv /\ [Next]_vars /\ ~lossy' => [Contract!Next]_(Contract!vars)
  BY NextContract
<1>5. Spec => Contract!Spec
  BY <1>2, <1>4, InitContract, Invariance, PTL DEF Spec, Contract!Spec
<1> QED
  BY <1>3, <1>5
=============================================================================
