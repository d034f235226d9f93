------------------------- MODULE ReadingPathProofs -------------------------
(***************************************************************************)
(* Proofs about ReadingPath, for any documents, register values, limits    *)
(* and queue length.  The inductive invariants:                            *)
(*                                                                         *)
(*   Guarded  as long as m_devices was not touched during a callback, the  *)
(*            callback's iterator and its Matter devices are there;        *)
(*   Mirror   m_bat_percent and the attribute store differ only in the     *)
(*            attribute that the poll task is about to update;             *)
(*   Fixed    the document, its registers and its table of attributes are  *)
(*            those parsed at the start;                                   *)
(*   Typed    TypeOK, with the jobs of a callback, the range of what was   *)
(*            read, and the range of every charge in the attribute store;  *)
(*   Released who holds the CHIP lock, and where a reset's event is.       *)
(*                                                                         *)
(* With Fixed, what RegisterMapProofs says of the two walks over a         *)
(* document becomes what is polled and where it is routed.                 *)
(***************************************************************************)
EXTENDS ReadingPath, RegisterMapProofs, TLAPS

-----------------------------------------------------------------------------
(* The requests for a group of registers.                                  *)

LEMMA Greatest ==
  ASSUME NEW n \in Nat, NEW T, T \subseteq 0..n, T # {}
  PROVE  \E m \in T : \A k \in T : k <= m
<1> DEFINE U == {j \in Nat : n - j \in T}
<1>1. U \subseteq Nat /\ U # {}
  <2>1. PICK k \in T : TRUE
    OBVIOUS
  <2>2. n - k \in U
    BY <2>1
  <2> QED
    BY <2>2
<1>2. PICK u \in U : \A v \in U : u <= v
  BY <1>1, Least
<1>3. PICK m \in T : u = n - m
  <2>1. n - u \in T /\ u = n - (n - u)
    BY <1>2
  <2> QED
    BY <2>1
<1>4. ASSUME NEW k \in T PROVE k <= m
  <2>1. n - k \in U
    OBVIOUS
  <2>2. n - m <= n - k
    BY <1>2, <1>3, <2>1
  <2> QED
    BY <2>2
<1> QED
  BY <1>4

LEMMA Extremes ==
  ASSUME NEW group \in Seq(Registers), group # <<>>
  PROVE  /\ Addresses(group) \subseteq 0..(AddressCount - 1)
         /\ Lowest(group) \in Addresses(group)
         /\ Max(Addresses(group)) \in Addresses(group)
         /\ \A a \in Addresses(group) : Lowest(group) <= a /\ a <= Max(Addresses(group))
<1>1. \A i \in DOMAIN group : group[i] \in Registers
  OBVIOUS
<1>2. Addresses(group) \subseteq 0..(AddressCount - 1)
  BY <1>1 DEF Addresses, Registers
<1>3. 1 \in DOMAIN group
  BY EmptySeq
<1>4. Addresses(group) # {}
  BY <1>3 DEF Addresses
<1>5. AddressCount - 1 \in Nat
  BY RegisterAssumptions DEF RegisterAssumptions
<1>6. \E m \in Addresses(group) : \A k \in Addresses(group) : m <= k
  BY <1>2, <1>4, <1>5, Least
<1>7. \E m \in Addresses(group) : \A k \in Addresses(group) : k <= m
  BY <1>2, <1>4, <1>5, Greatest
<1> QED
  BY <1>2, <1>6, <1>7 DEF Lowest, Min, Max

LEMMA ModSmall ==
  ASSUME NEW n \in Nat \ {0}, NEW k \in 0..n
  PROVE  k % n = IF k = n THEN 0 ELSE k
  OBVIOUS

\* read_group subtracts and adds in 16 bits and send_request checks the count
\* again: a group is read exactly when it spans no more than the limit, and
\* every value is then picked from inside the answer.
THEOREM GroupsFit ==
  ASSUME NEW group \in Seq(Registers), group # <<>>
  PROVE  /\ Readable(group) <=> Span(group) <= MaxRegisters
         /\ Readable(group) => \A a \in Addresses(group) : a - Lowest(group) \in 0..(Count(group) - 1)
<1> DEFINE low == Lowest(group)
           high == Max(Addresses(group))
<1>1. low \in 0..(AddressCount - 1) /\ high \in 0..(AddressCount - 1) /\ low <= high
  BY Extremes
<1>2. Span(group) \in 1..AddressCount
  BY <1>1, RegisterAssumptions DEF Span, RegisterAssumptions
<1>3. Count(group) = Span(group) % AddressCount
  BY DEF Count, Span
<1>4. Count(group) = IF Span(group) = AddressCount THEN 0 ELSE Span(group)
  BY <1>2, <1>3, ModSmall, RegisterAssumptions DEF RegisterAssumptions
<1>5. Readable(group) <=> Span(group) <= MaxRegisters
  BY <1>2, <1>4, RegisterAssumptions DEF Readable, Accepted, RegisterAssumptions
<1>6. ASSUME Readable(group), NEW a \in Addresses(group)
      PROVE  a - low \in 0..(Count(group) - 1)
  <2>1. Count(group) = high - low + 1
    BY <1>2, <1>4, <1>6 DEF Readable, Accepted, Span
  <2>2. low <= a /\ a <= high /\ a \in 0..(AddressCount - 1)
    BY Extremes
  <2> QED
    BY <1>1, <2>1, <2>2, RegisterAssumptions DEF RegisterAssumptions
<1> QED
  BY <1>5, <1>6

\* set_bat_percent_remaining doubles in a uint16 and then limits: 0 to 200.
THEOREM ChargeIsLimited ==
  ASSUME NEW raw \in Nat
  PROVE  /\ HalfPercent(raw) \in 0..200
         /\ 2 * raw < ValueCount => HalfPercent(raw) = IF raw > 100 THEN 200 ELSE 2 * raw
<1> DEFINE doubled == raw * 2
<1>1. doubled \in Nat /\ doubled = 2 * raw
  OBVIOUS
<1>2. doubled % ValueCount \in Nat
  BY <1>1, RegisterAssumptions DEF RegisterAssumptions
<1> HIDE DEF doubled
<1>3. ASSUME doubled < ValueCount PROVE doubled % ValueCount = doubled
  <2>1. ValueCount \in Nat \ {0} /\ doubled \in 0..ValueCount /\ doubled # ValueCount
    BY <1>1, <1>3, RegisterAssumptions DEF RegisterAssumptions
  <2> QED
    BY <2>1, ModSmall
<1>4. HalfPercent(raw) = IF doubled % ValueCount > 200 THEN 200 ELSE doubled % ValueCount
  BY DEF HalfPercent, doubled
<1> QED
  BY <1>1, <1>2, <1>3, <1>4

-----------------------------------------------------------------------------
(* What one poll cycle reads.                                              *)
IsReading(x, specs, input, content) ==
  /\ Readable(Group(specs, input))
  /\ \E s \in Range(specs) : s.input = input /\ x = [address |-> s.address, value |-> content[s]]

\* Every register of a readable group yields one reading with its address and
\* what it holds; an unreadable group yields none.
THEOREM ValuesFollowRegisters ==
  ASSUME NEW V, NEW specs \in Seq(Registers), NEW input \in BOOLEAN,
         NEW content, DOMAIN content = Range(specs), \A r \in Range(specs) : content[r] \in V
  PROVE  /\ Values(specs, input, content) \in Seq(Reading(V))
         /\ \A x : x \in Range(Values(specs, input, content)) <=> IsReading(x, specs, input, content)
<1> DEFINE group == Group(specs, input)
           values == Values(specs, input, content)
           answer == Answer(group, content)
<1>1. group \in Seq(Registers) /\ Range(group) = {s \in Range(specs) : s.input = input}
  BY GroupSpecs
<1>2. values = IF Readable(group) THEN Picked(group, answer) ELSE <<>>
  BY DEF Values
<1>3. CASE ~Readable(group)
  <2>1. values = <<>>
    BY <1>2, <1>3
  <2>2. values \in Seq(Reading(V)) /\ \A x : x \notin Range(values)
    BY <2>1 DEF Range
  <2> QED
    BY <1>3, <2>2 DEF IsReading
<1>4. CASE Readable(group)
  <2>1. group # <<>> /\ DOMAIN group = 1..Len(group) /\ Len(group) \in Nat /\ 1 \in DOMAIN group
    BY <1>1, <1>4, EmptySeq DEF Readable
  <2>2. ASSUME NEW i \in DOMAIN group
        PROVE  group[i] \in Registers /\ group[i] \in Range(specs) /\ group[i].input = input
    BY <1>1 DEF Range
  <2> HIDE DEF group
  <2>3. values = Picked(group, answer)
    BY <1>2, <1>4
  <2>4. DOMAIN values = DOMAIN group /\ values = [i \in DOMAIN group |-> values[i]]
    BY <2>3 DEF Picked
  <2> HIDE DEF values
  <2>5. ASSUME NEW i \in DOMAIN group
        PROVE  values[i] = [address |-> group[i].address, value |-> content[group[i]]]
    <3> DEFINE k == group[i].address - Lowest(group)
               r == [input |-> group[1].input, address |-> Lowest(group) + k]
    <3>1. group[i].address \in Addresses(group)
      BY DEF Addresses
    <3>2. k \in 0..(Count(group) - 1)
      BY <1>1, <1>4, <2>1, <3>1, GroupsFit
    <3>3. Lowest(group) \in Int /\ group[i].address \in Int
      BY <1>1, <2>1, <3>1, Extremes, RegisterAssumptions DEF RegisterAssumptions
    <3>4. Lowest(group) + k = group[i].address
      BY <3>3
    <3>5. r = group[i]
      <4>1. group[1].input = group[i].input
        BY <2>1, <2>2
      <4>2. group[i] = [input |-> group[i].input, address |-> group[i].address]
        BY <2>2 DEF Registers
      <4> QED
        BY <3>4, <4>1, <4>2
    <3>6. answer[k] = IF r \in DOMAIN content THEN content[r] ELSE 0
      BY <3>2 DEF Answer
    <3>7. answer[k] = content[group[i]]
      BY <2>2, <3>5, <3>6
    <3> HIDE DEF answer
    <3> QED
      BY <2>3, <3>7 DEF Picked
  <2>6. values \in Seq(Reading(V))
    <3>1. ASSUME NEW i \in DOMAIN group PROVE values[i] \in Reading(V)
      <4>1. group[i].address \in 0..(AddressCount - 1)
        BY <2>2 DEF Registers
      <4>2. content[group[i]] \in V
        BY <2>2
      <4>3. \A a \in 0..(AddressCount - 1), v \in V : [address |-> a, value |-> v] \in Reading(V)
        BY DEF Reading
      <4> QED
        BY <2>5, <4>1, <4>2, <4>3
    <3>2. values \in [1..Len(group) -> Reading(V)]
      BY <2>1, <2>4, <3>1
    <3> QED
      BY <2>1, <3>2
  <2>7. ASSUME NEW x
        PROVE  x \in Range(values) <=>
                 \E s \in Range(specs) : s.input = input /\ x = [address |-> s.address, value |-> content[s]]
    <3>1. x \in Range(values) <=> \E i \in DOMAIN group : x = [address |-> group[i].address, value |-> content[group[i]]]
      BY <2>4, <2>5 DEF Range
    <3>2. \A s : s \in Range(group) <=> \E i \in DOMAIN group : s = group[i]
      BY DEF Range
    <3> QED
      BY <1>1, <3>1, <3>2 DEF group
  <2> QED
    BY <1>4, <2>6, <2>7 DEF group, values, IsReading
<1> QED
  BY <1>3, <1>4

-----------------------------------------------------------------------------
(* A callback and the list of devices.                                     *)

Guarded ==
  /\ matter \in {"listed", "freed", "cleared"}
  /\ matter = "freed" <=> web = "erasing"
  /\ InCallback /\ web = "erasing" => raced
  /\ InCallback /\ ~raced => matter = "listed" /\ iter
  /\ dangling => raced

LEMMA GuardedNext == Guarded /\ [Next]_vars => Guarded'
<1> SUFFICES ASSUME Guarded, [Next]_vars PROVE Guarded'
  OBVIOUS
<1> USE DEF Guarded, InCallback, device, poll, chip, http, history
<1>1. CASE UNCHANGED vars
  BY <1>1 DEF vars
<1> SUFFICES ASSUME Next PROVE Guarded'
  BY <1>1
<1>0. ~dangling
  BY DEF Next, Up
<1>2. ASSUME NEW r \in DOMAIN regs, NEW v \in Readouts, Measure(r, v) PROVE Guarded'
  BY <1>2 DEF Measure
<1>3. CASE Settle
  BY <1>3 DEF Settle
<1>4. CASE ReadInput
  BY <1>4 DEF ReadInput
<1>5. CASE ReadHolding
  BY <1>5 DEF ReadHolding
<1>6. CASE Find
  <2>1. UNCHANGED <<matter, web, dangling>>
    BY <1>6 DEF Find
  <2>2. CASE readings = <<>> \/ matter = "cleared"
    BY <1>0, <1>6, <2>1, <2>2 DEF Find, Restarted
  <2>3. CASE ~(readings = <<>> \/ matter = "cleared")
    <3>1. pc' = "apply" /\ iter' = TRUE
      BY <1>6, <2>3 DEF Find
    <3>2. raced' <=> web = "erasing"
      BY <1>6, <2>3, Zenon DEF Find
    <3> QED
      BY <1>0, <2>1, <2>3, <3>1, <3>2
  <2> QED
    BY <2>2, <2>3
<1>7. CASE UseAfterFree
  BY <1>7 DEF UseAfterFree, Gone
<1>8. CASE CallbackDone
  BY <1>0, <1>8 DEF CallbackDone, Restarted, Gone
<1>9. CASE Skip
  BY <1>9 DEF Skip
<1>10. CASE Write
  BY <1>10 DEF Write
<1>11. CASE WriteRest
  BY <1>11 DEF WriteRest
<1>12. CASE Post
  BY <1>12 DEF Post
<1>13. CASE UpdateAttribute
  BY <1>13 DEF UpdateAttribute
<1>14. CASE TakeLock
  BY <1>14 DEF TakeLock
<1>15. CASE ChipEvent
  BY <1>15 DEF ChipEvent
<1>16. ASSUME NEW c \in dirty, Report(c) PROVE Guarded'
  BY <1>16 DEF Report
<1>17. CASE Register \/ Created \/ ResetLock
  BY <1>17 DEF Register, Created, ResetLock
<1>18. CASE List
  BY <1>18 DEF List
<1>19. CASE RollBack \/ ResetKill
  BY <1>19 DEF RollBack, ResetKill, KillPoll
<1>20. CASE ResetFree
  BY <1>20 DEF ResetFree
<1>21. CASE ResetErase
  BY <1>21 DEF ResetErase
<1>22. CASE ResetPost
  BY <1>22 DEF ResetPost
<1> QED
  BY <1>2, <1>3, <1>4, <1>5, <1>6, <1>7, <1>8, <1>9, <1>10, <1>11, <1>12, <1>13,
     <1>14, <1>15, <1>16, <1>17, <1>18, <1>19, <1>20, <1>21, <1>22
     DEF Next, PollStep, HttpStep

\* MatterManager keeps its devices without a lock of its own: what the poll
\* task uses is there unless the list changed in the middle of a callback.
THEOREM DevicesOutliveCallbacks == Spec => []NoUseAfterFree
<1>1. Init => Guarded
  BY DEF Init, Guarded, InCallback
<1>2. Guarded => NoUseAfterFree
  BY DEF Guarded, NoUseAfterFree
<1> QED
  BY <1>1, <1>2, GuardedNext, PTL DEF Spec

-----------------------------------------------------------------------------
(* The charge of a battery, in m_bat_percent and in the attribute store.   *)

IsCharge(c) == c[2] = "BatPercentRemaining" /\ Published(doc, c)

Mirror ==
  /\ DOMAIN value = DeviceCells /\ DOMAIN attr = DeviceCells
  /\ pc \in {"half", "post"} => Cell[2] \in Measurements
  /\ pc \in {"lock", "update"} /\ Cell \in DeviceCells => value[Cell] = New
  /\ matter = "listed" /\ pc \notin {"dead", "crashed"} =>
       \A c \in DeviceCells : IsCharge(c) =>
         \/ attr[c] = value[c]
         \/ pc \in {"lock", "update"} /\ c = Cell

LEMMA MirrorNext == Mirror /\ [Next]_vars => Mirror'
<1> SUFFICES ASSUME Mirror, [Next]_vars PROVE Mirror'
  OBVIOUS
<1> USE DEF Mirror, IsCharge, DeviceCells, Cell, New, device, poll, chip, http, history
<1>0. "BatPercentRemaining" \notin Measurements
  BY DEF Measurements
<1>1. CASE UNCHANGED vars
  BY <1>1 DEF vars
<1>2. ASSUME NEW r \in DOMAIN regs, NEW v \in Readouts, Measure(r, v) PROVE Mirror'
  BY <1>2 DEF Measure
<1>3. CASE Settle
  BY <1>3 DEF Settle
<1>4. CASE ReadInput
  BY <1>4 DEF ReadInput
<1>5. CASE ReadHolding
  BY <1>5 DEF ReadHolding
<1>6. CASE Find
  BY <1>6 DEF Find, Restarted
<1>7. CASE UseAfterFree
  BY <1>7 DEF UseAfterFree
<1>8. CASE CallbackDone
  BY <1>8 DEF CallbackDone, Restarted
<1>9. CASE Skip
  BY <1>9 DEF Skip
<1>10. CASE Write
  BY <1>0, <1>10 DEF Write
<1>11. CASE WriteRest
  BY <1>0, <1>11 DEF WriteRest
<1>12. CASE Post
  BY <1>12 DEF Post
<1>13. CASE UpdateAttribute
  <2>1. /\ pc = "update" /\ pc' = "apply"
        /\ UNCHANGED <<device, value, matter>>
        /\ IF Published(doc, Cell) /\ matter = "listed"
           THEN attr' = [attr EXCEPT ![Cell] = New] ELSE UNCHANGED attr
    BY <1>13 DEF UpdateAttribute
  <2>2. DOMAIN attr' = DeviceCells
    BY <2>1
  <2>3. ASSUME matter = "listed", NEW c \in DeviceCells, IsCharge(c) PROVE attr'[c] = value[c]
    BY <2>1, <2>3
  <2> QED
    BY <2>1, <2>2, <2>3
<1>14. CASE TakeLock
  BY <1>14 DEF TakeLock
<1>15. CASE ChipEvent
  BY <1>15 DEF ChipEvent
<1>16. ASSUME NEW c \in dirty, Report(c) PROVE Mirror'
  BY <1>16 DEF Report
<1>17. CASE Register \/ Created \/ ResetLock
  BY <1>17 DEF Register, Created, ResetLock
<1>18. CASE List
  BY <1>18 DEF List
<1>19. CASE RollBack \/ ResetKill
  BY <1>19 DEF RollBack, ResetKill, KillPoll
<1>20. CASE ResetFree
  BY <1>20 DEF ResetFree
<1>21. CASE ResetErase
  BY <1>21 DEF ResetErase
<1>22. CASE ResetPost
  BY <1>22 DEF ResetPost
<1> QED
  BY <1>1, <1>2, <1>3, <1>4, <1>5, <1>6, <1>7, <1>8, <1>9, <1>10, <1>11, <1>12, <1>13,
     <1>14, <1>15, <1>16, <1>17, <1>18, <1>19, <1>20, <1>21, <1>22
     DEF Next, PollStep, HttpStep

\* Between callbacks m_bat_percent is what the attribute store has, however
\* the lock, the CHIP task and other requests came in between.
THEOREM StoreStaysInStep == Spec => []StoreAgrees
<1>1. Init => Mirror
  BY DEF Init, Mirror, IsCharge
<1>2. Mirror => StoreAgrees
  BY DEF Mirror, StoreAgrees, IsCharge
<1> QED
  BY <1>1, <1>2, MirrorNext, PTL DEF Spec

-----------------------------------------------------------------------------
(* Types, and the attributes' values.                                      *)

Fixed ==
  /\ doc \in Documents
  /\ m_regs = RegisterSpecs(doc)
  /\ routes = AllMappings(doc)

Raws == 0..(ValueCount - 1)
Jobs == [cell : DeviceCells, raw : Raws]

Typed ==
  /\ TypeOK
  /\ readings \in Seq(Reading(Raws))
  /\ todo \in Seq(Jobs)
  /\ pc \in {"half", "post", "lock", "update"} => todo # <<>>
  /\ pc \in {"lock", "update"} => Cell[2] \notin Measurements
  /\ \A c \in DeviceCells : attr[c] # Null => attr[c] \in 0..200

LEMMA FixedDocument ==
  ASSUME Fixed
  PROVE  doc \in Document /\ m_regs \in Seq(Registers) /\ routes \in Seq(Route)
<1>1. doc \in Document
  BY PathAssumptions DEF Fixed, PathAssumptions
<1> QED
  BY <1>1, SpecsFollowDocument, MappingsFollowDocument DEF Fixed

LEMMA CellsTaken == \A c \in DeviceCells : c[2] \in Attributes
  BY DEF DeviceCells, Cells, Takes, Attributes

LEMMA NextJob ==
  ASSUME todo \in Seq(Jobs), todo # <<>>
  PROVE  Cell \in DeviceCells /\ Head(todo).raw \in Raws /\ Tail(todo) \in Seq(Jobs)
<1>1. Head(todo) \in Jobs /\ Tail(todo) \in Seq(Jobs)
  BY HeadTailProperties
<1> QED
  BY <1>1 DEF Jobs, Cell

\* A callback updates only cells of this device, with 16-bit values.
LEMMA UpdatesAreJobs ==
  ASSUME Fixed, readings \in Seq(Reading(Raws))
  PROVE  Updates(doc, routes, readings) \in Seq(Jobs)
<1> DEFINE us == Updates(doc, routes, readings)
<1>1. routes \in Seq(Route)
  BY FixedDocument
<1>2. /\ us \in Seq(Update(Raws))
      /\ \A u : u \in Range(us) <=> IsUpdate(u, doc, routes, readings)
  BY <1>1, UpdatesFollowReadings
<1> HIDE DEF us
<1>4. Len(us) \in Nat /\ DOMAIN us = 1..Len(us) /\ us \in [1..Len(us) -> Update(Raws)]
  BY <1>2
<1>5. ASSUME NEW i \in 1..Len(us) PROVE us[i] \in Jobs
  <2>1. us[i] \in Update(Raws) /\ us[i] \in Range(us)
    BY <1>4 DEF Range
  <2>2. PICK m \in Range(routes), r \in Range(readings) :
          Hits(doc, m, r) /\ us[i] = [cell |-> m.cell, raw |-> r.value]
    BY <1>2, <2>1 DEF IsUpdate
  <2>3. m.cell \in DeviceCells
    BY <2>2 DEF DeviceCells, Cells, Hits, Range
  <2>4. us[i].cell = m.cell
    BY <2>2
  <2> QED
    BY <2>1, <2>3, <2>4 DEF Update, Jobs
<1>6. us \in [1..Len(us) -> Jobs]
  BY <1>4, <1>5
<1> QED
  BY <1>4, <1>6 DEF us

LEMMA ReadTypes ==
  ASSUME Fixed, TypeOK, readings \in Seq(Reading(Raws)), NEW input \in BOOLEAN, Read(input)
  PROVE  readings' \in Seq(Reading(Raws))
<1> DEFINE values == Values(m_regs, input, regs)
<1>1. m_regs \in Seq(Registers) /\ regs \in [Range(m_regs) -> Readouts]
  BY FixedDocument DEF TypeOK
<1>2. DOMAIN regs = Range(m_regs) /\ \A r \in Range(m_regs) : regs[r] \in Raws
  BY <1>1, PathAssumptions DEF PathAssumptions, Raws
<1>3. values \in Seq(Reading(Raws))
  BY <1>1, <1>2, ValuesFollowRegisters
<1>4. readings' = readings \o values \/ readings' = readings
  BY DEF Read
<1> QED
  BY <1>3, <1>4, ConcatProperties

LEMMA ChargeOfJob ==
  ASSUME Typed, pc = "update"
  PROVE  Cell \in DeviceCells /\ New \in 0..200
<1>1. Cell \in DeviceCells /\ Head(todo).raw \in Raws /\ Cell[2] \notin Measurements
  BY NextJob DEF Typed
<1>2. Cell[2] = "BatPercentRemaining"
  BY <1>1, CellsTaken DEF Attributes
<1>3. Head(todo).raw \in Nat
  BY <1>1, RegisterAssumptions DEF Raws, RegisterAssumptions
<1>4. New = HalfPercent(Head(todo).raw)
  BY <1>2 DEF New, Scaled
<1> QED
  BY <1>1, <1>3, <1>4, ChargeIsLimited

LEMMA PostedTypes ==
  ASSUME TypeOK, NEW event \in DeviceCells \cup {Reset}, Posted(event)
  PROVE  /\ queue' \in Seq(DeviceCells \cup {Reset}) /\ Len(queue') <= QueueSize
         /\ lost' \subseteq DeviceCells \cup {Reset}
<1>1. queue \in Seq(DeviceCells \cup {Reset}) /\ Len(queue) \in Nat /\ Len(queue) <= QueueSize
  BY DEF TypeOK
<1>2. CASE Len(queue) < QueueSize
  <2>1. queue' = Append(queue, event) /\ lost' = lost \ {event}
    BY <1>2 DEF Posted
  <2>2. queue' \in Seq(DeviceCells \cup {Reset}) /\ Len(queue') = Len(queue) + 1
    BY <1>1, <2>1, AppendProperties
  <2> QED
    BY <1>1, <1>2, <2>1, <2>2, PathAssumptions DEF TypeOK, PathAssumptions
<1>3. CASE ~(Len(queue) < QueueSize)
  BY <1>1, <1>3 DEF Posted, TypeOK
<1> QED
  BY <1>2, <1>3

LEMMA FixedNext == Fixed /\ [Next]_vars => Fixed'
<1>1. ASSUME Fixed, [Next]_vars PROVE UNCHANGED device
  BY <1>1 DEF vars, Next, PollStep, HttpStep, Measure, Settle, ReadInput, ReadHolding, Find,
     UseAfterFree, CallbackDone, Skip, Write, WriteRest, Post, TakeLock, UpdateAttribute, ChipEvent,
     Report, Register, Created, List, RollBack, ResetLock, ResetFree, ResetErase, ResetKill, ResetPost
<1> QED
  BY <1>1 DEF Fixed, device

LEMMA TypedNext == Fixed /\ Typed /\ [Next]_vars => Typed'
<1> SUFFICES ASSUME Fixed, Typed, [Next]_vars PROVE Typed'
  OBVIOUS
<1>0. UNCHANGED device
  BY DEF vars, Next, PollStep, HttpStep, Measure, Settle, ReadInput, ReadHolding, Find,
     UseAfterFree, CallbackDone, Skip, Write, WriteRest, Post, TakeLock, UpdateAttribute, ChipEvent,
     Report, Register, Created, List, RollBack, ResetLock, ResetFree, ResetErase, ResetKill, ResetPost
<1>a. DeviceCells' = DeviceCells /\ m_regs' = m_regs
  BY <1>0 DEF DeviceCells, device
<1>b. Jobs' = Jobs
  BY <1>a DEF Jobs
<1>c. todo # <<>> => Cell \in DeviceCells /\ Tail(todo) \in Seq(Jobs)
  BY NextJob DEF Typed
<1>d. ASSUME todo' \in Seq(Jobs) PROVE todo' # <<>> => Cell' \in DeviceCells
  <2>1. todo' # <<>> => Head(todo') \in Jobs
    BY <1>d, HeadTailProperties
  <2> QED
    BY <2>1 DEF Jobs, Cell
<1>e. <<>> \in Seq(Jobs) /\ <<>> \in Seq(Reading(Raws))
  OBVIOUS
<1> USE DEF Typed, TypeOK, Cycle, poll, chip, http, history
<1>1. CASE UNCHANGED vars
  BY <1>1, <1>a, <1>b, <1>d DEF vars, Cell
<1>2. ASSUME NEW r \in DOMAIN regs, NEW v \in Readouts, Measure(r, v) PROVE Typed'
  BY <1>2, <1>a, <1>b, <1>d DEF Measure, Cell
<1>3. CASE Settle
  BY <1>3, <1>a, <1>b, <1>d DEF Settle, Cell
<1>4. CASE ReadInput
  <2>1. readings' \in Seq(Reading(Raws))
    BY <1>4, ReadTypes DEF ReadInput
  <2> QED
    BY <1>4, <1>a, <1>b, <1>d, <2>1 DEF ReadInput, Cell
<1>5. CASE ReadHolding
  <2>1. readings' \in Seq(Reading(Raws))
    BY <1>5, ReadTypes DEF ReadHolding
  <2> QED
    BY <1>5, <1>a, <1>b, <1>d, <2>1 DEF ReadHolding, Cell
<1>6. CASE Find
  <2>1. CASE readings = <<>> \/ matter = "cleared"
    <3>1. /\ pc' = "input" /\ readings' = <<>> /\ todo' = <<>> /\ iter' = FALSE /\ raced' = FALSE
          /\ UNCHANGED <<regs, calm, lock, value, attr, chip, http, rebooting, lost, dangling, orphaned>>
      BY <1>6, <2>1 DEF Find, Restarted
    <3> QED
      BY <1>a, <1>b, <1>e, <3>1, ZenonT(60)
  <2>2. CASE ~(readings = <<>> \/ matter = "cleared")
    <3>1. todo' \in Seq(Jobs)
      BY <1>6, <2>2, UpdatesAreJobs DEF Find
    <3>2. raced' \in BOOLEAN /\ iter' \in BOOLEAN /\ pc' = "apply" /\ UNCHANGED readings
      BY <1>6, <2>2 DEF Find
    <3>3. UNCHANGED <<regs, calm, lock, value, attr, chip, http, rebooting, lost, dangling, orphaned>>
      BY <1>6 DEF Find
    <3> QED
      BY <1>a, <1>b, <1>d, <3>1, <3>2, <3>3
  <2> QED
    BY <2>1, <2>2
<1>7. CASE UseAfterFree
  BY <1>7, <1>a, <1>b, <1>d DEF UseAfterFree, Cell
<1>8. CASE CallbackDone
  BY <1>8, <1>a, <1>b, <1>d, <1>e, ZenonT(60) DEF CallbackDone, Restarted, Cell
<1>9. CASE Skip
  BY <1>9, <1>a, <1>b, <1>c, <1>d DEF Skip
<1>10. CASE Write
  BY <1>10, <1>a, <1>b, <1>c, <1>d DEF Write, Cell
<1>11. CASE WriteRest
  BY <1>11, <1>a, <1>b, <1>c, <1>d DEF WriteRest, Cell
<1>12. CASE Post
  <2>1. /\ todo # <<>> /\ todo' = Tail(todo) /\ pc' = "apply" /\ Posted(Cell)
        /\ UNCHANGED <<regs, calm, readings, iter, lock, value, attr, dirty, seen, http,
                       rebooting, raced, dangling, orphaned>>
    BY <1>12 DEF Post
  <2>2. /\ queue' \in Seq(DeviceCells \cup {Reset}) /\ Len(queue') <= QueueSize
        /\ lost' \subseteq DeviceCells \cup {Reset}
    BY <1>c, <2>1, PostedTypes
  <2> QED
    BY <1>a, <1>b, <1>c, <1>d, <2>1, <2>2
<1>13. CASE UpdateAttribute
  <2>1. /\ pc = "update" /\ todo' = Tail(todo) /\ pc' = "apply" /\ lock' = "free"
        /\ UNCHANGED <<regs, calm, readings, iter, value, queue, seen, http, rebooting, history>>
    BY <1>13 DEF UpdateAttribute
  <2>2. Cell \in DeviceCells /\ New \in 0..200
    BY <2>1, ChargeOfJob
  <2>3. \/ attr' = [attr EXCEPT ![Cell] = New] /\ dirty' = dirty \cup {Cell}
        \/ UNCHANGED <<attr, dirty>>
    BY <1>13 DEF UpdateAttribute
  <2>4. dirty' \subseteq DeviceCells /\ DOMAIN attr' = DeviceCells
    BY <2>2, <2>3
  <2>5. ASSUME NEW c \in DeviceCells, attr'[c] # Null PROVE attr'[c] \in 0..200
    BY <2>2, <2>3, <2>5, ZenonT(60)
  <2> QED
    BY <1>a, <1>b, <1>c, <1>d, <2>1, <2>4, <2>5
<1>14. CASE TakeLock
  BY <1>14, <1>a, <1>b, <1>d DEF TakeLock, Cell
<1>15. CASE ChipEvent
  <2>1. /\ queue # <<>> /\ queue' = Tail(queue)
        /\ dirty' = IF Head(queue) = Reset THEN dirty ELSE dirty \cup {Head(queue)}
        /\ UNCHANGED <<regs, calm, poll, lock, value, attr, seen, http, history>>
    BY <1>15 DEF ChipEvent
  <2>2. rebooting' \in BOOLEAN
    BY <1>15, Zenon DEF ChipEvent
  <2>3. Head(queue) \in DeviceCells \cup {Reset} /\ queue' \in Seq(DeviceCells \cup {Reset})
        /\ Len(queue') <= QueueSize
    <3>1. queue \in Seq(DeviceCells \cup {Reset}) /\ Len(queue) \in Nat /\ Len(queue) <= QueueSize
      OBVIOUS
    <3>2. /\ Head(queue) \in DeviceCells \cup {Reset} /\ Tail(queue) \in Seq(DeviceCells \cup {Reset})
          /\ Len(Tail(queue)) = Len(queue) - 1
      BY <2>1, <3>1, HeadTailProperties
    <3> QED
      BY <2>1, <3>1, <3>2, PathAssumptions DEF PathAssumptions
  <2>4. dirty' \subseteq DeviceCells
    BY <2>1, <2>3
  <2> QED
    BY <1>a, <1>b, <1>d, <2>1, <2>2, <2>3, <2>4 DEF Cell
<1>16. ASSUME NEW c \in dirty, Report(c) PROVE Typed'
  BY <1>16, <1>a, <1>b, <1>d DEF Report, Cell
<1>17. CASE Register \/ Created \/ ResetLock
  <2>1. /\ web' \in {"creating", "listing", "freeing"} /\ lock' \in {"free", "http"}
        /\ UNCHANGED <<regs, calm, poll, value, attr, chip, matter, rebooting, lost, raced, dangling, orphaned>>
    BY <1>17 DEF Register, Created, ResetLock
  <2>2. requests' \in 0..MaxRequests
    BY <1>17, PathAssumptions DEF Register, Created, ResetLock, PathAssumptions
  <2> QED
    BY <1>a, <1>b, <1>d, <2>1, <2>2 DEF Cell
<1>18. CASE List
  <2>1. /\ web' = "idle" /\ iter' \in BOOLEAN
        /\ UNCHANGED <<regs, calm, pc, readings, todo, lock, value, attr, chip, requests, matter,
                       rebooting, lost, dangling, orphaned>>
    BY <1>18 DEF List
  <2>2. raced' \in BOOLEAN
    BY <1>18, Zenon DEF List
  <2> QED
    BY <1>a, <1>b, <1>d, <2>1, <2>2 DEF Cell
<1>19. CASE RollBack \/ ResetKill
  <2>1. /\ web' \in {"idle", "posting"} /\ pc' \in {"crashed", "dead"}
        /\ UNCHANGED <<regs, calm, readings, todo, iter, lock, value, attr, chip, requests, matter,
                       rebooting, lost, raced, dangling>>
    BY <1>19 DEF RollBack, ResetKill, KillPoll
  <2>2. orphaned' \in BOOLEAN
    BY <1>19, Zenon DEF RollBack, ResetKill, KillPoll
  <2> QED
    BY <1>a, <1>b, <1>d, <2>1, <2>2 DEF Cell
<1>20. CASE ResetFree
  <2>1. /\ web' = "erasing" /\ matter' = "freed" /\ lock' = "free"
        /\ UNCHANGED <<regs, calm, poll, value, attr, chip, requests, rebooting, lost, dangling, orphaned>>
    BY <1>20 DEF ResetFree
  <2>2. raced' \in BOOLEAN
    BY <1>20, Zenon DEF ResetFree
  <2> QED
    BY <1>a, <1>b, <1>d, <2>1, <2>2 DEF Cell
<1>21. CASE ResetErase
  <2>1. /\ web' = "killing" /\ matter' = "cleared" /\ iter' \in BOOLEAN
        /\ UNCHANGED <<regs, calm, pc, readings, todo, lock, value, attr, chip, requests, rebooting,
                       lost, dangling, orphaned>>
    BY <1>21 DEF ResetErase
  <2>2. raced' \in BOOLEAN
    BY <1>21, Zenon DEF ResetErase
  <2> QED
    BY <1>a, <1>b, <1>d, <2>1, <2>2 DEF Cell
<1>22. CASE ResetPost
  <2>1. /\ web' = "done" /\ Posted(Reset)
        /\ UNCHANGED <<regs, calm, poll, lock, value, attr, dirty, seen, requests, matter,
                       rebooting, raced, dangling, orphaned>>
    BY <1>22 DEF ResetPost
  <2>2. /\ queue' \in Seq(DeviceCells \cup {Reset}) /\ Len(queue') <= QueueSize
        /\ lost' \subseteq DeviceCells \cup {Reset}
    BY <2>1, PostedTypes
  <2> QED
    BY <1>a, <1>b, <1>d, <2>1, <2>2 DEF Cell
<1> QED
  BY <1>1, <1>2, <1>3, <1>4, <1>5, <1>6, <1>7, <1>8, <1>9, <1>10, <1>11, <1>12, <1>13,
     <1>14, <1>15, <1>16, <1>17, <1>18, <1>19, <1>20, <1>21, <1>22
     DEF Next, PollStep, HttpStep

-----------------------------------------------------------------------------
(* The two walks over the document.                                        *)

LEMMA SpecsOfDocument ==
  ASSUME Fixed
  PROVE  /\ m_regs \in Seq(Registers)
         /\ \A s : s \in Range(m_regs) <=> \E m \in Mapped : m.function # None /\ s = SpecOf(m)
         /\ IsInjective(m_regs)
<1>1. doc \in Document /\ m_regs = RegisterSpecs(doc)
  BY FixedDocument DEF Fixed
<1>2. \A m : m \in Mapped <=> \E node \in Range(Walked(doc)) : m \in Range(node.mappings)
  BY DEF Mapped, Nodes
<1> QED
  BY <1>1, <1>2, SpecsFollowDocument

LEMMA RequestsFitGroups == Fixed => RequestsFit
<1> SUFFICES ASSUME Fixed, NEW input \in BOOLEAN, Group(m_regs, input) # <<>>
             PROVE  /\ Readable(Group(m_regs, input)) <=> Span(Group(m_regs, input)) <= MaxRegisters
                    /\ Readable(Group(m_regs, input)) =>
                         \A a \in Addresses(Group(m_regs, input)) :
                           a - Lowest(Group(m_regs, input)) < Count(Group(m_regs, input))
  BY DEF RequestsFit
<1> DEFINE group == Group(m_regs, input)
<1>1. group \in Seq(Registers)
  BY SpecsOfDocument, GroupSpecs
<1> HIDE DEF group
<1>2. /\ Readable(group) <=> Span(group) <= MaxRegisters
      /\ Readable(group) => \A a \in Addresses(group) : a - Lowest(group) \in 0..(Count(group) - 1)
  BY <1>1, GroupsFit DEF group
<1>3. Addresses(group) \subseteq 0..(AddressCount - 1) /\ Lowest(group) \in 0..(AddressCount - 1)
      /\ Max(Addresses(group)) \in 0..(AddressCount - 1)
  BY <1>1, Extremes DEF group
<1>4. Count(group) \in Int
  BY <1>3, RegisterAssumptions DEF Count, RegisterAssumptions
<1> QED
  BY <1>2, <1>3, <1>4, RegisterAssumptions DEF group, RegisterAssumptions

\* A cycle in which every register holds its own name reads, of every readable
\* group, every register.
Named == [r \in Range(m_regs) |-> r]
NamedReadings == Values(m_regs, TRUE, Named) \o Values(m_regs, FALSE, Named)

LEMMA NamedCycle ==
  ASSUME Fixed
  PROVE  /\ NamedReadings \in Seq(Reading(Registers))
         /\ \A x : x \in Range(NamedReadings) <=>
                     \E s \in Range(m_regs) :
                       Readable(Group(m_regs, s.input)) /\ x = [address |-> s.address, value |-> s]
<1> DEFINE inputs == Values(m_regs, TRUE, Named)
           holdings == Values(m_regs, FALSE, Named)
<1>1. m_regs \in Seq(Registers) /\ \A s \in Range(m_regs) : s \in Registers
  BY SpecsOfDocument DEF Range
<1>2. DOMAIN Named = Range(m_regs) /\ \A s \in Range(m_regs) : Named[s] = s /\ Named[s] \in Registers
  BY <1>1 DEF Named
<1> HIDE DEF Named
<1>3. ASSUME NEW input \in BOOLEAN
      PROVE  /\ Values(m_regs, input, Named) \in Seq(Reading(Registers))
             /\ \A x : x \in Range(Values(m_regs, input, Named)) <=> IsReading(x, m_regs, input, Named)
  BY <1>1, <1>2, ValuesFollowRegisters
<1>4. inputs \in Seq(Reading(Registers)) /\ holdings \in Seq(Reading(Registers))
  BY <1>3
<1>5. \A x : x \in Range(inputs) <=> IsReading(x, m_regs, TRUE, Named)
  BY <1>3
<1>6. \A x : x \in Range(holdings) <=> IsReading(x, m_regs, FALSE, Named)
  BY <1>3
<1>7. NamedReadings = inputs \o holdings
  BY DEF NamedReadings
<1> HIDE DEF inputs, holdings
<1>8. NamedReadings \in Seq(Reading(Registers)) /\ Range(NamedReadings) = Range(inputs) \cup Range(holdings)
  BY <1>4, <1>7, ConcatProperties, RangeConcatenation
<1>9. ASSUME NEW x
      PROVE  x \in Range(NamedReadings) <=>
               \E s \in Range(m_regs) :
                 Readable(Group(m_regs, s.input)) /\ x = [address |-> s.address, value |-> s]
  <2>1. x \in Range(NamedReadings) <=> IsReading(x, m_regs, TRUE, Named) \/ IsReading(x, m_regs, FALSE, Named)
    BY <1>5, <1>6, <1>8
  <2>2. \A s \in Range(m_regs) : s.input \in BOOLEAN /\ Named[s] = s
    BY <1>1, <1>2 DEF Registers
  <2>3. ASSUME NEW s \in Range(m_regs), Readable(Group(m_regs, s.input)),
               x = [address |-> s.address, value |-> s]
        PROVE  x \in Range(NamedReadings)
    <3>1. CASE s.input = TRUE
      BY <2>1, <2>2, <2>3, <3>1 DEF IsReading
    <3>2. CASE s.input = FALSE
      BY <2>1, <2>2, <2>3, <3>2 DEF IsReading
    <3> QED
      BY <2>2, <3>1, <3>2
  <2>4. ASSUME NEW input \in BOOLEAN, IsReading(x, m_regs, input, Named)
        PROVE  \E s \in Range(m_regs) :
                 Readable(Group(m_regs, s.input)) /\ x = [address |-> s.address, value |-> s]
    BY <2>2, <2>4 DEF IsReading
  <2> QED
    BY <2>1, <2>3, <2>4
<1> QED
  BY <1>8, <1>9

Carries(i, m) == [cell |-> <<i, m.attribute>>, raw |-> SpecOf(m)]

\* What a cycle feeds, and what the document intends, element by element.
LEMMA FeedsElements ==
  ASSUME Fixed, doc # <<>>
  PROVE  \A u : u \in Feeds <=>
           \E i \in DOMAIN WithParts(doc[1]) : \E m \in Range(WithParts(doc[1])[i].mappings) :
           \E s \in Range(m_regs) :
             /\ m.address = s.address
             /\ Takes(Wrapper(doc, i), m.attribute)
             /\ Readable(Group(m_regs, s.input))
             /\ u = [cell |-> <<i, m.attribute>>, raw |-> s]
<1>1. /\ NamedReadings \in Seq(Reading(Registers))
      /\ \A x : x \in Range(NamedReadings) <=>
                  \E s \in Range(m_regs) :
                    Readable(Group(m_regs, s.input)) /\ x = [address |-> s.address, value |-> s]
  BY NamedCycle
<1>2. Feeds = Range(Updates(doc, routes, NamedReadings))
  BY Zenon DEF Feeds, Named, NamedReadings
<1>3. routes \in Seq(Route) /\ routes = AllMappings(doc) /\ doc \in Document
  BY FixedDocument DEF Fixed
<1>4. \A u : u \in Feeds <=> IsUpdate(u, doc, routes, NamedReadings)
  BY <1>1, <1>2, <1>3, UpdatesFollowReadings
<1> DEFINE nodes == WithParts(doc[1])
<1>5. \A x : x \in Range(routes) <=>
               \E i \in DOMAIN nodes : \E m \in Range(nodes[i].mappings) : x = RouteOf(i, m)
  BY <1>3, MappingsFollowDocument
<1>6. \A i, m : RouteOf(i, m).address = m.address /\ RouteOf(i, m).cell = <<i, m.attribute>>
  BY DEF RouteOf
<1>7. \A i, m : <<i, m.attribute>>[1] = i /\ <<i, m.attribute>>[2] = m.attribute
  OBVIOUS
<1> HIDE DEF nodes
<1>8. ASSUME NEW u, u \in Feeds
      PROVE  \E i \in DOMAIN nodes : \E m \in Range(nodes[i].mappings) : \E s \in Range(m_regs) :
               /\ m.address = s.address
               /\ Takes(Wrapper(doc, i), m.attribute)
               /\ Readable(Group(m_regs, s.input))
               /\ u = [cell |-> <<i, m.attribute>>, raw |-> s]
  <2>1. PICK x \in Range(routes), r \in Range(NamedReadings) :
          Hits(doc, x, r) /\ u = [cell |-> x.cell, raw |-> r.value]
    BY <1>4, <1>8 DEF IsUpdate
  <2>2. PICK i \in DOMAIN nodes : \E m \in Range(nodes[i].mappings) : x = RouteOf(i, m)
    BY <1>5
  <2>6. PICK m \in Range(nodes[i].mappings) : x = RouteOf(i, m)
    BY <2>2
  <2>3. PICK s \in Range(m_regs) : Readable(Group(m_regs, s.input)) /\ r = [address |-> s.address, value |-> s]
    BY <1>1
  <2>4. m.address = s.address /\ Takes(Wrapper(doc, i), m.attribute)
    <3>1. x.address = r.address /\ Takes(Wrapper(doc, x.cell[1]), x.cell[2])
      BY <2>1 DEF Hits
    <3>2. x.address = m.address /\ x.cell[1] = i /\ x.cell[2] = m.attribute
      BY <1>6, <1>7, <2>6
    <3>3. r.address = s.address
      BY <2>3
    <3> QED
      BY <3>1, <3>2, <3>3
  <2>5. u = [cell |-> <<i, m.attribute>>, raw |-> s]
    BY <1>6, <2>1, <2>6, <2>3
  <2> QED
    BY <2>3, <2>4, <2>5
<1>9. ASSUME NEW u, NEW i \in DOMAIN nodes, NEW m \in Range(nodes[i].mappings), NEW s \in Range(m_regs),
             m.address = s.address, Takes(Wrapper(doc, i), m.attribute),
             Readable(Group(m_regs, s.input)), u = [cell |-> <<i, m.attribute>>, raw |-> s]
      PROVE  u \in Feeds
  <2> DEFINE x == RouteOf(i, m)
             r == [address |-> s.address, value |-> s]
  <2>1. x \in Range(routes)
    BY <1>5
  <2>2. r \in Range(NamedReadings)
    BY <1>1, <1>9
  <2>3. Hits(doc, x, r)
    BY <1>6, <1>7, <1>9 DEF Hits
  <2>4. u = [cell |-> x.cell, raw |-> r.value]
    BY <1>6, <1>9
  <2> HIDE DEF x, r
  <2> QED
    BY <1>4, <2>1, <2>2, <2>3, <2>4 DEF IsUpdate
<1> QED
  BY <1>8, <1>9 DEF nodes

LEMMA IntendedElements ==
  ASSUME doc # <<>>
  PROVE  \A u : u \in Intended <=>
           \E i \in DOMAIN WithParts(doc[1]) : \E m \in Range(WithParts(doc[1])[i].mappings) :
             /\ Takes(Wrapper(doc, i), m.attribute)
             /\ Readable(Group(m_regs, m.function = 4))
             /\ u = Carries(i, m)
<1> DEFINE nodes == WithParts(doc[1])
           Wanted(i, m) == Takes(Wrapper(doc, i), m.attribute) /\ Readable(Group(m_regs, m.function = 4))
<1>1. Intended = UNION {{Carries(i, m) : m \in {x \in Range(nodes[i].mappings) : Wanted(i, x)}} : i \in DOMAIN nodes}
  BY Zenon DEF Intended, Carries
<1> HIDE DEF nodes
<1>2. \A u : u \in Intended <=>
        \E i \in DOMAIN nodes : \E m \in Range(nodes[i].mappings) : Wanted(i, m) /\ u = Carries(i, m)
  BY <1>1
<1> QED
  BY <1>2 DEF nodes

LEMMA RoutingFollowsDocument == Fixed => RoutingIsExact
<1> SUFFICES ASSUME Fixed, Unambiguous PROVE Feeds = Intended
  BY DEF RoutingIsExact
<1>1. doc \in Document /\ m_regs \in Seq(Registers)
      /\ \A s : s \in Range(m_regs) <=> \E m \in Mapped : m.function # None /\ s = SpecOf(m)
  BY FixedDocument, SpecsOfDocument
<1>2. CASE doc = <<>>
  <2>1. routes = <<>>
    BY <1>2 DEF Fixed, AllMappings
  <2>2. /\ NamedReadings \in Seq(Reading(Registers))
        /\ Feeds = Range(Updates(doc, routes, NamedReadings))
    BY NamedCycle, Zenon DEF Feeds, Named, NamedReadings
  <2>3. \A u : u \in Feeds <=> IsUpdate(u, doc, routes, NamedReadings)
    BY <2>2, FixedDocument, UpdatesFollowReadings
  <2>4. Range(routes) = {}
    BY <2>1 DEF Range
  <2>5. \A u : u \notin Feeds
    BY <2>3, <2>4 DEF IsUpdate
  <2> QED
    BY <1>2, <2>5 DEF Intended
<1>3. CASE doc # <<>>
  <2> DEFINE nodes == WithParts(doc[1])
  <2>1. ASSUME NEW i \in DOMAIN nodes, NEW m \in Range(nodes[i].mappings) PROVE m \in Mapped
    <3>1. nodes[i] \in Range(Walked(doc))
      BY <1>1, <1>3, WalkedNodes
    <3> QED
      BY <3>1 DEF Mapped, Nodes
  <2>2. \A m \in Mapped : m.function # None
    BY DEF Unambiguous
  <2>3. \A m, n \in Mapped : m.address = n.address => SpecOf(m) = SpecOf(n)
    BY DEF Unambiguous
  <2>4. \A m : SpecOf(m).address = m.address /\ SpecOf(m).input = (m.function = 4)
    BY DEF SpecOf
  <2>5. \A u : u \in Feeds <=>
          \E i \in DOMAIN nodes : \E m \in Range(nodes[i].mappings) : \E s \in Range(m_regs) :
            /\ m.address = s.address
            /\ Takes(Wrapper(doc, i), m.attribute)
            /\ Readable(Group(m_regs, s.input))
            /\ u = [cell |-> <<i, m.attribute>>, raw |-> s]
    BY <1>3, FeedsElements
  <2>6. \A u : u \in Intended <=>
          \E i \in DOMAIN nodes : \E m \in Range(nodes[i].mappings) :
            /\ Takes(Wrapper(doc, i), m.attribute)
            /\ Readable(Group(m_regs, m.function = 4))
            /\ u = Carries(i, m)
    BY <1>3, IntendedElements
  <2> HIDE DEF nodes
  <2>7. ASSUME NEW i \in DOMAIN nodes, NEW m \in Range(nodes[i].mappings), NEW s \in Range(m_regs)
        PROVE  m.address = s.address <=> s = SpecOf(m)
    <3>1. PICK n \in Mapped : s = SpecOf(n)
      BY <1>1
    <3>2. n.address = s.address
      BY <2>4, <3>1
    <3> QED
      BY <2>1, <2>3, <2>4, <3>1, <3>2
  <2>8. ASSUME NEW i \in DOMAIN nodes, NEW m \in Range(nodes[i].mappings)
        PROVE  SpecOf(m) \in Range(m_regs)
    BY <1>1, <2>1, <2>2
  <2>9. ASSUME NEW u \in Feeds PROVE u \in Intended
    <3>0. PICK i \in DOMAIN nodes : \E m \in Range(nodes[i].mappings) : \E s \in Range(m_regs) :
            /\ m.address = s.address
            /\ Takes(Wrapper(doc, i), m.attribute)
            /\ Readable(Group(m_regs, s.input))
            /\ u = [cell |-> <<i, m.attribute>>, raw |-> s]
      BY <2>5
    <3>1. PICK m \in Range(nodes[i].mappings), s \in Range(m_regs) :
            /\ m.address = s.address
            /\ Takes(Wrapper(doc, i), m.attribute)
            /\ Readable(Group(m_regs, s.input))
            /\ u = [cell |-> <<i, m.attribute>>, raw |-> s]
      BY <3>0
    <3>2. s = SpecOf(m) /\ s.input = (m.function = 4)
      BY <2>4, <2>7, <3>1
    <3>3. u = Carries(i, m) /\ Readable(Group(m_regs, m.function = 4))
      BY <3>1, <3>2, Zenon DEF Carries
    <3> QED
      BY <2>6, <3>1, <3>3
  <2>10. ASSUME NEW u \in Intended PROVE u \in Feeds
    <3>0. PICK i \in DOMAIN nodes : \E m \in Range(nodes[i].mappings) :
            /\ Takes(Wrapper(doc, i), m.attribute)
            /\ Readable(Group(m_regs, m.function = 4))
            /\ u = Carries(i, m)
      BY <2>6
    <3>1. PICK m \in Range(nodes[i].mappings) :
            /\ Takes(Wrapper(doc, i), m.attribute)
            /\ Readable(Group(m_regs, m.function = 4))
            /\ u = Carries(i, m)
      BY <3>0
    <3>2. SpecOf(m) \in Range(m_regs) /\ m.address = SpecOf(m).address
      BY <2>4, <2>8
    <3>3. Readable(Group(m_regs, SpecOf(m).input))
      BY <2>4, <3>1, Zenon
    <3>4. u = [cell |-> <<i, m.attribute>>, raw |-> SpecOf(m)]
      BY <3>1, Zenon DEF Carries
    <3> QED
      BY <2>5, <3>1, <3>2, <3>3, <3>4
  <2> QED
    BY <2>9, <2>10
<1> QED
  BY <1>2, <1>3

-----------------------------------------------------------------------------
(* A factory reset on its way to the CHIP task.                            *)

Released ==
  /\ lock = "poll" => pc = "update" \/ orphaned
  /\ lock = "http" => web \in {"creating", "freeing"}
  /\ web \in {"posting", "done"} => pc \in {"dead", "crashed"}
  /\ web = "done" /\ ~rebooting => Reset \in Range(queue) \cup lost

LEMMA ReleasedNext == Typed /\ Released /\ [Next]_vars => Released'
<1> SUFFICES ASSUME Typed, Released, [Next]_vars PROVE Released'
  OBVIOUS
<1> USE DEF Released, device, poll, chip, http, history
<1>1. CASE UNCHANGED vars
  BY <1>1 DEF vars
<1> SUFFICES ASSUME Next PROVE Released'
  BY <1>1
<1>0. ~rebooting
  BY DEF Next, Up
<1>2. ASSUME NEW r \in DOMAIN regs, NEW v \in Readouts, Measure(r, v) PROVE Released'
  BY <1>2 DEF Measure
<1>3. CASE Settle
  BY <1>3 DEF Settle
<1>4. CASE ReadInput
  BY <1>4 DEF ReadInput
<1>5. CASE ReadHolding
  BY <1>5 DEF ReadHolding
<1>6. CASE Find
  <2>1. pc = "find" /\ UNCHANGED <<lock, web, queue, rebooting, lost, orphaned>>
    BY <1>6 DEF Find
  <2> QED
    BY <2>1
<1>7. CASE UseAfterFree
  BY <1>7 DEF UseAfterFree, Gone
<1>8. CASE CallbackDone
  BY <1>8 DEF CallbackDone, Restarted
<1>9. CASE Skip
  BY <1>9 DEF Skip
<1>10. CASE Write
  BY <1>10 DEF Write
<1>11. CASE WriteRest
  BY <1>11 DEF WriteRest
<1>12. CASE Post
  <2>1. pc = "post" /\ UNCHANGED <<lock, web, orphaned>>
    BY <1>12 DEF Post
  <2> QED
    BY <2>1
<1>13. CASE UpdateAttribute
  <2>1. pc = "update" /\ lock' = "free" /\ UNCHANGED web
    BY <1>13 DEF UpdateAttribute
  <2> QED
    BY <2>1
<1>14. CASE TakeLock
  BY <1>14 DEF TakeLock
<1>15. CASE ChipEvent
  <2>1. /\ queue # <<>> /\ queue' = Tail(queue)
        /\ UNCHANGED <<pc, lock, web, lost, orphaned>>
    BY <1>15 DEF ChipEvent
  <2>2. ~rebooting' => Head(queue) # Reset
    BY <1>15 DEF ChipEvent
  <2>3. queue \in Seq(DeviceCells \cup {Reset})
    BY DEF Typed, TypeOK
  <2>4. ASSUME Reset \in Range(queue), Head(queue) # Reset PROVE Reset \in Range(queue')
    <3>1. PICK i \in 1..Len(queue) : queue[i] = Reset
      BY <2>3, <2>4 DEF Range
    <3>2. i # 1 /\ Len(queue) \in Nat
      BY <2>1, <2>3, <2>4, <3>1
    <3>3. i - 1 \in 1..Len(Tail(queue)) /\ Tail(queue)[i - 1] = queue[i]
      BY <2>1, <2>3, <3>2, HeadTailProperties
    <3>4. DOMAIN Tail(queue) = 1..Len(Tail(queue))
      BY <2>1, <2>3, HeadTailProperties, LenProperties
    <3>5. i - 1 \in DOMAIN queue' /\ queue'[i - 1] = Reset
      BY <2>1, <3>1, <3>3, <3>4
    <3> QED
      BY <3>5 DEF Range
  <2>5. CASE web = "done" /\ ~rebooting'
    <3>1. Head(queue) # Reset /\ ~rebooting
      BY <1>0, <2>2, <2>5
    <3> QED
      BY <2>1, <2>4, <3>1
  <2> QED
    BY <2>1, <2>5
<1>16. ASSUME NEW c \in dirty, Report(c) PROVE Released'
  BY <1>16 DEF Report
<1>17. CASE Register \/ Created \/ ResetLock
  BY <1>17 DEF Register, Created, ResetLock
<1>18. CASE List
  BY <1>18 DEF List
<1>19. CASE RollBack \/ ResetKill
  BY <1>19 DEF RollBack, ResetKill, KillPoll
<1>20. CASE ResetFree
  BY <1>20 DEF ResetFree
<1>21. CASE ResetErase
  BY <1>21 DEF ResetErase
<1>22. CASE ResetPost
  <2>1. web = "posting" /\ web' = "done" /\ UNCHANGED <<pc, lock, orphaned>>
    BY <1>22 DEF ResetPost
  <2>2. queue \in Seq(DeviceCells \cup {Reset})
    BY DEF Typed, TypeOK
  <2>3. Reset \in Range(queue') \cup lost'
    <3>1. CASE queue' = Append(queue, Reset)
      <4>1. queue' \in Seq(DeviceCells \cup {Reset}) /\ Len(queue') = Len(queue) + 1
            /\ queue'[Len(queue) + 1] = Reset /\ Len(queue) \in Nat
        BY <2>2, <3>1, AppendProperties
      <4> QED
        BY <4>1 DEF Range
    <3>2. CASE lost' = lost \cup {Reset}
      BY <3>2
    <3> QED
      BY <1>22, <3>1, <3>2 DEF ResetPost, Posted
  <2> QED
    BY <2>1, <2>3
<1> QED
  BY <1>1, <1>2, <1>3, <1>4, <1>5, <1>6, <1>7, <1>8, <1>9, <1>10, <1>11, <1>12, <1>13,
     <1>14, <1>15, <1>16, <1>17, <1>18, <1>19, <1>20, <1>21, <1>22
     DEF Next, PollStep, HttpStep

-----------------------------------------------------------------------------
(* The invariants of the run, for any documents.                           *)

LEMMA PathInit == Init => Fixed /\ Typed /\ Released
<1> SUFFICES ASSUME Init PROVE Fixed /\ Typed /\ Released
  OBVIOUS
<1>1. Fixed
  BY DEF Init, Fixed
<1>2. Typed
  <2>1. /\ <<>> \in Seq(DeviceCells \cup {Reset}) /\ Len(<<>>) = 0
        /\ <<>> \in Seq(Jobs) /\ <<>> \in Seq(Reading(Raws))
    OBVIOUS
  <2>2. /\ DOMAIN value = DeviceCells /\ DOMAIN attr = DeviceCells /\ DOMAIN seen = DeviceCells
        /\ \A c \in DeviceCells : attr[c] = Null
    BY DEF Init
  <2>3. /\ queue = <<>> /\ Len(queue) <= QueueSize /\ requests \in 0..MaxRequests
        /\ readings = <<>> /\ todo = <<>>
    BY <2>1, PathAssumptions DEF Init, PathAssumptions
  <2>4. /\ regs \in [Range(m_regs) -> Readouts] /\ dirty = {} /\ lost = {} /\ pc = "input" /\ lock = "free"
        /\ web = "idle" /\ matter = "listed"
        /\ calm \in BOOLEAN /\ iter \in BOOLEAN /\ rebooting \in BOOLEAN
        /\ raced \in BOOLEAN /\ dangling \in BOOLEAN /\ orphaned \in BOOLEAN
    BY DEF Init
  <2>5. TypeOK
    BY <2>1, <2>2, <2>3, <2>4 DEF TypeOK, Cycle
  <2> QED
    BY <2>1, <2>2, <2>3, <2>4, <2>5 DEF Typed
<1>3. Released
  BY DEF Init, Released
<1> QED
  BY <1>1, <1>2, <1>3

LEMMA PathInvariant == Spec => [](Fixed /\ Typed /\ Released)
<1>1. Fixed /\ Typed /\ Released /\ [Next]_vars => (Fixed /\ Typed /\ Released)'
  BY FixedNext, TypedNext, ReleasedNext
<1> QED
  BY <1>1, PathInit, PTL DEF Spec

\* Every variable keeps its type: the iterator, the queue within its length,
\* and every pending update on an attribute that the device has.
THEOREM TypesHold == Spec => []TypeOK
<1>1. Typed => TypeOK
  BY DEF Typed
<1> QED
  BY <1>1, PathInvariant, PTL

\* build_register_specs: the polled registers are those that the mappings of
\* the document name, each once.
THEOREM PolledRegistersAreExact == Spec => []SpecsAreExact
<1>1. Fixed => SpecsAreExact
  <2> SUFFICES ASSUME Fixed PROVE SpecsAreExact
    OBVIOUS
  <2> DEFINE R == Range(m_regs)
  <2>1. /\ \A s : s \in R <=> \E m \in Mapped : m.function # None /\ s = SpecOf(m)
        /\ IsInjective(m_regs)
    BY SpecsOfDocument
  <2> HIDE DEF R
  <2> DEFINE P == {x \in Mapped : x.function # None}
  <2>2. \A s : s \in R <=> \E m \in P : s = SpecOf(m)
    BY <2>1
  <2> HIDE DEF P
  <2>3. R = {SpecOf(m) : m \in P}
    BY <2>2, Zenon
  <2> QED
    BY <2>1, <2>3, Zenon DEF SpecsAreExact, R, P
<1> QED
  BY <1>1, PathInvariant, PTL

\* read_group: exactly the groups within the limit are read, and no value is
\* picked from outside the answer.
THEOREM RequestsFitAnswers == Spec => []RequestsFit
  BY RequestsFitGroups, PathInvariant, PTL

\* Polling and routing walk the document apart and agree: in a document whose
\* registers can be told apart, each mapping is fed by its register alone.
THEOREM RoutingAgrees == Spec => []RoutingIsExact
  BY RoutingFollowsDocument, PathInvariant, PTL

\* The attribute store never holds a charge beyond 200 half percent.
THEOREM ChargeStaysBounded == Spec => []ChargeIsBounded
<1>1. Typed => ChargeIsBounded
  <2> SUFFICES ASSUME Typed PROVE ChargeIsBounded
    OBVIOUS
  <2>1. ASSUME NEW raw \in 0..(ValueCount - 1)
        PROVE  /\ HalfPercent(raw) \in 0..200
               /\ raw < ValueCount \div 2 => HalfPercent(raw) = IF raw > 100 THEN 200 ELSE 2 * raw
    <3>1. ValueCount \in Nat \ {0} /\ ValueCount % 2 = 0
      BY RegisterAssumptions DEF RegisterAssumptions
    <3>2. raw \in Nat /\ (raw < ValueCount \div 2 => 2 * raw < ValueCount)
      BY <3>1
    <3> QED
      BY <3>2, ChargeIsLimited
  <2>2. \A c \in DOMAIN attr : attr[c] # Null => attr[c] \in 0..200
    BY DEF Typed, TypeOK
  <2> QED
    BY <2>1, <2>2 DEF ChargeIsBounded, BoundedCharge
<1> QED
  BY <1>1, PathInvariant, PTL

\* Whoever held the CHIP lock has given it back, or was the poll task and was
\* deleted with it, before the reset event waits for the CHIP task.
THEOREM ResetFindsTheWayClear == Spec => []ResetIsUnblocked
<1>1. Typed /\ Released => ResetIsUnblocked
  BY DEF Typed, TypeOK, Released, ResetIsUnblocked, Up
<1> QED
  BY <1>1, PathInvariant, PTL
=============================================================================
