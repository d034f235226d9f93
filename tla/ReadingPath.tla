---------------------------- MODULE ReadingPath ----------------------------
(***************************************************************************)
(* The way of a register value to the subscribers of a Matter attribute,   *)
(* for one device: the poll task reads the two register groups, looks the  *)
(* device up in MatterManager::m_devices, writes each new value into a     *)
(* Matter device object and posts a report to the event queue of the CHIP  *)
(* task (electrical_sensor_device.cpp, solar_power_device.cpp), or, for    *)
(* the charge of a battery, waits for the CHIP stack lock and updates the  *)
(* attribute store itself.                                                 *)
(*                                                                         *)
(* Meanwhile the HTTP task registers other devices, rolls this one back    *)
(* after a PUT that fails, or resets everything; nothing keeps it away     *)
(* from the poll task but, at times, the CHIP stack lock.                  *)
(***************************************************************************)
EXTENDS RegisterMap

CONSTANTS
  Documents,      \* matter structures of the device
  Explored,       \* bound: those for which the tasks run
  Readouts,       \* values the registers take
  QueueSize,      \* CONFIG_MAX_EVENT_QUEUE_SIZE
  MaxRequests,    \* bound on the HTTP requests before a factory reset
  Reset,          \* the event that resets the chip, beside the reports
  Null,           \* an attribute without a value
  Torn            \* a 64-bit value of which one half is written

ASSUME PathAssumptions ==
  /\ Documents \subseteq Document
  /\ Readouts \subseteq 0..(ValueCount - 1)
  /\ Readouts # {}
  /\ QueueSize \in Nat \ {0}
  /\ MaxRequests \in Nat
  /\ Null # Torn
  /\ Reset \notin (Nat \ {0}) \X Attributes
  /\ Explored \subseteq Documents

VARIABLES
  doc,        \* the matter structure; this and the next two are fixed
  m_regs,     \* what build_register_specs made of it
  routes,   \* what parse_all_mappings made of it
  regs,       \* what the registers hold now
  calm,       \* environment: from now on registers and network are steady
  pc,         \* the poll task
  readings,   \* its vector of readings
  todo,       \* updates that on_readings has still to make
  iter,       \* its iterator into m_devices is valid
  lock,       \* the CHIP stack lock
  value,      \* m_voltage, m_active_current, m_active_power, m_bat_percent
  attr,       \* esp-matter's attribute store
  queue,      \* the CHIP event queue
  dirty,      \* attributes marked for a report
  seen,       \* what subscribers were last told
  web,        \* the HTTP task
  requests,   \* number of its requests so far
  matter,     \* the device's entry in m_devices: listed, freed or cleared
  rebooting,
  lost,       \* history: posts that failed because the queue was full
  raced,      \* history: m_devices was changed during this callback
  dangling,   \* history: the poll task used something freed
  orphaned    \* history: the poll task was deleted while it held the lock

device == <<doc, m_regs, routes>>
poll == <<pc, readings, todo, iter>>
chip == <<queue, dirty, seen>>
http == <<web, requests, matter>>
history == <<lost, raced, dangling, orphaned>>
vars == <<device, regs, calm, poll, lock, value, attr, chip, http, rebooting, history>>

DeviceCells == Cells(doc, routes)

Init ==
  /\ doc \in Documents
  /\ m_regs = RegisterSpecs(doc)
  /\ routes = AllMappings(doc)
  /\ regs \in [Range(m_regs) -> Readouts]
  /\ calm = FALSE
  /\ pc = "input" /\ readings = <<>> /\ todo = <<>> /\ iter = FALSE
  /\ lock = "free"
  /\ value = [c \in DeviceCells |-> Null]
  /\ attr = [c \in DeviceCells |-> Null]
  /\ queue = <<>> /\ dirty = {}
  /\ seen = [c \in DeviceCells |-> Null]
  /\ web = "idle" /\ requests = 0 /\ matter = "listed"
  /\ rebooting = FALSE
  /\ lost = {} /\ raced = FALSE /\ dangling = FALSE /\ orphaned = FALSE

-----------------------------------------------------------------------------
(* The environment.                                                        *)

Measure(r, v) ==
  /\ ~calm
  /\ regs' = [regs EXCEPT ![r] = v]
  /\ UNCHANGED <<device, calm, poll, lock, value, attr, chip, http, rebooting, history>>

Settle ==
  /\ ~calm
  /\ calm' = TRUE
  /\ UNCHANGED <<device, regs, poll, lock, value, attr, chip, http, rebooting, history>>

-----------------------------------------------------------------------------
(* poll_task: the two groups.                                              *)

\* What a request answers: any register of its range.
Answer(group, content) ==
  [k \in 0..(Count(group) - 1) |->
     LET r == [input |-> group[1].input, address |-> Lowest(group) + k]
     IN  IF r \in DOMAIN content THEN content[r] ELSE 0]

Values(specs, input, content) ==
  LET group == Group(specs, input)
  IN  IF Readable(group) THEN Picked(group, Answer(group, content)) ELSE <<>>

\* A request that fails, or is not made, adds no reading.
Read(input) ==
  LET values == Values(m_regs, input, regs)
  IN  readings' \in {readings \o values} \cup (IF calm THEN {} ELSE {readings})

ReadInput ==
  /\ pc = "input"
  /\ Read(TRUE)
  /\ pc' = "holding"
  /\ UNCHANGED <<device, regs, calm, todo, iter, lock, value, attr, chip, http, rebooting, history>>

Restarted ==
  /\ pc' = "input" /\ readings' = <<>> /\ todo' = <<>> /\ iter' = FALSE
  /\ raced' = FALSE

ReadHolding ==
  /\ pc = "holding"
  /\ Read(FALSE)
  /\ pc' = "find"
  /\ UNCHANGED <<device, regs, calm, todo, iter, lock, value, attr, chip, http, rebooting, history>>

-----------------------------------------------------------------------------
(* on_readings and set_raw, on the poll task.                              *)

InCallback == pc \in {"apply", "half", "post", "lock", "update"}

\* Without readings there is no callback.
\* find_if: a device that is not listed (any more) takes no readings.
Find ==
  /\ pc = "find"
  /\ IF readings = <<>> \/ matter = "cleared"
     THEN Restarted
     ELSE /\ pc' = "apply"
          /\ todo' = Updates(doc, routes, readings)
          /\ iter' = TRUE
          /\ raced' = (web = "erasing")
          /\ UNCHANGED readings
  /\ UNCHANGED <<device, regs, calm, lock, value, attr, chip, http, rebooting, lost, dangling, orphaned>>

Cell == Head(todo).cell
New == Scaled(Cell[2], Head(todo).raw)

\* The step would use an invalid iterator or a deleted Matter device; what
\* the program does then is not followed further.
Gone ==
  CASE pc = "apply"           -> ~iter \/ (matter # "listed" /\ todo # <<>>)
    [] pc \in {"half", "post"} -> matter # "listed"
    [] OTHER                  -> FALSE

UseAfterFree ==
  /\ Gone
  /\ pc' = "crashed"
  /\ dangling' = TRUE
  /\ UNCHANGED <<device, regs, calm, readings, todo, iter, lock, value, attr, chip, http,
                 rebooting, lost, raced, orphaned>>

CallbackDone ==
  /\ pc = "apply" /\ ~Gone
  /\ todo = <<>>
  /\ Restarted
  /\ UNCHANGED <<device, regs, calm, lock, value, attr, chip, http, rebooting, lost, dangling, orphaned>>

\* An equal value is skipped; a new one is written, 64 bits in two halves.
Skip ==
  /\ pc = "apply" /\ ~Gone
  /\ todo # <<>> /\ value[Cell] = New
  /\ todo' = Tail(todo)
  /\ UNCHANGED <<device, regs, calm, pc, readings, iter, lock, value, attr, chip, http, rebooting, history>>

Write ==
  /\ pc = "apply" /\ ~Gone
  /\ todo # <<>> /\ value[Cell] # New
  /\ IF Cell[2] \in Measurements
     THEN pc' = "half" /\ value' = [value EXCEPT ![Cell] = Torn]
     ELSE pc' = "lock" /\ value' = [value EXCEPT ![Cell] = New]
  /\ UNCHANGED <<device, regs, calm, readings, todo, iter, lock, attr, chip, http, rebooting, history>>

\* Mutant: the value is compared after it was assigned, and always equal.
WriteThenCompare ==
  /\ pc = "half" /\ ~Gone
  /\ value' = [value EXCEPT ![Cell] = New]
  /\ todo' = Tail(todo)
  /\ pc' = "apply"
  /\ UNCHANGED <<device, regs, calm, readings, iter, lock, attr, chip, http, rebooting, history>>

WriteRest ==
  /\ pc = "half" /\ ~Gone
  /\ value' = [value EXCEPT ![Cell] = New]
  /\ pc' = "post"
  /\ UNCHANGED <<device, regs, calm, readings, todo, iter, lock, attr, chip, http, rebooting, history>>

\* ScheduleWork: an event for the CHIP task, dropped if its queue is full.
Posted(event) ==
  IF Len(queue) < QueueSize
  THEN queue' = Append(queue, event) /\ lost' = lost \ {event}
  ELSE lost' = lost \cup {event} /\ UNCHANGED queue

Post ==
  /\ pc = "post" /\ ~Gone
  /\ Posted(Cell)
  /\ todo' = Tail(todo)
  /\ pc' = "apply"
  /\ UNCHANGED <<device, regs, calm, readings, iter, lock, value, attr, dirty, seen, http,
                 rebooting, raced, dangling, orphaned>>

\* Mutant: an update that finds the lock taken is given up.
TryLock ==
  /\ pc = "lock"
  /\ IF lock = "free"
     THEN lock' = "poll" /\ pc' = "update" /\ UNCHANGED todo
     ELSE pc' = "apply" /\ todo' = Tail(todo) /\ UNCHANGED lock
  /\ UNCHANGED <<device, regs, calm, readings, iter, value, attr, chip, http, rebooting, history>>

\* attribute::update waits for the lock, stores the value if the endpoint
\* has the attribute, marks it for a report and releases the lock.
TakeLock ==
  /\ pc = "lock"
  /\ lock = "free"
  /\ lock' = "poll"
  /\ pc' = "update"
  /\ UNCHANGED <<device, regs, calm, readings, todo, iter, value, attr, chip, http, rebooting, history>>

UpdateAttribute ==
  /\ pc = "update"
  /\ IF Published(doc, Cell) /\ matter = "listed"
     THEN attr' = [attr EXCEPT ![Cell] = New] /\ dirty' = dirty \cup {Cell}
     ELSE UNCHANGED <<attr, dirty>>
  /\ lock' = "free"
  /\ todo' = Tail(todo)
  /\ pc' = "apply"
  /\ UNCHANGED <<device, regs, calm, readings, iter, value, queue, seen, http, rebooting, history>>

-----------------------------------------------------------------------------
(* The CHIP task works under the lock, an event at a time.                 *)

ChipEvent ==
  /\ lock = "free"
  /\ queue # <<>>
  /\ queue' = Tail(queue)
  /\ rebooting' = (Head(queue) = Reset)
  /\ dirty' = IF Head(queue) = Reset THEN dirty ELSE dirty \cup {Head(queue)}
  /\ UNCHANGED <<device, regs, calm, poll, lock, value, attr, seen, http, history>>

\* The report reads the attribute now, if the endpoint has it: from the object
\* or from the store.
Report(c) ==
  /\ lock = "free"
  /\ c \in dirty
  /\ dirty' = dirty \ {c}
  /\ IF Published(doc, c) /\ matter = "listed"
     THEN seen' = [seen EXCEPT ![c] = IF c[2] \in Measurements THEN value[c] ELSE attr[c]]
     ELSE UNCHANGED seen
  /\ UNCHANGED <<device, regs, calm, poll, lock, value, attr, queue, http, rebooting, history>>

-----------------------------------------------------------------------------
(* The HTTP task: create_matter_device for a POST, or for a PUT of this    *)
(* device, first under the CHIP lock, then m_devices without it.           *)

Register ==
  /\ web = "idle" /\ matter = "listed"
  /\ requests < MaxRequests
  /\ lock = "free"
  /\ lock' = "http"
  /\ web' = "creating"
  /\ requests' = requests + 1
  /\ UNCHANGED <<device, regs, calm, poll, value, attr, chip, matter, rebooting, history>>

Created ==
  /\ web = "creating"
  /\ lock' = "free"
  /\ web' = "listing"
  /\ UNCHANGED <<device, regs, calm, poll, value, attr, chip, requests, matter, rebooting, history>>

\* push_back may move the entries that a callback is walking through.
List ==
  /\ web = "listing"
  /\ web' = "idle"
  /\ iter' \in {iter, FALSE}
  /\ raced' = (raced \/ InCallback)
  /\ UNCHANGED <<device, regs, calm, pc, readings, todo, lock, value, attr, chip, requests, matter,
                 rebooting, lost, dangling, orphaned>>

\* vTaskDelete of the poll task, wherever it is.
KillPoll ==
  /\ pc' = IF pc = "crashed" THEN pc ELSE "dead"
  /\ orphaned' = (orphaned \/ lock = "poll")

\* A PUT that cannot create the root endpoint: register_device rolls back
\* with the first Modbus device of this id, the one that is polled.
RollBack ==
  /\ web = "listing"
  /\ web' = "idle"
  /\ KillPoll
  /\ UNCHANGED <<device, regs, calm, readings, todo, iter, lock, value, attr, chip, requests, matter,
                 rebooting, lost, raced, dangling>>

-----------------------------------------------------------------------------
(* factory_reset_handler.                                                  *)

ResetLock ==
  /\ web = "idle" /\ matter = "listed"
  /\ lock = "free"
  /\ lock' = "http"
  /\ web' = "freeing"
  /\ UNCHANGED <<device, regs, calm, poll, value, attr, chip, requests, matter, rebooting, history>>

\* Mutant: the lock is not released after the devices are deleted.
ResetFreeLocked ==
  /\ web = "freeing"
  /\ matter' = "freed"
  /\ raced' = (raced \/ InCallback)
  /\ web' = "erasing"
  /\ UNCHANGED <<device, regs, calm, poll, lock, value, attr, chip, requests, rebooting, lost, dangling, orphaned>>

\* MatterManager::clear: the Matter devices are deleted under the lock ...
ResetFree ==
  /\ web = "freeing"
  /\ matter' = "freed"
  /\ raced' = (raced \/ InCallback)
  /\ lock' = "free"
  /\ web' = "erasing"
  /\ UNCHANGED <<device, regs, calm, poll, value, attr, chip, requests, rebooting, lost, dangling, orphaned>>

\* Mutant: the entries of the deleted devices stay in the list.
ResetKeepsEntries ==
  /\ web = "erasing"
  /\ raced' = (raced \/ InCallback)
  /\ web' = "killing"
  /\ UNCHANGED <<device, regs, calm, poll, lock, value, attr, chip, requests, matter, rebooting,
                 lost, dangling, orphaned>>

\* ... and their entries erased without it.
ResetErase ==
  /\ web = "erasing"
  /\ matter' = "cleared"
  /\ iter' = FALSE
  /\ raced' = (raced \/ InCallback)
  /\ web' = "killing"
  /\ UNCHANGED <<device, regs, calm, pc, readings, todo, lock, value, attr, chip, requests, rebooting,
                 lost, dangling, orphaned>>

\* ModbusManager::clear.
ResetKill ==
  /\ web = "killing"
  /\ KillPoll
  /\ web' = "posting"
  /\ UNCHANGED <<device, regs, calm, readings, todo, iter, lock, value, attr, chip, requests, matter,
                 rebooting, lost, raced, dangling>>

\* The store is cleared, the request answered, the reset handed to CHIP.
ResetPost ==
  /\ web = "posting"
  /\ Posted(Reset)
  /\ web' = "done"
  /\ UNCHANGED <<device, regs, calm, poll, lock, value, attr, dirty, seen, requests, matter,
                 rebooting, raced, dangling, orphaned>>

-----------------------------------------------------------------------------
PollStep ==
  \/ ReadInput \/ ReadHolding \/ Find \/ UseAfterFree \/ CallbackDone
  \/ Skip \/ Write \/ WriteRest \/ Post \/ UpdateAttribute

HttpStep ==
  \/ Created \/ List \/ RollBack
  \/ ResetFree \/ ResetErase \/ ResetKill \/ ResetPost

\* The chip runs until the reset event restarts it, or something freed was
\* used and anything may follow.
Up == ~rebooting /\ ~dangling

Next ==
  /\ Up
  /\ doc \in Explored
  /\ \/ \E r \in DOMAIN regs, v \in Readouts : Measure(r, v)
     \/ Settle
     \/ PollStep \/ TakeLock
     \/ ChipEvent
     \/ \E c \in dirty : Report(c)
     \/ Register \/ ResetLock \/ HttpStep

Spec == Init /\ [][Next]_vars

\* Every task runs when it can; whoever waits for the CHIP stack lock, a
\* FreeRTOS mutex with a queue of waiting tasks, gets it in the end.
Fairness ==
  /\ WF_vars(Up /\ PollStep)
  /\ WF_vars(Up /\ HttpStep)
  /\ SF_vars(Up /\ TakeLock)
  /\ SF_vars(Up /\ ChipEvent)
  /\ SF_vars(Up /\ \E c \in dirty : Report(c))

FairSpec == Spec /\ Fairness

-----------------------------------------------------------------------------
(* Correctness of the register map, for each of the documents.             *)

Nodes == Range(Walked(doc))
Mapped == UNION {Range(n.mappings) : n \in Nodes}

\* build_register_specs: every register a mapping names, as function and
\* address, is polled, each once.
SpecsAreExact ==
  /\ Range(m_regs) = {SpecOf(m) : m \in {x \in Mapped : x.function # None}}
  /\ IsInjective(m_regs)

Span(group) == Max(Addresses(group)) - Lowest(group) + 1

\* read_group and send_request count in 16 bits and check the limit in two
\* places: together they send a request for a group exactly when it spans 1
\* to 125 registers, and then every value is picked from inside the answer.
RequestsFit ==
  \A input \in BOOLEAN :
    LET group == Group(m_regs, input)
    IN  group # <<>> =>
          /\ Readable(group) <=> Span(group) <= MaxRegisters
          /\ Readable(group) => \A a \in Addresses(group) : a - Lowest(group) < Count(group)

\* Which register a poll cycle carries to which attribute: a cycle in which
\* every register holds its own name.
Feeds ==
  LET names == [r \in Range(m_regs) |-> r]
  IN  Range(Updates(doc, routes, Values(m_regs, TRUE, names) \o Values(m_regs, FALSE, names)))

Intended ==
  IF doc = <<>> THEN {}
  ELSE LET nodes == WithParts(doc[1])
           Wanted(i, m) ==
             /\ Takes(Wrapper(doc, i), m.attribute)
             /\ Readable(Group(m_regs, m.function = 4))
       IN  UNION {{[cell |-> <<i, m.attribute>>, raw |-> SpecOf(m)] :
                     m \in {x \in Range(nodes[i].mappings) : Wanted(i, x)}} : i \in DOMAIN nodes}

Unambiguous ==
  /\ \A m \in Mapped : m.function # None
  /\ \A m, n \in Mapped : m.address = n.address => SpecOf(m) = SpecOf(n)

\* Two walks over one document, one for the polling and one for the routing,
\* agree: every mapping of the first endpoint and its parts is fed by the
\* register it names and by no other.  Not so when an input and a holding
\* register have the same address: on_readings cannot tell them apart.
RoutingIsExact == Unambiguous => Feeds = Intended

BoundedCharge ==
  \A raw \in 0..(ValueCount - 1) :
    /\ HalfPercent(raw) \in 0..200
    /\ raw < ValueCount \div 2 => HalfPercent(raw) = IF raw > 100 THEN 200 ELSE 2 * raw

\* The charge of a battery never leaves 0..200, and for every register value
\* below half the range it follows the register and stops at full.
ChargeIsBounded ==
  /\ BoundedCharge
  /\ \A c \in DOMAIN attr : attr[c] # Null => attr[c] \in 0..200

-----------------------------------------------------------------------------
(* Correctness of the path.                                                *)

Cycle == {"input", "holding", "find", "apply", "half", "post", "lock", "update"}

TypeOK ==
  /\ regs \in [Range(m_regs) -> Readouts]
  /\ calm \in BOOLEAN
  /\ pc \in Cycle \cup {"dead", "crashed"}
  /\ iter \in BOOLEAN
  /\ lock \in {"free", "poll", "http"}
  /\ queue \in Seq(DeviceCells \cup {Reset}) /\ Len(queue) <= QueueSize
  /\ dirty \subseteq DeviceCells
  /\ DOMAIN value = DeviceCells /\ DOMAIN attr = DeviceCells /\ DOMAIN seen = DeviceCells
  /\ todo # <<>> => Cell \in DeviceCells
  /\ web \in {"idle", "creating", "listing", "freeing", "erasing", "killing", "posting", "done"}
  /\ requests \in 0..MaxRequests
  /\ matter \in {"listed", "freed", "cleared"}
  /\ rebooting \in BOOLEAN
  /\ lost \subseteq DeviceCells \cup {Reset}
  /\ raced \in BOOLEAN /\ dangling \in BOOLEAN /\ orphaned \in BOOLEAN

\* Unless m_devices was changed in the middle of a callback, or the callback
\* began while it was being cleared, the poll task never uses an entry or a
\* Matter device that is gone.
NoUseAfterFree == dangling => raced

\* m_bat_percent doubles as the memory of what was stored: between callbacks
\* it is what the attribute store has, or later equal values would be skipped
\* and the store never corrected.
StoreAgrees ==
  pc \in {"input", "holding", "find"} /\ matter = "listed" =>
    \A c \in DeviceCells :
      c[2] = "BatPercentRemaining" /\ Published(doc, c) => attr[c] = value[c]

Feeders(c) == {x \in Feeds : x.cell = c}
Current(c) == {Scaled(c[2], regs[f.raw]) : f \in Feeders(c)}

AllCells == UNION {Cells(d, AllMappings(d)) : d \in Explored}

Steady(c) ==
  /\ calm /\ pc \in Cycle /\ matter = "listed"
  /\ c \in DeviceCells /\ c \notin lost
  /\ Published(doc, c)
  /\ Cardinality(Feeders(c)) = 1

CaughtUp(c) == c \in DeviceCells /\ seen[c] \in Current(c)

\* However writes, reports and half-written values interleaved: once the
\* registers are steady, subscribers end up with the value of the register.
\* The exceptions: the last report of the attribute met a full queue, two
\* registers share the attribute, or the poll task is gone.
SubscribersCatchUp ==
  \A c \in AllCells : <>[]Steady(c) => <>[]CaughtUp(c)

\* While a factory reset waits for the chip to restart, nothing stands in the
\* way of its event: the CHIP lock, which the poll task and two steps of the
\* HTTP task hold at times, has been given back, and the event is queued.  The
\* exceptions: the poll task was deleted while it held the lock, and the event
\* met a full queue.
ResetIsUnblocked ==
  web \in {"posting", "done"} /\ Up /\ ~orphaned =>
    /\ lock = "free"
    /\ web = "done" => Reset \in Range(queue) \cup lost

\* A factory reset that has begun ends in the restart of the chip, unless
\* the event queue was full, the poll task took the CHIP lock to its grave, or
\* it used what the reset had freed.
ResetReboots ==
  web = "freeing" ~> rebooting \/ orphaned \/ dangling \/ Reset \in lost
=============================================================================
