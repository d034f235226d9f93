# Verification of the Matter / Modbus-TCP bridge

The firmware under `src/firmware/main` turns an ESP32-S3 with an Ethernet
port into a bridge: it polls Modbus TCP devices (inverters, meters) every five
seconds and shows their registers as Matter devices. This directory holds
TLA+ models of its core, the TLC runs that check them on small instances, and
proofs, checked by TLAPS, of what holds for every instance.

All paths below are relative to `src/firmware/main` unless they start with `src/`.

## 1. Inventory

### Tasks

| task | enters | works on |
|---|---|---|
| main | `app_main` (main.cpp:134) | start-up: NVS, Ethernet, `esp_matter::start`, `DeviceManager::init`, web server |
| CHIP | `app_event_cb` (main.cpp:36) | commissioning events; `kInterfaceIpAddressChanged` starts the pollers |
| event loop | `eth_event_handler` (modbus_manager.cpp:80) | pauses or resumes every poller on a link event |
| HTTP server | all handlers of web_server.cpp, one at a time | the device API, factory reset, pairing, WebSocket |
| poll task, one for every call of `start_polling` | modbus_device.cpp:102 | one `ModbusDevice`: connect, read, call back |

FreeRTOS runs them preemptively on two cores. The lists `m_devices` of
`ModbusManager` and `MatterManager`, and all members of `ModbusDevice`, are
shared between them without a lock. The CHIP stack lock is taken around the
creation and deletion of Matter endpoints only.

### Components

| component | state | operations | what makes it correct |
|---|---|---|---|
| **Device store** (devices_store.cpp) | `s_devices[32]`, `s_count`, `devices.json`, `devices.json.tmp` | init, count/at, add, update, update_matter_structure, remove, clear; each ends in `persist` | the published file is never a part of one; a call that reports success survives a restart; add and update that report failure have no effect; saving one device never costs another |
| **Modbus device** (modbus_device.cpp) | `m_sock`, `m_state`, `m_paused`, `m_poll_task`, the poll task's locals | start_polling, pause, resume, destructor; ensure_connected, send_request with a retry, close_socket | no descriptor leaked, none of somebody else's touched; an answer belongs to the request; pause stops traffic; polling always recovers; nothing runs on a deleted object |
| **Modbus manager** (modbus_manager.cpp) | `m_devices` (raw pointers) | on_device_added/removed, start_polling, pause_all, resume_all, clear, find, test_connection, read_registers | list and heap agree; one poller for each device; no device left out or left paused |
| **Device manager** (device_manager.cpp) and start-up (main.cpp) | none of its own; `mdns_registered` | init (restore), register, add, update, clear | store, poll list and Matter list describe the same devices; a failed registration is undone |
| **Matter manager** (matter_manager.cpp) | `m_devices` with endpoints and register mappings; ids persisted in the structure and in NVS | create_matter_device, on_device_removed, clear, on_readings, get_readings | stable endpoint ids; readings reach the endpoints of their device; ids, entries and mappings aligned |
| **Web server, device API** (web_server.cpp) | none | POST/PUT/DELETE/GET devices, readings, test, raw read, factory reset, pairing | each request leaves the managers consistent |
| **Web server, events** (web_server.cpp:29-32, 687-764) | four WebSocket slots, the opening time of the commissioning window | subscribe, unsubscribe, notify, open window | a connected client is told; slots are given back; the countdown agrees with the window |
| **Matter device types** (electrical_sensor_device.cpp, solar_power_device.cpp) | last value of each attribute | set_raw, get_raw | scaling and clamping |
| **Ethernet driver**, **web application**, **discovery tool**, **scratch script** | – | – | environment of the rest |

### Interactions

HTTP → `DeviceManager` → store, then `ModbusManager`, then `MatterManager`,
then back to `ModbusManager` to start the poller, or to undo. A poll task →
`MatterManager::on_readings` → `set_raw` of the matching Matter devices. CHIP
task → `ModbusManager::start_polling`. Event loop → `pause_all`/`resume_all`.

### What is hard here

* power lost, or a failing call, between two steps of `persist`;
* `close_socket` tests, closes and clears `m_sock` in three steps while two
  other tasks do the same, over descriptor numbers that are given out again;
* a request that fails is retried once on a new connection, and no transaction
  id is compared, so a late answer could be taken for another one;
* the only event that ever starts the pollers may come before, during or after
  the restore at boot, and on another core;
* link events walk a list that the HTTP task is changing;
* POST undoes a half-finished registration, PUT registers the id a second
  time, DELETE only edits the store: three views of one device drift apart;
* two walks over one document decide what is polled and where it goes;
* a callback on the poll task uses entries and devices that the HTTP task
  deletes, and a task that is deleted may hold the CHIP lock;
* descriptors in the WebSocket table are reused while a notify walks a copy;
* the countdown of the page, the time kept by the server and CHIP's timer are
  three clocks, and answers come late or in another order.

`PROJECT.json` lists each hazard at its line, with the properties that watch it.

## 2. Modules

```
StoreContract  <--implements--  DevicesStore   <- DevicesStoreProofs   MCDevicesStore
                                     |
                                ModbusDevice   <- ModbusDeviceProofs   MCModbusDevice
                                     |
                               DeviceManager   <- DeviceManagerProofs  MCDeviceManager
                                     |
                               MatterManager   <- MatterManagerProofs  MCMatterManager

   RegisterMap  <--extends--  ReadingPath      <- ReadingPathProofs    MCReadingPath
        ^---- RegisterMapProofs <--extends----------------/
                              WebEvents        <- WebEventsProofs      MCWebEvents

   Induction  <--extends--  DevicesStoreProofs, RegisterMapProofs
```

`DeviceManager` composes the three managers at the grain of their calls: the
store is one variable there and a poller one counter; what happens inside them
is the matter of the other three. `ReadingPath` composes the poll task, the
register mappings, the Matter device objects, the CHIP task and the factory
reset for one device, from a register to a subscriber. `WebEvents` shares no
state with the rest.

### DevicesStore (and StoreContract)

`s_devices` is the array as a function from ids to entries (order is never
observable), `main` and `tmp` are the two files, `pc` is the step of `persist`
that the one calling task has reached. Each API call (`Add`, `Update`,
`UpdateMatterStructure`, `Remove`, `Clear`) edits the table and serialises it;
`PersistOpen`, `PersistWrite`, `PersistFlush`, `PersistRename` follow, each
with its error path where the constant `Faults` allows it; `Fail` is what the
callers do with an error: only add and update restore the table. `Restart` may
happen between any two steps. `Boot` is `devices_store_init`, in three ways:
`Mount` and `load_from_disk` with its size limit; `Format`, since
`format_if_mount_failed` is set: a partition that does not mount loses both
files, and the start-up goes on with an empty table and no error (unless the
new file system does not mount either); `NoMount`, where registering the file
system fails before the partition is touched.

An entry is a configuration and a structure document. A document that does not
fit its 2048-byte buffer becomes `Truncated`, which does not parse and is
therefore left out of the file by `persist`.

History variables: `dropped` (ids the callers asked this boot to forget) and
`lossy` (a file was ignored at start-up, or a flush failed, and nobody was
told). They are never read by an action's guard, except that `Fresh` does not
draw an id in `dropped`: the code draws 64 random bits.

`StoreContract` is what the rest of the firmware may rely on: a table edited
atomically, saved when the call succeeds, and read back at power-on; its action
`LoseSync` says openly that a failed remove, clear or update_matter_structure
stays in memory, and `Wiped` that a start-up may find a partition it has to
format. In the refinement the table is the one before the call until
`persist` ends, written as the file would show it.

### ModbusDevice

One action for each program point of the poll task: `PollTop` (the loop head,
the only reader of `m_paused`), `Connect`/`Connected`/`ConnectFails`
(`ensure_connected`), `Send`, `Recv`, `Retry` (`send_request`), `Close` and
`Clear` (`close_socket`, shared by all three actors), `Deliver`, `Delay`. The
event loop has `Pause` and `Resume`, the HTTP task `Destroy`: `vTaskDelete` on
the task named by `m_poll_task`, then `close_socket`.

`fd` is the lwIP socket table: a descriptor is free, the device's, or another
component's (`OtherOpens`, `OtherCloses`). `wire` keeps, for each connection,
the requests whose answers are due; `Recv` takes the oldest answer, as the code
does, or fails at any time (timeout, reset, short answer). What is read is not
modelled, only which group was: a register value plays no part in the control.

History variables: `overlap` ("met": two actors were inside the connection
code at once; "cut": the destructor ended a task that was) and `foreign` (a descriptor of somebody else was used or closed). `calm`
is a switch of the environment: once set, nothing fails or interferes, so that
recovery can be stated as a liveness property.

With the code's unlocked `close_socket`, two actors inside the connection code
at once can close a descriptor twice or lose one; the properties therefore say
what holds until that happens, and the model says exactly when it can: a link
event or a deletion during a request, or two poll tasks on one object.
`NothingAfterDelete` goes on where only "cut" happened: wherever the task was
deleted its connection is closed, but a descriptor that `ensure_connected` was
still connecting was known to the task alone and stays open (`LeftOpening`).
That leak is a consequence of the code, and the one the property admits.

### DeviceManager

`store`, `modbus`, `matter` are the three views of the devices; `obj`,
`paused`, `handle`, `pollers` describe the heap by address, so that two objects
with one id, and tasks running on a freed address, can be told apart. `main`,
`chip`, `event` and `http` are the program counters of four tasks: a loop over
`m_devices` takes a step for each element, working on the list as it was when
the loop began; a registration takes a step for each manager it calls.

`EveryDeviceIsPolled` and `EveryEndpointHasADevice` ask that some object of the
id is polled (`IsPolled`), not that an object exists. A PUT keeps this true: it
starts the first object of the id once more (finding 3). If its registration
fails, the rollback deletes that first object, and the one that is left has no
poller: such an id is in `rolled`.

History variables, used to state each property with its exact exceptions:
`put` (ids that a PUT registered again), `rolled` (ids that a rollback left with
an object whose poller it deleted), `early` (objects added through the API
before the IPv4 address was handled: `register_device` starts them, and so does
`start_polling` later), `missed` (the address was handled before the restore
had ended), `racy` (a list changed while another task was walking it; in the
code a vector iterator is then invalid, and nothing is claimed afterwards).

Assumptions: `xTaskCreate` and `new` succeed; the store's saves succeed (their
failures are DevicesStore's subject); an address is not given out again while a
forgotten task still runs on it.

### MatterManager

`create_matter_device` step by step: `CreateRoot` or `RootFails`, one
`CreatePart` or `PartFails` for each part, `Enable` (the CHIP lock is released),
`Complete` (new ids are written into the structure and saved, the device is
listed). `Restore`, `AddDevice` and `UpdateDevice` begin a registration,
`RemoveDevice` is the DELETE handler, `ClearMatter` and `ClearStore` are the
factory reset, and `Restart` may come between any two steps. `Reached` is the
routing of `on_readings` and `get_readings`.

A structure is the list of its stored endpoint ids, the root's first, and
whether its text has room for ids: `write_all_endpoint_ids` cuts one that has
not, which then is `Broken`. Mappings are by endpoint index, as in the code.
`nextEp`, `bridged` and `live` are esp-matter's side, modelled from its use in
`create_or_resume_endpoint` and `create_or_resume_part`: new ids are never
reused, an endpoint can be resumed if it was created before and is not live, a
bridged one only while the bridge keeps a record of it; with a fault, either
call may fail. History: `owner` (what each endpoint was created for), `seen`
(the endpoints of the last completed registration), `safe` (devices whose ids
were saved and have been resumed without a fault since).

### RegisterMap (and ReadingPath)

`RegisterMap` has the pure functions: `RegisterSpecs` is
`build_register_specs`, `Group`, `Count` and `Picked` are the requests of
`read_group` with their 16-bit count, `AllMappings` and `Updates` are what
`parse_all_mappings` and `on_readings` make of the same document, `HalfPercent`
and `Scaled` are the arithmetic of the setters. The code walks a document
twice, once to know what to poll and once to know where a reading goes. The two
walks share no code, and the model keeps them apart: what they should have in
common is the definition `Intended` of ReadingPath, and the invariants compare.
`Published` says which attributes an endpoint gets: the bridge callback adds the
clusters of the first device type of the root only, and `create_or_resume_part`
those of every type of a part (`Composed`).

`ReadingPath` runs the tasks over a document. The poll task (`pc`) takes a
vector of `readings`, looks the device up in `m_devices` (`iter`: its iterator
is valid), makes the updates (`todo`), each in the steps of `set_raw`: compare,
write the member, post a report to the CHIP queue; or, for a battery's charge,
take the CHIP `lock` and update the attribute store. Where `pc` is "half", one
half of a 64-bit value is written: a report taken then reads `Torn`.
The CHIP task handles an event or reports a `dirty` attribute; subscribers know
`seen`. The HTTP task registers another device, undoes this one's registration,
or resets everything (`ResetLock`, `ResetFree`, `ResetErase`, `ResetKill`,
`ResetPost`); `vTaskDelete` of a poll task that holds the lock leaves it held.

History variables: `lost` (posts that met a full queue; the code only logs
them), `raced` (`m_devices` changed during a callback), `dangling` (something
freed was used), `orphaned` (the lock was taken to the grave). `calm`: the
registers hold still from now on.

What the model shows beside its properties: an input and a holding register
with one address feed each other's attributes; endpoints after the first are
polled and never fed; a sensor with type 0x0018 in the sample document has no
PowerSource cluster; a report lost to a full queue is not made up for while the
register keeps its value, since equal values are skipped; a battery register
above 32767 wraps when it is doubled. The comment at
electrical_sensor_device.h:18 speaks of units of 0.1 W, the code takes watts.

### WebEvents

Time (`now`) passes in ticks, a fraction of a second, and is read by everybody
at a moment of their own. The window: `closes` (when CHIP's timer ends it),
`opening` and `closed` (work queued for the CHIP task), `s_window_open_time_us`,
which a close does not reset and an opening by somebody else does not set. The
lambda of the POST opens the window, then reads the time (`stamp`), then stores
it. The server: `sess` (who is behind each descriptor), `s_ws_fds` (the
slots), `fds` and `dead` (the copy that `web_server_notify_ws_event` walks).
The page: `asked`, `answers`, `shown`. Descriptors are reused: a
number in the table or in the copy may mean another connection by the time it
is used. `Vanish` is a client that leaves without a word, `CloseSession` the
server noticing; slots come back only when a notify finds them dead.

The GET of the pairing state reads the window under the CHIP lock (`GetWindow`)
and the rest without it: `s_window_open_time_us` is a volatile 64-bit integer on
a 32-bit CPU, so it is stored (`StoreHalf`, `StoreRest`) and loaded (`LoadHalf`,
`LoadRest`) as two halves, and loaded twice, once to be tested and once to be
subtracted; `ReadClock` comes before or after the second load. Which half comes
first and when the clock is read is up to the build, and part of `scope`.
`Seconds` divides as the code does, towards zero. A page can then be promised
180 s with 179.5 s left, or more if the answer is delayed:
`CountdownNeverOverpromises` bounds by how much. Halves of two opening times may
promise anything; where this happened (`Torn`) the property says nothing.

History variables: `most` (the most that was left since the GET began), `since`
(when it began), `lag` (how long after the opening its time was read), `stamps`
(all opening times ever noted), and `held`, `due`, `quiet`, `sure` of the
clients. Answers reach the page in any order,
or not at all. `Others` are connections besides the one that is looked at:
other browsers, and the reconnecting loop that a page leaves behind when it is
unmounted, whose `onclose` starts it again.

In `notify`, the test that a descriptor still is a WebSocket and the send to it
are one step. The CLOSE branch of `ws_events_handler` is not modelled: without
`handle_ws_control_frames` it is never reached. No code pushes the
"commissioned" event the page waits for.

## 3. Runs

| run | module / configuration | instance | what it shows |
|---|---|---|---|
| `store` | MCDevicesStore | 3 ids, 1 configuration, a table of 2, one structure that fits and one too long, every fault, a partition that is formatted among them | `TypeOK`; `PublishedIsWhole`: devices.json is never half a file unless a flush failed unnoticed; `OnlyRemovalLosesDevices`: saving one change never costs another device; `ImplementsContract` |
| `store_limit` | MCDevicesStoreLimit | same, 2 configurations, no faults | **violated**: `NeverLosesDevices` (finding 1) |
| `modbus_device` | MCModbusDevice | 1 poll task, both register groups, 2 descriptors, 1 rival, 2 link events, fairness | `NoStaleAnswer`, `NothingAfterDelete`, `PauseTakesHold`, `ReadingsKeepFlowing` |
| `modbus_device_two_tasks` | MCModbusDeviceTwoTasks | 2 poll tasks, 1 register group, 2 descriptors, 1 rival, 2 link events | `TypeOK`, `DescriptorsAccountedFor`, `OwnDescriptorsOnly` |
| `device_manager` | MCDeviceManager | 2 ids, 2 configurations, 2 heap addresses, 2 pollers on an object before a PUT is refused, 2 link events in a boot | nine properties: `ListMatchesHeap`, `SinglePoller`, `NoPollerOutlivesItsDevice`, `EveryDeviceIsPolled`, `EveryEndpointHasADevice`, `ReadingsReachTheirDevice`, `NoDeviceLeftPaused`, `FactoryResetForgets`, `TypeOK` |
| `removed_device` | MCDeviceManagerRemoved | same, no link events | **violated**: `RemovedDevicesStop` (finding 2) |
| `updated_device` | MCDeviceManagerUpdated | same, no link events | **violated**: `UpdatedDevicesFollow` (finding 3) |
| `restored_device` | MCDeviceManagerRestored | same, no link events | **violated**: `RestoredDevicesArePolled` (finding 4) |
| `matter_manager` | MCMatterManager | 2 devices with no or two parts, short or long structures, 4 endpoints, every fault | `TypeOK`, `ReadingsReachTheirEndpoint`, `EndpointsAreListed`, `SavedIdsComeBack` |
| `matter_long_structure` | MCMatterManagerLong | 1 device with one part, no faults | **violated**: `PartIdsStable` (finding 5) |
| `reading_path` | MCReadingPath | 2,883 documents for the functions; a solar inverter and a battery for the tasks; 2 register values, an event queue of 2, one request before the reset, fairness | `SpecsAreExact`, `RequestsFit`, `RoutingIsExact`, `ChargeIsBounded`; `NoUseAfterFree`, `ResetIsUnblocked`, `StoreAgrees`, `SubscribersCatchUp`, `ResetReboots`, `TypeOK` |
| `web_events` | MCWebEvents | the page and one other client, 2 descriptors, 2 slots; a window of 1 s (2 ticks) opened twice, and a clock of 5 values where nobody is connected; both orders of clock and load; fairness | `RegistrationsSurvive`, `RegisteredClientsAreTold`, `SlotsComeBack`, `CountdownNeverOverpromises`, `ClosedWindowIsShownClosed`, `TypeOK` |

### Bounds, and why they are enough

* Three ids for a table of two: the limit is reached, an add is refused with an
  id to spare, and two devices are left to be harmed by an edit of the third.
  `Weight` and `ReadLimit` put two devices with structures over the limit and
  all smaller tables under it.
* Two descriptors: one can be closed, given to the rival and closed again by
  the device; with one, the rival could only take turns. Two link events: a
  pause and a resume in one request.
* Two heap addresses and two ids: a PUT puts two objects under one id, or two
  devices live at once. The bound on `pollers` is in the guard of `Put` only:
  it is where a second task comes from.
* Two parts: the first can fail and the second succeed, which is what shifts
  indexes. Four endpoints: a device with parts, and a fourth for a part that is
  recreated, a second registration or a second device. When they are used up, a
  registration can only fail or be cut by a restart.
* Documents with up to two endpoints, one or two mappings on the first, parts
  with and without mappings, and a function that is missing: every case the two
  walks distinguish. Addresses 0, 124, 125 and 65535: a group of exactly the
  limit, one above it, and a count that wraps to 0. The tasks run on two of
  them (`Explored`), one for each kind of attribute.
* Two register values: equal and changed. A queue of two: it can be full when
  the reset posts its own event, and when it does not.
* Two slots, two descriptors, two clients: a dead slot before a live one, a
  descriptor that was cleared and reused, a full table. The window ends early,
  on time, or late, when the CHIP task comes to it; windows that somebody else
  opens for longer (`Longest`) are left to the proof. Two openings: an answer
  of the first is late for the second. A second of two ticks: a half second is
  rounded away. `Word` is 3: the opening times 2 and 3 differ in both halves.
  Time passes (to 4) in behaviours without WebSockets, where the page fetches;
  where clients connect it stands still, and an open window never runs out of
  itself, which is the hard case for `ClosedWindowIsShownClosed`. The bound of
  the countdown is tight: without the rounding, either delay, or the exception
  for torn halves, TLC refutes it. `NoOverpromise` has no such bounds: any
  clock, any order of the halves, with clients or without.
* Symmetry is used on model values only, and in no run with a liveness
  property.
* Deadlock is not checked in the two runs of ModbusDevice: after the destructor
  the modelled device really has stopped.

### Fairness

`FairSpec` of ModbusDevice assumes weak fairness of each poll task as a whole,
and of a `close_socket` under way in the event loop or the HTTP task. FreeRTOS
runs every ready task, and each call the poll task makes is bounded: the
connect by a 3 s `select`, sends and receives by 3 s socket timeouts
(modbus_device.cpp:177-218), the delay by `vTaskDelay`. Nothing is assumed of
link events, deletion, or the network until `calm`; under `calm` a free
descriptor is found, the server accepts and answers.

`Fairness` of ReadingPath is weak for the poll and HTTP tasks and strong for
whatever needs the CHIP stack lock (`TakeLock`, `ChipEvent`, `Report`): the
lock is a FreeRTOS mutex with a queue of waiting tasks, so nobody is passed
over for ever. Registers, requests and the reset itself are not fair. WebEvents
has the same for `GetWindow`, weak fairness of the CHIP task's work
(`LambdaStep`, `NotifyStep`), of the steps of a GET (`GetStep`), and of an answer
under way (it arrives or is lost). Clients, time, the closing of the window and
the page's own countdown are not fair: `ClosedWindowIsShownClosed` does not hold
because time runs out.

`ReadingsKeepFlowing` says that a task which from some time on is `Healthy`
delivers again and again, whatever came before. `PauseTakesHold` needs no calm:
a pause that lasts stops the traffic even while everything fails.

### Findings

1. A devices.json of more than 16384 bytes is ignored by `load_from_disk`
   (devices_store.cpp:72), while `persist` writes any size; 32 devices with
   structures of up to 2047 bytes are allowed. After a restart the table is
   empty, and the next save overwrites the file. `FilesThatFitAreKept` (section
   4) says which limits would do: `DEVICES_MAX` times the longest entry within
   the limit of the file.
2. `devices_delete_handler` edits the store only; the device keeps being polled
   and bridged until the next restart (web_server.cpp:338, and the comment at 349).
3. `update_device` (device_manager.cpp:120) registers the id a second time: the
   old configuration goes on being polled, now by two tasks, the new one never is.
4. An IPv4 address that is handled before the restore loop has ended leaves the
   restored devices unpolled for good (main.cpp:107: `mdns_registered`).
5. `write_all_endpoint_ids` cuts a structure that has no room for the ids and
   reports success (matter_manager.cpp:168); after a restart the device has a
   new root endpoint and no parts.

## 4. Proofs

| theorem | module | states |
|---|---|---|
| `TypeCorrect` | DevicesStoreProofs | `Spec => []TypeOK`, the table's limit included |
| `FileIsWhole` | DevicesStoreProofs | `Spec => []PublishedIsWhole` |
| `OnlyRemovalLoses` | DevicesStoreProofs | `Spec => OnlyRemovalLosesDevices` |
| `StoreImplementsContract` | DevicesStoreProofs | `Spec => ImplementsContract` |
| `FilesThatFitAreKept` | DevicesStoreProofs | `RoomForAll => (Spec => NeverLosesDevices /\ Contract!Spec)`, a criterion for the constants |
| `TypeCorrect` | ModbusDeviceProofs | `Spec => []TypeOK` |
| `NoDescriptorLost` | ModbusDeviceProofs | `Spec => []DescriptorsAccountedFor` |
| `OwnDescriptors` | ModbusDeviceProofs | `Spec => []OwnDescriptorsOnly` |
| `AnswersMatch` | ModbusDeviceProofs | `Spec => []NoStaleAnswer` |
| `NothingIsLeft` | ModbusDeviceProofs | `Spec => []NothingAfterDelete` |
| `TypeCorrect` | DeviceManagerProofs | `Spec => []TypeOK` |
| `NoObjectForgotten` | DeviceManagerProofs | `Spec => []ListMatchesHeap` |
| `OnePollerEach` | DeviceManagerProofs | `Spec => []SinglePoller` |
| `NoPollerLeft` | DeviceManagerProofs | `Spec => []NoPollerOutlivesItsDevice` |
| `NobodyForgotten` | DeviceManagerProofs | `Spec => []EveryDeviceIsPolled` |
| `EndpointsAreFed` | DeviceManagerProofs | `Spec => []EveryEndpointHasADevice` |
| `ReadingsAreRouted` | DeviceManagerProofs | `Spec => []ReadingsReachTheirDevice` |
| `EveryoneResumes` | DeviceManagerProofs | `Spec => []NoDeviceLeftPaused` |
| `ResetForgets` | DeviceManagerProofs | `Spec => FactoryResetForgets` |
| `TypeCorrect` | MatterManagerProofs | `Spec => []TypeOK` |
| `ReadingsAreRouted` | MatterManagerProofs | `Spec => []ReadingsReachTheirEndpoint` |
| `NoEndpointAstray` | MatterManagerProofs | `Spec => []EndpointsAreListed` |
| `EndpointsComeBack` | MatterManagerProofs | `Spec => SavedIdsComeBack` |
| `SpecsFollowDocument` | RegisterMapProofs | `RegisterSpecs(doc)`: the register of each mapping with a function, each once, nothing else |
| `MappingsFollowDocument` | RegisterMapProofs | `AllMappings(doc)`: the mappings of the first endpoint and its parts, each with the index of its node |
| `UpdatesFollowReadings` | RegisterMapProofs | `Updates`: a reading meets exactly the mappings of its address that the device takes |
| `GroupsFit`, `ChargeIsLimited` | ReadingPathProofs | the arithmetic of a request's count and of the charge, for every address and register value |
| `ValuesFollowRegisters` | ReadingPathProofs | what a cycle reads of a group: each of its registers with its value, or nothing |
| `TypesHold` | ReadingPathProofs | `Spec => []TypeOK` |
| `PolledRegistersAreExact` | ReadingPathProofs | `Spec => []SpecsAreExact` |
| `RequestsFitAnswers` | ReadingPathProofs | `Spec => []RequestsFit` |
| `RoutingAgrees` | ReadingPathProofs | `Spec => []RoutingIsExact` |
| `ChargeStaysBounded` | ReadingPathProofs | `Spec => []ChargeIsBounded` |
| `DevicesOutliveCallbacks` | ReadingPathProofs | `Spec => []NoUseAfterFree` |
| `StoreStaysInStep` | ReadingPathProofs | `Spec => []StoreAgrees` |
| `ResetFindsTheWayClear` | ReadingPathProofs | `Spec => []ResetIsUnblocked` |
| `TypeCorrect` | WebEventsProofs | `Spec => []TypeOK` |
| `RegistrationsAreKept` | WebEventsProofs | `Spec => []RegistrationsSurvive` |
| `EveryoneIsTold` | WebEventsProofs | `Spec => []RegisteredClientsAreTold` |
| `DeadSlotsComeBack` | WebEventsProofs | `Spec => SlotsComeBack` |
| `NoOverpromise` | WebEventsProofs | `Spec => CountdownNeverOverpromises` |

They hold for any sets of ids, configurations, documents, objects, tasks,
clients and descriptors and for any bounds and any set of faults, under the
named assumptions of the modules (`StoreAssumptions`, `DeviceAssumptions`,
`ManagerAssumptions`, `MatterAssumptions`, `RegisterAssumptions`,
`PathAssumptions`, `WebAssumptions`): finite ids, special values distinct from
ordinary ones, bounds that are natural numbers, documents made of endpoints,
parts and mappings (`Document`, any number of each), an even number of register
values, and a request limit below the number of addresses (125 against 65536).
TLC evaluates each of them in the runs. With these theorems every invariant of
the passing runs is proved. Each says what its property says, with the
exceptions that the property names and section 2 explains; they are not
promises without them.

**Store.** The inductive invariant is `IInv`. `TypeOK` alone is not inductive:
the limit must hold for every copy of the table, since rollback and boot copy
them back (`Bounded`). `PublishedIsWhole` needs to know that the temporary file
is complete at the rename (`TextCurrent`). `OnlyRemovalLosesDevices` needs that
the file holds no device which memory lost other than by request (`InSync`),
also while a call is under way. The refinement needs that the table and its
copy differ by exactly the edit of the call (`EditMatchesCall`), so that the
one step at which `persist` ends maps to `Commit`, `LoseSync` or a stutter, and
that nothing is written without a mount (`PowerState`). A start-up that formats maps
to `Wiped`.

`FilesThatFitAreKept` is about the constants. `RoomForAll` says that no fault
of reading, flushing or mounting that ends in a format is in `Faults` and that `DEVICES_MAX` times the longest
entry is within `ReadLimit`; then no history marks the store as `lossy`
(`NeverLossy`), so that the exceptions of `OnlyRemovalLosesDevices` and of the
contract fall away. The code's own limits do not meet it: that is finding 1.
`FileSizeBound` bounds the fold over a table by induction over its size.

**Device.** The invariant is `Shape /\ Discipline`. While two actors have never
met inside the connection code, at most one of them is in it (`Alone`); what it
has read of `m_sock` therefore still holds when it acts: a pending connect is
the only road to a connection (`Pending`), and `m_sock` is an open descriptor
of the device except between `close` and `clear` (`Connection`). With that,
closing never hits another's descriptor and nothing the device opened is lost
(`Accounted`). None of it survives an overlap, and the model has executions
in which it is lost, which is why the properties are conditional.

`NoStaleAnswer` and `NothingAfterDelete` are about an object whose
`start_polling` was called once (`Solo`). `Lonely` says of that one task that
`m_poll_task` names it until the destructor has ended it, and that at every
step where it may send, each answer of the connection has been read: whatever
fails closes the connection before anything else is sent.

**Managers.** The lists are sequences, and the invariant speaks of their ranges;
the lemmas about `Append`, `Tail` and the removal of one place carry it through
each loop. `Control` ties the program counters to the lists they work on.
`ReadingsReachTheirDevice` and `SinglePoller` are about ids, so `Named` says
which objects may have one: one only, unless a PUT registered it again. Their
exceptions are part of the properties; `Counted` and `Begun` say, for everybody
else, who polls the device or is about to: the loop of the CHIP task still has
it before it, or the registration under way will start it, never both; `Begun`
follows an id rather than an object, since after a PUT one object is polled for
both. `Rested`
is the same for the loops of the link events. `Fed` must look past a rollback
in the middle: the endpoint is kept only if another object has its id; with
`Begun` that object, or another one with the id, is polled.

**Endpoints.** `Shape` fixes the alignment of ids, parts and mappings. `Owned`:
every id in the store, in the file, in a listed device or in the registration
under way was given out for its device and part, and no id is given out twice.
`Accounted`: a live endpoint is listed for one device or belongs to the
registration under way, and not both (`EndpointsAreListed` at every step, not
only between registrations).
`Recoverable` is what `SavedIdsComeBack` needs across a restart: the ids on
flash of a device in `safe` are those its last registration ended with, and the
registration under way takes the same ones, or new ones only where none was
saved.

**Register map.** Each loop over a document is a `FlattenSeq` in the model, and
`FlattenSeq` is defined by a recursive function over the prefixes of its
argument. `PrefixesExist` shows that there is such a function, `PrefixSteps`
what it does from one prefix to the next, and `Flattened` and `FlattenedOnce`,
by induction, what the whole is: a sequence whose elements are those of the
parts, without repetition when the parts have none and share none. `Selected`
is the case of a loop that keeps some elements. The library's induction
theorems take a predicate as a parameter, which the provers here cannot
instantiate; `SetInduction` of the module Induction states it for a set of
numbers, a first-order statement, and gets it from the well-founded order on
`Nat`. The theorems then follow the code: the nodes of the walk
(`WithPartsNodes`, `WalkedNodes`), one node (`CollectedSpecs`,
`EntriesOfNode`), removal of duplicates (`DistinctSpecs`), the whole.

**Readings.** `Fixed`: what was parsed at the start stays. `SpecsAreExact`,
`RequestsFit` and `RoutingIsExact` follow from it and from the theorems about
the register map, without a look at the steps. `RoutingAgrees` puts the two walks side by side
(`FeedsElements`, `IntendedElements`) and compares them for a document whose
registers differ by address; without that condition the claim is false, which
the invariant states openly.

`Guarded`: between the look-up and the end of a callback the entry
stays listed and the iterator valid unless the callback is marked `raced`; the
erasing step of a reset can meet a callback only if it is. `Mirror`: a charge
is stored under the lock right after its member is written, and no other task
writes either. `Typed` adds to `TypeOK` that the jobs of a callback are
attributes of this device with 16-bit values, that each step inside a job has
one, and that whatever was stored as a charge was limited to 200 half-percents.
`Released` says who may hold the CHIP lock at which step, that a reset which
waits has ended the poll task, and that its event is queued until it is handled
or was lost; `ResetFindsTheWayClear` is the safety half of `ResetReboots`, the
other half being the fairness of the CHIP task.

**Events.** `SlotInv`: what a notify has still to visit is still in its slot,
because slots are filled only when empty and emptied only by the notify.
`ClientInv`: a client that took a slot has one that the clearing under way
spares, even if the number it clears now means this client: only the first slot
with that number is cleared, and the client's own comes after it; and each
client that is still to be told is in the rest of the walk. `WindowInv`: no
opening time ever noted is later than the window that is open, but for `lag`;
and none that the GET under way may load is later than what `most` and `since`
allow, unless the window was opened anew meanwhile, and then `most` is a whole
window. The answer follows by the arithmetic of `Seconds`.

Only model-checked: the liveness properties (fairness and `ENABLED` are beyond
the prover), namely `PauseTakesHold`, `ReadingsKeepFlowing`,
`SubscribersCatchUp`, `ResetReboots` and `ClosedWindowIsShownClosed`. The
properties of the violation runs are refuted by TLC and have no theorem; of
`NeverLosesDevices`, `FilesThatFitAreKept` gives the limits under which it holds.

## 5. Not modelled, and why

* MBAP headers, JSON text, HTTP framing, the accuracy tables of the clusters:
  data that the modelled control does not depend on.
* In DeviceManager a Matter device is an id and a configuration; its endpoints
  are in MatterManager and its attributes in ReadingPath, not in one model: the
  product of the three is out of TLC's reach, and they meet only in the calls
  each of them has.
* `MatterManager::on_device_removed` and `DeviceManager::remove_device`: the
  only call that would reach them is commented out (web_server.cpp:349).
* `test_connection` and `read_registers`: an object of their own, local to the
  HTTP task, without a poll task.
* Handlers of the web server that only read; of the web application, everything
  but the commissioning page: forms over the API, whose requests are the
  models' inputs.
* Ethernet set-up, discovery tool, scratch script: no state shared with the
  above; the link events are the models' inputs.
* Memory exhaustion, and what a task does after it has used freed memory.

### What the exceptions leave open

Some hazards are modelled and do occur, so the properties have to except them,
and the runs then show only that nothing else goes wrong. `PROJECT.json` says so
in the notes of the hazards; in one place:

* a flush that fails unnoticed (`lossy`), and a partition that is formatted;
* a pause that meets a request, or two poll tasks in the connection code
  (`overlap`), and what `ReadingsKeepFlowing` could say after it;
* the descriptor of a connect during which the task was deleted (`LeftOpening`);
* loops over `m_devices` while it changes (`racy`, `raced`);
* a second poll task for a device added early or registered by a PUT (`early`,
  `put`), and a device without one after a failed PUT (`rolled`);
* the poll task deleted while it holds the CHIP lock (`orphaned`);
* two registers with one address, and a last report that met a full queue;
* a client that found no free slot, and a vanished client to which sending
  still succeeds;
* an opening time put together from two others (`Torn`);
* the bridged endpoint that a restart leaves in esp-matter's records.

Two more hazards have no property: a failed POST leaves its device in the store
(nothing says it should not); a device created while the link is down starts
unpaused (it costs failed connects only).

## 6. Plan

Everything planned for this directory is done: the store, the device, the two
managers, the register map, the way of a reading, the factory reset, the web
events, and the theorems about them. What could follow: an abstract registry of
devices that DeviceManager implements once the update and delete handlers are
repaired (findings 2 and 3 rule out a useful one today).

## 7. Running

    tlc -config MCDevicesStore.cfg MCDevicesStore
    tlc -config MCModbusDevice.cfg MCModbusDevice
    tlc -config MCModbusDeviceTwoTasks.cfg MCModbusDevice
    tlc -config MCDeviceManager.cfg MCDeviceManager
    tlc -config MCMatterManager.cfg MCMatterManager
    tlc -config MCReadingPath.cfg MCReadingPath
    tlc -config MCWebEvents.cfg MCWebEvents
    tlapm Induction.tla
    tlapm DevicesStoreProofs.tla
    tlapm ModbusDeviceProofs.tla
    tlapm DeviceManagerProofs.tla
    tlapm MatterManagerProofs.tla
    tlapm RegisterMapProofs.tla
    tlapm ReadingPathProofs.tla
    tlapm WebEventsProofs.tla

`PROJECT.json` maps every definition to the lines it models, and names, for
every property, a plausible change of the code that the property detects.
