--------------------------- MODULE DeviceManager ---------------------------
(***************************************************************************)
(* The life of a configured device across the managers that keep a part of *)
(* it: the store, ModbusManager's list of polled devices and               *)
(* MatterManager's list of bridged devices, tied together by               *)
(* src/firmware/main/device_manager.cpp and by the handlers of             *)
(* web_server.cpp.                                                         *)
(*                                                                         *)
(* Four tasks work on these lists and no lock protects them: main restores *)
(* the stored devices, the CHIP task starts the pollers when the first     *)
(* IPv4 address arrives, the event loop pauses and resumes on link events, *)
(* and the HTTP server task serves one request at a time.                  *)
(*                                                                         *)
(* The store is one variable here: an edit that cannot be saved is the     *)
(* subject of DevicesStore, what a poller does on its connection that of   *)
(* ModbusDevice.                                                           *)
(***************************************************************************)
EXTENDS Naturals, Sequences, SequencesExt

CONSTANTS
  Ids,            \* device ids
  Configs,        \* what a device is configured to: host, port, structure
  Objs,           \* the heap: addresses of ModbusDevice objects
  None,
  MaxPollers,     \* bound on the poll tasks of one object
  MaxLinkEvents   \* bound on the Ethernet link events of one boot

Device == [id : Ids, cfg : Configs]

ASSUME ManagerAssumptions ==
  /\ None \notin Objs \cup Configs \cup Ids \cup Device
  /\ MaxPollers \in Nat
  /\ MaxLinkEvents \in Nat

VARIABLES
  store,        \* the device table, by id
  modbus,       \* ModbusManager::m_devices
  matter,       \* MatterManager::m_devices
  obj,          \* the object at each address, or None
  paused,       \* per object: m_paused
  handle,       \* per object: m_poll_task is set
  pollers,      \* per address: poll tasks that run on it
  pc,           \* where main, chip, event and http are
  boot,         \* main: the stored ids that are still to be restored
  request,      \* main, http: the device being registered
  todo,         \* chip, event: what is left of the loop over m_devices
  link,         \* the Ethernet link is up
  links,        \* number of link events of this boot
  mdns_registered,
  put,          \* history: ids a PUT has re-registered since start-up
  rolled,       \* history: ids left with an object when a rollback deleted another
  early,        \* history: objects the API added before polling was started
  missed,       \* history: polling was started before the restore had ended
  racy          \* history: m_devices changed under a loop of another task

lists == <<modbus, matter>>
objects == <<obj, paused, handle, pollers>>
net == <<link, links, mdns_registered>>
history == <<put, rolled, early, missed, racy>>
vars == <<store, lists, objects, pc, boot, request, todo, net, history>>

Goto(a, p) == pc' = [pc EXCEPT ![a] = p]

NoObject == [o \in Objs |-> None]
NotOne == [o \in Objs |-> FALSE]
NoPoller == [o \in Objs |-> 0]
AtReset == [main |-> "init", chip |-> "idle", event |-> "off", http |-> "off"]
NoRequest == [main |-> None, http |-> None]
NoLoop == [chip |-> <<>>, event |-> <<>>]

Init ==
  /\ store = [i \in Ids |-> None]
  /\ modbus = <<>>
  /\ matter = <<>>
  /\ obj = NoObject
  /\ paused = NotOne
  /\ handle = NotOne
  /\ pollers = NoPoller
  /\ pc = AtReset
  /\ boot = {}
  /\ request = NoRequest
  /\ todo = NoLoop
  /\ link = TRUE
  /\ links = 0
  /\ mdns_registered = FALSE
  /\ put = {}
  /\ rolled = {}
  /\ early = {}
  /\ missed = FALSE
  /\ racy = FALSE

-----------------------------------------------------------------------------
(* ModbusManager and MatterManager.                                        *)

Stored == {i \in Ids : store[i] # None}
HasId(o, i) == obj[o] # None /\ obj[o].id = i

\* find and on_device_removed: the first object with the id.
With(i) == {n \in DOMAIN modbus : HasId(modbus[n], i)}
Place(i) == CHOOSE n \in With(i) : \A k \in With(i) : n <= k
First(i) == modbus[Place(i)]

\* m_devices changes: does a range-for of another task still walk it?
ListChanges ==
  racy' = (racy \/ pc["chip"] = "starting" \/ pc["event"] \in {"pausing", "resuming"})

\* on_device_added: a new object, not paused whatever the link is.
CreateModbus(o, d) ==
  /\ obj[o] = None /\ pollers[o] = 0
  /\ obj' = [obj EXCEPT ![o] = d]
  /\ paused' = [paused EXCEPT ![o] = FALSE]
  /\ handle' = [handle EXCEPT ![o] = FALSE]
  /\ modbus' = Append(modbus, o)
  /\ ListChanges
  /\ UNCHANGED pollers

\* Mutants of Delete: the destructor does not test the task handle; it never
\* ends the task; the pointer stays in the list.
DeleteUnchecked(gone, rest) ==
  /\ obj' = [o \in Objs |-> IF o \in gone THEN None ELSE obj[o]]
  /\ pollers' = [o \in Objs |-> IF o \in gone THEN pollers[o] - 1 ELSE pollers[o]]
  /\ modbus' = rest
  /\ ListChanges
  /\ UNCHANGED <<paused, handle>>

DeleteKeepsTask(gone, rest) ==
  /\ obj' = [o \in Objs |-> IF o \in gone THEN None ELSE obj[o]]
  /\ modbus' = rest
  /\ ListChanges
  /\ UNCHANGED <<paused, handle, pollers>>

DeleteKeepsPointer(gone, rest) ==
  /\ obj' = [o \in Objs |-> IF o \in gone THEN None ELSE obj[o]]
  /\ pollers' = [o \in Objs |->
       IF o \in gone /\ handle[o] THEN pollers[o] - 1 ELSE pollers[o]]
  /\ ListChanges
  /\ UNCHANGED <<paused, handle, modbus>>

\* delete, the pointers in rest stay: the destructor ends the one task that
\* m_poll_task names.
Delete(gone, rest) ==
  /\ obj' = [o \in Objs |-> IF o \in gone THEN None ELSE obj[o]]
  /\ pollers' = [o \in Objs |->
       IF o \in gone /\ handle[o] THEN pollers[o] - 1 ELSE pollers[o]]
  /\ paused' = [o \in Objs |-> o \notin gone /\ paused[o]]
  /\ handle' = [o \in Objs |-> o \notin gone /\ handle[o]]
  /\ modbus' = rest
  /\ ListChanges

\* ModbusDevice::start_polling: one more task, m_poll_task overwritten.
Start(o) ==
  /\ pollers' = [pollers EXCEPT ![o] = @ + 1]
  /\ handle' = [handle EXCEPT ![o] = TRUE]
  /\ UNCHANGED <<obj, paused>>

\* create_matter_device works under the CHIP stack lock, which the CHIP task
\* holds while it handles an event.
ChipLockFree == pc["chip"] = "idle"

-----------------------------------------------------------------------------
(* main: DeviceManager::init, then the web server starts.                  *)

\* ModbusManager::init registers the link handler, MatterManager::init loads
\* the table.
InitManagers ==
  /\ pc["main"] = "init"
  /\ boot' = Stored
  /\ pc' = [pc EXCEPT !["main"] = "restore", !["event"] = "idle"]
  /\ UNCHANGED <<store, lists, objects, request, todo, net, history>>

RestoreModbus(i) ==
  /\ pc["main"] = "restore"
  /\ i \in boot
  /\ boot' = boot \ {i}
  /\ LET d == [id |-> i, cfg |-> store[i]]
     IN  /\ \E o \in Objs : CreateModbus(o, d)
         /\ request' = [request EXCEPT !["main"] = d]
  /\ Goto("main", "matter")
  /\ UNCHANGED <<store, matter, todo, net, put, rolled, early, missed>>

\* The result of MatterManager::on_device_added is not looked at.
RestoreMatter ==
  /\ pc["main"] = "matter"
  /\ ChipLockFree
  /\ matter' \in {Append(matter, request["main"]), matter}
  /\ request' = [request EXCEPT !["main"] = None]
  /\ Goto("main", "restore")
  /\ UNCHANGED <<store, modbus, objects, boot, todo, net, history>>

StartWebServer ==
  /\ pc["main"] = "restore"
  /\ boot = {}
  /\ pc' = [pc EXCEPT !["main"] = "done", !["http"] = "idle"]
  /\ UNCHANGED <<store, lists, objects, boot, request, todo, net, history>>

-----------------------------------------------------------------------------
(* CHIP task: app_event_cb on kInterfaceIpAddressChanged.                  *)

\* Mutant: the event does not look at mdns_registered.
StartAtEveryAddress ==
  /\ pc["chip"] = "idle"
  /\ mdns_registered' = TRUE
  /\ todo' = [todo EXCEPT !["chip"] = modbus]
  /\ missed' = (pc["main"] # "done")
  /\ Goto("chip", "starting")
  /\ UNCHANGED <<store, lists, objects, boot, request, link, links, put, rolled, early, racy>>

\* The first event that finds an IPv4 address and registers mDNS is the only
\* one that ever starts the pollers; the others return early.
IpAddressChanged ==
  /\ pc["chip"] = "idle"
  /\ ~mdns_registered
  /\ mdns_registered' = TRUE
  /\ todo' = [todo EXCEPT !["chip"] = modbus]
  /\ missed' = (pc["main"] # "done")
  /\ Goto("chip", "starting")
  /\ UNCHANGED <<store, lists, objects, boot, request, link, links, put, rolled, early, racy>>

StartNext ==
  /\ pc["chip"] = "starting"
  /\ todo["chip"] # <<>>
  /\ Start(Head(todo["chip"]))
  /\ todo' = [todo EXCEPT !["chip"] = Tail(@)]
  /\ UNCHANGED <<store, lists, pc, boot, request, net, history>>

AllStarted ==
  /\ pc["chip"] = "starting"
  /\ todo["chip"] = <<>>
  /\ Goto("chip", "idle")
  /\ UNCHANGED <<store, lists, objects, boot, request, todo, net, history>>

-----------------------------------------------------------------------------
(* Event loop: eth_event_handler.                                          *)

LinkChanges(up) ==
  /\ pc["event"] = "idle"
  /\ links < MaxLinkEvents
  /\ link = ~up
  /\ link' = up
  /\ links' = links + 1
  /\ todo' = [todo EXCEPT !["event"] = modbus]
  /\ Goto("event", IF up THEN "resuming" ELSE "pausing")
  /\ UNCHANGED <<store, lists, objects, boot, request, mdns_registered, history>>

\* Mutant: both events pause.
PauseOnly ==
  /\ pc["event"] \in {"pausing", "resuming"}
  /\ todo["event"] # <<>>
  /\ paused' = [paused EXCEPT ![Head(todo["event"])] = TRUE]
  /\ todo' = [todo EXCEPT !["event"] = Tail(@)]
  /\ UNCHANGED <<store, lists, obj, handle, pollers, pc, boot, request, net, history>>

\* pause_all and resume_all, one object at a time.
PauseNext ==
  /\ pc["event"] \in {"pausing", "resuming"}
  /\ todo["event"] # <<>>
  /\ paused' = [paused EXCEPT ![Head(todo["event"])] = (pc["event"] = "pausing")]
  /\ todo' = [todo EXCEPT !["event"] = Tail(@)]
  /\ UNCHANGED <<store, lists, obj, handle, pollers, pc, boot, request, net, history>>

AllPaused ==
  /\ pc["event"] \in {"pausing", "resuming"}
  /\ todo["event"] = <<>>
  /\ Goto("event", "idle")
  /\ UNCHANGED <<store, lists, objects, boot, request, todo, net, history>>

-----------------------------------------------------------------------------
(* HTTP server task.                                                       *)

Free(o) == obj[o] = None /\ pollers[o] = 0

\* Mutant: the id of a deleted device is given out again.
FreshInStore(i) == i \notin Stored

\* An id that generate_id has not drawn before.
Fresh(i) == /\ i \notin Stored
            /\ \A o \in Objs : ~HasId(o, i)
            /\ \A m \in Range(matter) : m.id # i

\* add_device and update_device: the store first, then register_device.
Register(i, cfg) ==
  /\ pc["http"] = "idle"
  /\ \E o \in Objs : Free(o)
  /\ store' = [store EXCEPT ![i] = cfg]
  /\ request' = [request EXCEPT !["http"] = [id |-> i, cfg |-> cfg]]
  /\ Goto("http", "modbus")
  /\ UNCHANGED <<lists, objects, boot, todo, net, rolled, early, missed, racy>>

Post(i, cfg) ==
  /\ Fresh(i)
  /\ Register(i, cfg)
  /\ UNCHANGED put

\* update_device registers a second time: nothing unregisters the first.
Put(i, cfg) ==
  /\ i \in Stored
  /\ \A o \in Objs : pollers[o] < MaxPollers
  /\ Register(i, cfg)
  /\ put' = put \cup {i}

RegisterModbus(o) ==
  /\ pc["http"] = "modbus"
  /\ CreateModbus(o, request["http"])
  /\ early' = IF mdns_registered THEN early \ {o} ELSE early \cup {o}
  /\ Goto("http", "matter")
  /\ UNCHANGED <<store, matter, boot, request, todo, net, put, rolled, missed>>

RegisterMatter ==
  /\ pc["http"] = "matter"
  /\ ChipLockFree
  /\ \/ matter' = Append(matter, request["http"]) /\ Goto("http", "start")
     \/ UNCHANGED matter /\ Goto("http", "rollback")
  /\ UNCHANGED <<store, modbus, objects, boot, request, todo, net, history>>

Respond ==
  /\ request' = [request EXCEPT !["http"] = None]
  /\ Goto("http", "idle")

\* Mutant: the registered device is not started.
RegisteredNotStarted ==
  /\ pc["http"] = "start"
  /\ Respond
  /\ UNCHANGED <<store, lists, objects, boot, todo, net, history>>

StartRegistered ==
  /\ pc["http"] = "start"
  /\ Start(First(request["http"].id))
  /\ Respond
  /\ UNCHANGED <<store, lists, boot, todo, net, history>>

\* Mutant: the rollback removes every object with the id.
RollBackAll ==
  /\ pc["http"] = "rollback"
  /\ LET gone == {o \in Range(modbus) : HasId(o, request["http"].id)}
     IN  Delete(gone, SelectSeq(modbus, LAMBDA o : o \notin gone))
  /\ Respond
  /\ UNCHANGED <<store, matter, boot, todo, net, put, rolled, early, missed>>

\* on_device_removed; the store keeps the device.
RollBack ==
  /\ pc["http"] = "rollback"
  /\ LET i == request["http"].id
     IN  /\ Delete({First(i)}, RemoveAt(modbus, Place(i)))
         /\ rolled' = IF \E o \in Objs : HasId(o, i) /\ o # First(i)
                      THEN rolled \cup {i} ELSE rolled
  /\ Respond
  /\ UNCHANGED <<store, matter, boot, todo, net, put, early, missed>>

\* devices_delete_handler only edits the store.
DeleteDevice(i) ==
  /\ pc["http"] = "idle"
  /\ i \in Stored
  /\ store' = [store EXCEPT ![i] = None]
  /\ UNCHANGED <<lists, objects, pc, boot, request, todo, net, history>>

\* Mutant: the reset does not clear the Matter side.
ResetWithoutMatter ==
  /\ pc["http"] = "idle"
  /\ Goto("http", "clear modbus")
  /\ UNCHANGED <<store, lists, objects, boot, request, todo, net, history>>

\* factory_reset_handler: DeviceManager::clear, part by part.
FactoryReset ==
  /\ pc["http"] = "idle"
  /\ Goto("http", "clear matter")
  /\ UNCHANGED <<store, lists, objects, boot, request, todo, net, history>>

ClearMatter ==
  /\ pc["http"] = "clear matter"
  /\ ChipLockFree
  /\ matter' = <<>>
  /\ Goto("http", "clear modbus")
  /\ UNCHANGED <<store, modbus, objects, boot, request, todo, net, history>>

ClearModbus ==
  /\ pc["http"] = "clear modbus"
  /\ Delete(Range(modbus), <<>>)
  /\ Goto("http", "clear store")
  /\ UNCHANGED <<store, matter, boot, request, todo, net, put, rolled, early, missed>>

ClearStore ==
  /\ pc["http"] = "clear store"
  /\ store' = [i \in Ids |-> None]
  /\ Goto("http", "idle")
  /\ UNCHANGED <<lists, objects, boot, request, todo, net, history>>

-----------------------------------------------------------------------------
\* A reset or a power cut, at any point: only the store comes back.
Restart ==
  /\ pc["main"] # "init"
  /\ modbus' = <<>>
  /\ matter' = <<>>
  /\ obj' = NoObject
  /\ paused' = NotOne
  /\ handle' = NotOne
  /\ pollers' = NoPoller
  /\ pc' = AtReset
  /\ boot' = {}
  /\ request' = NoRequest
  /\ todo' = NoLoop
  /\ link' = TRUE
  /\ links' = 0
  /\ mdns_registered' = FALSE
  /\ put' = {}
  /\ rolled' = {}
  /\ early' = {}
  /\ missed' = FALSE
  /\ racy' = FALSE
  /\ UNCHANGED store

Next ==
  \/ InitManagers
  \/ \E i \in Ids : RestoreModbus(i)
  \/ RestoreMatter
  \/ StartWebServer
  \/ IpAddressChanged
  \/ StartNext
  \/ AllStarted
  \/ \E up \in BOOLEAN : LinkChanges(up)
  \/ PauseNext
  \/ AllPaused
  \/ \E i \in Ids, cfg \in Configs : Post(i, cfg) \/ Put(i, cfg)
  \/ \E o \in Objs : RegisterModbus(o)
  \/ RegisterMatter
  \/ StartRegistered
  \/ RollBack
  \/ \E i \in Ids : DeleteDevice(i)
  \/ FactoryReset
  \/ ClearMatter
  \/ ClearModbus
  \/ ClearStore
  \/ Restart

Spec == Init /\ [][Next]_vars

-----------------------------------------------------------------------------
(* Correctness.                                                            *)

Quiet == pc["main"] = "done" /\ pc["http"] = "idle" /\ pc["chip"] = "idle"

TypeOK ==
  /\ store \in [Ids -> Configs \cup {None}]
  /\ modbus \in Seq(Objs)
  /\ matter \in Seq(Device)
  /\ obj \in [Objs -> Device \cup {None}]
  /\ {paused, handle} \subseteq [Objs -> BOOLEAN]
  /\ pollers \in [Objs -> Nat]
  /\ pc["main"] \in {"init", "restore", "matter", "done"}
  /\ pc["chip"] \in {"idle", "starting"}
  /\ pc["event"] \in {"off", "idle", "pausing", "resuming"}
  /\ pc["http"] \in {"off", "idle", "modbus", "matter", "start", "rollback",
                     "clear matter", "clear modbus", "clear store"}
  /\ boot \subseteq Ids
  /\ request \in [{"main", "http"} -> Device \cup {None}]
  /\ todo \in [{"chip", "event"} -> Seq(Objs)]
  /\ {link, mdns_registered, missed, racy} \subseteq BOOLEAN
  /\ links \in 0..MaxLinkEvents
  /\ put \subseteq Ids /\ rolled \subseteq Ids
  /\ early \subseteq Objs

\* m_devices and the heap agree: every listed object is alive and listed
\* once, and no live object is forgotten.
ListMatchesHeap ==
  /\ Range(modbus) = {o \in Objs : obj[o] # None}
  /\ IsInjective(modbus)

\* A device is polled by one task.  The exceptions are the devices that a PUT
\* registered again, and those added before the IPv4 address was handled,
\* which register_device and start_polling both start (and whatever happens
\* once a loop has walked a list that changed under it).
SinglePoller ==
  ~racy => \A o \in Range(modbus) :
    obj[o].id \notin put /\ o \notin early => pollers[o] <= 1

\* With the same exceptions, and no list changed under a running loop, a
\* deleted object leaves no task behind.
NoPollerOutlivesItsDevice ==
  \A o \in Objs : obj[o] = None /\ put = {} /\ o \notin early /\ ~racy => pollers[o] = 0

\* The IPv4 address was handled after the restore was over, and no loop has
\* walked a list that changed under it.
Settled == mdns_registered /\ ~missed /\ ~racy

IsPolled(i) == \E o \in Range(modbus) : obj[o].id = i /\ pollers[o] >= 1

\* Once start-up, the IPv4 address and the request are handled, every device
\* is polled, by one of the objects with its id: a PUT starts the first of
\* them, not the one with the new configuration, and a PUT that fails deletes
\* it, so that nobody polls the one that is left.  These ids are excepted.
EveryDeviceIsPolled ==
  Quiet /\ Settled =>
    \A o \in Range(modbus) : obj[o].id \notin rolled => IsPolled(obj[o].id)

\* No Matter endpoint is left without a Modbus device of its id, even after a
\* registration was rolled back, nor, with the same exceptions, without one
\* that is polled.
EveryEndpointHasADevice ==
  Quiet => \A m \in Range(matter) :
    /\ \E o \in Range(modbus) : obj[o].id = m.id
    /\ Settled /\ m.id \notin rolled => IsPolled(m.id)

\* on_readings routes by id, to the first match: without a PUT, that is the
\* Matter device which was created with the object that took the readings.
ReadingsReachTheirDevice ==
  \A o \in Range(modbus), m \in Range(matter) :
    obj[o].id = m.id /\ m.id \notin put => obj[o].cfg = m.cfg

\* A device that is still in the list is not left paused after the link is
\* back (unless a loop has walked a list that changed under it).
NoDeviceLeftPaused ==
  link /\ pc["event"] = "idle" /\ ~racy => \A o \in Range(modbus) : ~paused[o]

\* The last step of a factory reset leaves no device anywhere.
ResetDone == pc["http"] = "clear store" /\ pc'["http"] = "idle"

FactoryResetForgets ==
  [][ResetDone => /\ \A i \in Ids : store'[i] = None
                  /\ modbus' = <<>>
                  /\ matter' = <<>>]_vars

-----------------------------------------------------------------------------
(* What the repository says of add, update and remove, and the code does   *)
(* not do.                                                                 *)

\* "wired into web server for ... remove": a removed device is not polled.
RemovedDevicesStop ==
  Quiet => \A o \in Range(modbus) : obj[o].id \in Stored

\* "wired into web server for ... update": a device is polled with the
\* configuration that was stored last.
UpdatedDevicesFollow ==
  Quiet => \A o \in Range(modbus) :
    pollers[o] > 0 /\ obj[o].id \in Stored => obj[o].cfg = store[obj[o].id]

\* "restores devices from store on boot": they end up polled.
RestoredDevicesArePolled ==
  Quiet /\ mdns_registered => \A o \in Range(modbus) : obj[o].id \notin put => pollers[o] >= 1
=============================================================================
