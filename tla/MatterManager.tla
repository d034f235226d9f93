--------------------------- MODULE MatterManager ---------------------------
(***************************************************************************)
(* The Matter side of a device, src/firmware/main/matter_manager.cpp:      *)
(* create_matter_device resumes or creates one endpoint for the device and *)
(* one for each of its parts, writes new endpoint ids back into the stored *)
(* matter structure, and lists the endpoints so that on_readings can route *)
(* register values to them by index.                                       *)
(*                                                                         *)
(* Registrations come one at a time (main at start-up, then the HTTP task) *)
(* and hold the CHIP stack lock, so what is hard is not interleaving: an   *)
(* endpoint can fail to be resumed or created, the ids can fail to be      *)
(* saved, and a restart can come between any two steps, while the esp-     *)
(* matter library keeps its own record of endpoints in flash.              *)
(*                                                                         *)
(* Endpoints of a device are numbered 1 (the root) to n (the last part);   *)
(* endpoint_idx in the code is one less.                                   *)
(***************************************************************************)
EXTENDS Naturals, Sequences, SequencesExt

CONSTANTS
  Ids,        \* device ids
  MaxParts,   \* bound on the parts of a device
  MaxEp,      \* bound on the endpoints that are ever created
  None,       \* MATTER_ENDPOINT_ID_INVALID
  Broken,     \* a structure that does not parse or names no endpoint
  Vacant,     \* no device under this id
  PartCounts, \* numbers of parts in the structures users enter
  Longs,      \* lengths of these structures, see Document
  Faults      \* what may fail: "resume", "create", "save"

Eps == 1..MaxEp
Indexes == 1..(MaxParts + 1)
EndpointList == UNION {[1..n -> Eps \cup {None}] : n \in Indexes}

\* A parsed matter_structure: the stored endpoint ids, and whether its text
\* is so long that it has no room for them.
Document == [ids : EndpointList, long : BOOLEAN]

ASSUME MatterAssumptions ==
  /\ MaxParts \in Nat
  /\ MaxEp \in Nat
  /\ None \notin Eps \cup Ids \cup (Ids \X Indexes)
  /\ Broken \notin Document
  /\ Vacant \notin Document \cup {Broken}
  /\ PartCounts \subseteq 0..MaxParts
  /\ Longs \subseteq BOOLEAN
  /\ Faults \subseteq {"resume", "create", "save"}

VARIABLES
  store,       \* matter_structure_json in the device table, by id
  file,        \* the same on flash
  nextEp,      \* esp-matter, flash: the lowest endpoint id never used
  bridged,     \* esp-matter, flash: bridged endpoints it can resume
  live,        \* esp-matter: endpoints of the running node
  m_devices,   \* MatterManager::m_devices
  pc,          \* off, idle, or a step of a registration or a reset
  boot,        \* stored ids that start-up has still to restore
  job,         \* the registration under way
  owner,       \* history: what each endpoint was created for
  seen,        \* history: endpoints of the last completed registration
  safe         \* history: ids whose last registration was saved and resumed

flash == <<file, nextEp, bridged>>
history == <<owner, seen, safe>>
vars == <<store, flash, live, m_devices, pc, boot, job, history>>

NoJob == [id |-> None, doc |-> Broken, eps |-> <<>>, fresh |-> {}]
Unseen == [r \in Indexes |-> None]

Init ==
  /\ store = [i \in Ids |-> Vacant]
  /\ file = [i \in Ids |-> Vacant]
  /\ nextEp = 1
  /\ bridged = {}
  /\ live = {}
  /\ m_devices = <<>>
  /\ pc = "off"
  /\ boot = {}
  /\ job = NoJob
  /\ owner = [e \in Eps |-> None]
  /\ seen = [i \in Ids |-> Unseen]
  /\ safe = {}

Stored == {i \in Ids : store[i] # Vacant}

\* get_stored_root_ep_id, get_stored_part_ep_id and part_count: a structure
\* that does not parse has a root without an id and no part.
StoredIds(d) == IF d = Broken THEN <<None>> ELSE d.ids

-----------------------------------------------------------------------------
(* Start-up and the API requests, as far as they reach the Matter side.    *)

Boot ==
  /\ pc = "off"
  /\ store' = file
  /\ boot' = {i \in Ids : file[i] # Vacant}
  /\ pc' = "idle"
  /\ UNCHANGED <<flash, live, m_devices, job, history>>

Begin(i, d) ==
  /\ pc' = "root"
  /\ job' = [id |-> i, doc |-> d, eps |-> <<>>, fresh |-> {}]

Restore(i) ==
  /\ pc = "idle"
  /\ i \in boot
  /\ boot' = boot \ {i}
  /\ Begin(i, store[i])
  /\ UNCHANGED <<store, flash, live, m_devices, history>>

Ready == pc = "idle" /\ boot = {}

\* The store keeps the structure first; saving one device writes them all.
Save(i, d) ==
  /\ store' = [store EXCEPT ![i] = d]
  /\ file' = store'
  /\ UNCHANGED <<nextEp, bridged>>

Fresh(i) == i \notin Stored /\ \A r \in Indexes : <<i, r>> \notin Range(owner)

AddDevice(i, d) ==
  /\ Ready
  /\ Fresh(i)
  /\ Save(i, d)
  /\ Begin(i, d)
  /\ UNCHANGED <<live, m_devices, boot, history>>

\* The new structure is the client's, or the one it has read from the API.
UpdateDevice(i, d) ==
  /\ Ready
  /\ i \in Stored
  /\ Save(i, d)
  /\ Begin(i, d)
  /\ seen' = [seen EXCEPT ![i] = Unseen]
  /\ safe' = safe \ {i}
  /\ UNCHANGED <<live, m_devices, boot, owner>>

\* DELETE: the Matter side keeps the device until the next start.
RemoveDevice(i) ==
  /\ Ready
  /\ i \in Stored
  /\ Save(i, Vacant)
  /\ UNCHANGED <<live, m_devices, pc, boot, job, history>>

-----------------------------------------------------------------------------
(* create_matter_device.                                                   *)

Role == Len(job.eps) + 1
StoredId ==
  IF Role \in DOMAIN StoredIds(job.doc) THEN StoredIds(job.doc)[Role] ELSE None

Take(e) ==
  /\ live' = live \cup {e}
  /\ owner' = [owner EXCEPT ![e] = IF @ = None THEN <<job.id, Role>> ELSE @]

\* esp-matter brings back an endpoint it has created before and that is not
\* live; a bridged one only with its record.
Resumable(e) ==
  /\ e \in 1..(nextEp - 1) \ live
  /\ Role = 1 => e \in bridged

Resume ==
  /\ Resumable(StoredId)
  /\ Take(StoredId)
  /\ job' = [job EXCEPT !.eps = Append(@, StoredId)]
  /\ UNCHANGED <<nextEp, bridged, safe>>

\* No stored id, or one that cannot be resumed: a new endpoint.
Create ==
  /\ ~Resumable(StoredId) \/ "resume" \in Faults
  /\ nextEp \in Eps
  /\ Take(nextEp)
  /\ nextEp' = nextEp + 1
  /\ bridged' = IF Role = 1 THEN bridged \cup {nextEp} ELSE bridged
  /\ job' = [job EXCEPT !.eps = Append(@, nextEp), !.fresh = @ \cup {Role}]
  /\ safe' = IF Resumable(StoredId) THEN safe \ {job.id} ELSE safe

\* Resume and create both fail.
Refused ==
  /\ "create" \in Faults
  /\ ~Resumable(StoredId) \/ "resume" \in Faults

CreateRoot ==
  /\ pc = "root"
  /\ Resume \/ Create
  /\ pc' = "parts"
  /\ UNCHANGED <<store, file, m_devices, boot, seen>>

\* The registration ends with an error; nothing has been created.
RootFails ==
  /\ pc = "root"
  /\ Refused
  /\ pc' = "idle"
  /\ job' = NoJob
  /\ safe' = safe \ {job.id}
  /\ UNCHANGED <<store, flash, live, m_devices, boot, owner, seen>>

\* Mutant: the loop over the parts runs once too often.
OneMorePart == Len(job.eps) <= Len(StoredIds(job.doc))

PartsLeft == Len(job.eps) < Len(StoredIds(job.doc))

CreatePart ==
  /\ pc = "parts"
  /\ PartsLeft
  /\ Resume \/ Create
  /\ UNCHANGED <<store, file, m_devices, pc, boot, seen>>

\* Mutant: a part that fails ends the registration.
PartFailsDevice ==
  /\ pc = "parts"
  /\ PartsLeft
  /\ Refused
  /\ pc' = "idle"
  /\ job' = NoJob
  /\ safe' = safe \ {job.id}
  /\ UNCHANGED <<store, flash, live, m_devices, boot, owner, seen>>

\* A part that fails leaves an empty entry, which keeps the indexes right.
PartFails ==
  /\ pc = "parts"
  /\ PartsLeft
  /\ Refused
  /\ job' = [job EXCEPT !.eps = Append(@, None)]
  /\ safe' = safe \ {job.id}
  /\ UNCHANGED <<store, flash, live, m_devices, pc, boot, owner, seen>>

\* The endpoints are enabled and the CHIP stack lock is released.
Enable ==
  /\ pc = "parts"
  /\ ~PartsLeft
  /\ pc' = "save"
  /\ UNCHANGED <<store, flash, live, m_devices, boot, job, history>>

\* Mutant: only a new root is a reason to save.
RootIsNew == 1 \in job.fresh

AnyNew == job.fresh # {}

\* write_all_endpoint_ids: new ids where there are some, else the stored
\* ones; a structure without room for them is cut short and no longer parses.
WithIds(d) ==
  IF d.long THEN Broken
  ELSE [d EXCEPT !.ids =
         [r \in DOMAIN @ |-> IF r \in job.fresh THEN job.eps[r] ELSE @[r]]]

\* Mutant: the parts that failed are not listed.
ListedParts(eps) == SelectSeq(eps, LAMBDA e : e # None)

Listed(eps) == eps

Published ==
  /\ m_devices' = Append(m_devices, [id |-> job.id, eps |-> Listed(job.eps)])
  /\ pc' = "idle"
  /\ job' = NoJob
  /\ seen' = [seen EXCEPT ![job.id] =
       [r \in Indexes |-> IF r \in DOMAIN job.eps THEN job.eps[r] ELSE None]]
  /\ UNCHANGED <<nextEp, bridged, live, boot, owner>>

\* A broken structure cannot take the ids: nothing is saved.
NothingToSave ==
  /\ ~AnyNew \/ job.doc = Broken
  /\ safe' = IF job.doc = Broken THEN safe \ {job.id} ELSE safe \cup {job.id}
  /\ UNCHANGED <<store, file>>

SaveIds ==
  /\ AnyNew /\ job.doc # Broken
  /\ \/ /\ store' = [store EXCEPT ![job.id] = WithIds(job.doc)]
        /\ file' = store'
        /\ safe' = IF job.doc.long THEN safe \ {job.id} ELSE safe \cup {job.id}
     \/ /\ "save" \in Faults               \* in memory only, or not at all
        /\ store' \in {store, [store EXCEPT ![job.id] = WithIds(job.doc)]}
        /\ safe' = safe \ {job.id}
        /\ UNCHANGED file

\* The ids are saved, whatever comes of it, and the device is listed.
Complete ==
  /\ pc = "save"
  /\ NothingToSave \/ SaveIds
  /\ Published

-----------------------------------------------------------------------------
(* Readings.                                                               *)

With(i) == {n \in DOMAIN m_devices : m_devices[n].id = i}
First(i) == CHOOSE n \in With(i) : \A k \in With(i) : n <= k

\* on_readings and get_readings: the endpoints that the readings of device i
\* reach, each with the index of the mapping that routes them there.
Reached(i) ==
  IF With(i) = {} THEN {}
  ELSE LET eps == m_devices[First(i)].eps
       IN  {<<eps[r], r>> : r \in {n \in DOMAIN eps : eps[n] # None}}

-----------------------------------------------------------------------------
(* Factory reset and restarts.                                             *)

Endpoints(m) == Range(m.eps) \ {None}
ListedEndpoints == UNION {Endpoints(m) : m \in Range(m_devices)}

\* MatterManager::clear: listed endpoints are destroyed, the bridge's records
\* erased; devices_store_clear comes a step later, then the restart.
ClearMatter ==
  /\ Ready
  /\ live' = live \ ListedEndpoints
  /\ bridged' = {}
  /\ m_devices' = <<>>
  /\ safe' = {}
  /\ pc' = "clear"
  /\ UNCHANGED <<store, file, nextEp, boot, job, owner, seen>>

ClearStore ==
  /\ pc = "clear"
  /\ store' = [i \in Ids |-> Vacant]
  /\ file' = [i \in Ids |-> Vacant]
  /\ seen' = [i \in Ids |-> Unseen]
  /\ pc' = "idle"
  /\ UNCHANGED <<nextEp, bridged, live, m_devices, boot, job, owner, safe>>

Restart ==
  /\ pc # "off"
  /\ pc' = "off"
  /\ store' = [i \in Ids |-> Vacant]
  /\ live' = {}
  /\ m_devices' = <<>>
  /\ boot' = {}
  /\ job' = NoJob
  /\ UNCHANGED <<flash, history>>

\* What users enter: no ids yet.
Inputs == [ids : {[r \in 1..(n + 1) |-> None] : n \in PartCounts}, long : Longs]

Next ==
  \/ Boot
  \/ \E i \in Ids : Restore(i)
  \/ \E i \in Ids, d \in Inputs : AddDevice(i, d)
  \/ \E i \in Ids : \E d \in Inputs \cup ({store[i]} \ {Broken}) : UpdateDevice(i, d)
  \/ \E i \in Ids : RemoveDevice(i)
  \/ CreateRoot
  \/ RootFails
  \/ CreatePart
  \/ PartFails
  \/ Enable
  \/ Complete
  \/ ClearMatter
  \/ ClearStore
  \/ Restart

Spec == Init /\ [][Next]_vars

-----------------------------------------------------------------------------
(* Correctness.                                                            *)

\* Type invariant.  A registration has no more endpoints than its structure.
TypeOK ==
  /\ store \in [Ids -> Document \cup {Broken, Vacant}]
  /\ file \in [Ids -> Document \cup {Broken, Vacant}]
  /\ nextEp \in 1..(MaxEp + 1)
  /\ bridged \subseteq Eps
  /\ live \subseteq Eps
  /\ m_devices \in Seq([id : Ids, eps : EndpointList])
  /\ pc \in {"off", "idle", "root", "parts", "save", "clear"}
  /\ boot \subseteq Ids
  /\ job.id \in Ids \cup {None}
  /\ job.doc \in Document \cup {Broken}
  /\ Len(job.eps) <= Len(StoredIds(job.doc))
  /\ Range(job.eps) \subseteq Eps \cup {None}
  /\ job.fresh \subseteq DOMAIN job.eps
  /\ owner \in [Eps -> (Ids \X Indexes) \cup {None}]
  /\ seen \in [Ids -> [Indexes -> Eps \cup {None}]]
  /\ safe \subseteq Ids

\* A value reaches the endpoint that was created for the part of the device
\* it was mapped to, whatever failed on the way and however often the device
\* was resumed, recreated or registered again.
ReadingsReachTheirEndpoint ==
  \A i \in Ids : \A x \in Reached(i) : x[1] \in live /\ owner[x[1]] = <<i, x[2]>>

\* The live endpoints are those of the listed devices and of the
\* registration under way, at any moment and each once: no device shares an
\* endpoint with another, and between registrations none is left that a
\* factory reset would not destroy.
EndpointsAreListed ==
  /\ live = ListedEndpoints \cup (Range(job.eps) \ {None})
  /\ ListedEndpoints \cap Range(job.eps) = {}
  /\ \A m, n \in DOMAIN m_devices :
       \A r \in DOMAIN m_devices[m].eps, s \in DOMAIN m_devices[n].eps :
         m_devices[m].eps[r] = m_devices[n].eps[s] /\ m_devices[m].eps[r] # None
           => m = n /\ r = s

Completing == pc = "save" /\ pc' = "idle"
Kept(r) == seen[job.id][r] # None => seen'[job.id][r] = seen[job.id][r]

\* A device whose ids were saved comes back with the same endpoints after any
\* number of restarts, also restarts in the middle of a registration.
SavedIdsComeBack ==
  [][Completing /\ job.id \in safe => \A r \in Indexes : Kept(r)]_vars

\* "part endpoint ids stay stable across reboots": of every device that was
\* registered, without the condition that saving its ids had succeeded.
PartIdsStable == [][Completing => \A r \in Indexes \ {1} : Kept(r)]_vars
=============================================================================
