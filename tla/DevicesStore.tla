---------------------------- MODULE DevicesStore ----------------------------
(***************************************************************************)
(* The persistent table of configured Modbus devices,                      *)
(* src/firmware/main/devices_store.cpp: a static array in RAM (s_devices,  *)
(* s_count), the file devices.json on LittleFS, and the rewrite of the     *)
(* whole file through devices.json.tmp that ends every call that edits     *)
(* the table.                                                              *)
(*                                                                         *)
(* Only one task calls the store at a time (main during start-up, the      *)
(* HTTP server task afterwards), so the hard part is not interleaving but  *)
(* what is left when a step of persist() fails, or when power goes between *)
(* two of its steps.                                                       *)
(*                                                                         *)
(* The array is a function from ids to entries: every use of it looks an   *)
(* id up or visits all the entries, so the order of the array is not kept. *)
(***************************************************************************)
EXTENDS Naturals, FiniteSets, FiniteSetsExt

CONSTANTS
  Ids,           \* ids that generate_id (random) can draw
  Configs,       \* name, host, port and unit id of a device
  Structures,    \* matter_structure documents that fit their buffer
  Oversize,      \* documents longer than MATTER_STRUCTURE_JSON_LEN - 1
  NoStructure,   \* the empty string
  Truncated,     \* what strlcpy leaves of an oversize document: not JSON
  Null,          \* the null pointer
  Vacant,        \* an array slot that is not in use
  NoFile,        \* the path does not exist
  Torn,          \* a file that does not parse: empty or cut short
  Weight,        \* bytes of an entry in the file, by its structure
  DEVICES_MAX,
  ReadLimit,     \* the largest file load_from_disk accepts (16384)
  Faults         \* the steps that may fail in this run

Faultable == {"mount", "format", "load", "open", "write", "flush", "rename"}

Device == [cfg : Configs, ms : Structures \cup {NoStructure, Truncated}]
Entry  == [cfg : Configs, ms : Structures \cup {NoStructure}]
Table  == [Ids -> Device \cup {Vacant}]
Text   == [Ids -> Entry \cup {Vacant}]

ASSUME StoreAssumptions ==
  /\ IsFiniteSet(Ids)
  /\ DEVICES_MAX \in Nat
  /\ ReadLimit \in Nat
  /\ Faults \subseteq Faultable
  /\ Weight \in [Structures \cup {NoStructure} -> Nat]
  /\ Vacant \notin Device
  /\ {NoFile, Torn} \cap Text = {}
  /\ NoFile # Torn
  /\ Truncated \notin Structures \cup {NoStructure}
  /\ NoStructure \notin Structures
  /\ Null \notin Structures \cup Oversize \cup {NoStructure}
  /\ Oversize \cap (Structures \cup {NoStructure}) = {}

VARIABLES
  s_devices,   \* the array, by id; s_count is the number of used ids
  main,        \* devices.json
  tmp,         \* devices.json.tmp
  mounted,     \* mount_littlefs succeeded at this boot
  pc,          \* where the calling task is: off, idle or a step of persist
  op,          \* the call that is being served
  before,      \* s_devices when that call was made
  text,        \* persist's serialised copy of the table
  dropped,     \* history: ids the callers asked this boot to forget
  lossy        \* history: a file was ignored at start-up, or a flush failed,
               \* and no caller was told

vars == <<s_devices, main, tmp, mounted, pc, op, before, text, dropped, lossy>>

Used(t) == {i \in Ids : t[i] # Vacant}
Empty == [i \in Ids |-> Vacant]

\* strlcpy into matter_structure_json.
Copied(ms) == IF ms \in Oversize THEN Truncated ELSE ms

\* Mutant: a device whose structure does not parse is not written at all.
StoredIfParsed(d) ==
  IF d = Vacant THEN Vacant
  ELSE IF d.ms = Truncated THEN Vacant ELSE d

\* persist's entry for a device: a structure that does not parse is skipped.
Stored(d) ==
  IF d = Vacant THEN Vacant
  ELSE [d EXCEPT !.ms = IF @ = Truncated THEN NoStructure ELSE @]

Serialised(t) == [i \in Ids |-> Stored(t[i])]

FileSize(t) == MapThenSumSet(LAMBDA i : Weight[t[i].ms], Used(t))

Whole(f) == f \notin {NoFile, Torn}
Content(f) == IF Whole(f) THEN f ELSE Empty

\* load_from_disk: a missing, unreadable or too large file counts as none.
Loaded(f) ==
  IF Whole(f) /\ FileSize(Content(f)) <= ReadLimit THEN f ELSE Empty

Persisting == {"open", "write", "flush", "rename"}

Init ==
  /\ s_devices = Empty
  /\ main = NoFile
  /\ tmp = NoFile
  /\ mounted = FALSE
  /\ pc = "off"
  /\ op = "none"
  /\ before = Empty
  /\ text = Empty
  /\ dropped = {}
  /\ lossy = FALSE

-----------------------------------------------------------------------------
(* devices_store_init, called from MatterManager::init at start-up.        *)

Mount ==
  /\ mounted' = TRUE
  /\ \/ s_devices' = Loaded(main)
     \/ "load" \in Faults /\ s_devices' = Empty   \* fopen or malloc
  /\ lossy' = (lossy \/ s_devices' # Content(main))
  /\ UNCHANGED <<main, tmp>>

\* The partition does not mount.  format_if_mount_failed is set: it is
\* formatted, and mounted empty unless that fails as well.
Format ==
  /\ "format" \in Faults
  /\ main' = NoFile
  /\ tmp' = NoFile
  /\ mounted' \in BOOLEAN
  /\ s_devices' = Empty
  /\ UNCHANGED lossy

\* Registering the file system fails before the partition is touched.
NoMount ==
  /\ "mount" \in Faults
  /\ mounted' = FALSE
  /\ s_devices' = Empty
  /\ UNCHANGED <<main, tmp, lossy>>

Boot ==
  /\ pc = "off"
  /\ Mount \/ Format \/ NoMount
  /\ pc' = "idle"
  /\ UNCHANGED <<op, before, text, dropped>>

-----------------------------------------------------------------------------
(* The calls.  Each edits the table and enters persist().                  *)

Begin(name, table) ==
  /\ pc = "idle"
  /\ pc' = "open"
  /\ op' = name
  /\ before' = s_devices
  /\ s_devices' = table
  /\ text' = Serialised(table)
  /\ UNCHANGED <<main, tmp, mounted, lossy>>

\* An id no copy of the table has seen: 64 random bits.
Fresh(i) == /\ i \notin Used(s_devices) \cup dropped
            /\ i \notin Used(Content(main)) \cup Used(Content(tmp))

\* Mutant: the limit is tested one too late.
HasRoomForOneMore == Cardinality(Used(s_devices)) <= DEVICES_MAX

HasRoom == Cardinality(Used(s_devices)) < DEVICES_MAX

Add(cfg, ms) ==
  /\ HasRoom
  /\ \E i \in Ids :
       /\ Fresh(i)
       /\ Begin("add", [s_devices EXCEPT ![i] = [cfg |-> cfg, ms |-> Copied(ms)]])
  /\ UNCHANGED dropped

Update(i, cfg, ms) ==
  /\ i \in Used(s_devices)
  /\ LET kept == IF ms = Null THEN s_devices[i].ms ELSE Copied(ms)
     IN  Begin("update", [s_devices EXCEPT ![i] = [cfg |-> cfg, ms |-> kept]])
  /\ UNCHANGED dropped

UpdateMatterStructure(i, ms) ==
  /\ i \in Used(s_devices)
  /\ Begin("restructure", [s_devices EXCEPT ![i].ms = Copied(ms)])
  /\ UNCHANGED dropped

Remove(i) ==
  /\ i \in Used(s_devices)
  /\ Begin("remove", [s_devices EXCEPT ![i] = Vacant])
  /\ dropped' = dropped \cup {i}

Clear ==
  /\ Begin("clear", Empty)
  /\ dropped' = dropped \cup Used(s_devices)

-----------------------------------------------------------------------------
(* persist(), step by step, and the return to the caller.                  *)

\* Mutant: a failed add is not undone.
RollsBackUpdate == {"update"}

\* Only add and update restore the table when persist fails.
RollsBack == {"add", "update"}

Return ==
  /\ pc' = "idle"
  /\ op' = "none"
  /\ before' = Empty
  /\ text' = Empty
  /\ UNCHANGED <<mounted, dropped, lossy>>

Fail ==
  /\ Return
  /\ s_devices' = IF op \in RollsBack THEN before ELSE s_devices
  /\ UNCHANGED main

\* fopen(devices.json.tmp, "w"); without a mount there is no such path.
PersistOpen ==
  /\ pc = "open"
  /\ \/ /\ mounted
        /\ pc' = "write"
        /\ UNCHANGED <<s_devices, main, tmp, mounted, op, before, text, dropped, lossy>>
     \/ /\ ~mounted \/ "open" \in Faults
        /\ Fail
        /\ UNCHANGED tmp

\* Mutant: a failed fputs does not stop the rename.
WriteUnchecked ==
  /\ pc = "write"
  /\ \/ /\ pc' = "flush"
        /\ UNCHANGED tmp
     \/ /\ "write" \in Faults
        /\ pc' = "rename"
        /\ tmp' = Torn
  /\ UNCHANGED <<s_devices, main, mounted, op, before, text, dropped, lossy>>

\* fputs; its error path closes the partly written file.
PersistWrite ==
  /\ pc = "write"
  /\ \/ /\ pc' = "flush"
        /\ UNCHANGED <<s_devices, main, tmp, mounted, op, before, text, dropped, lossy>>
     \/ /\ "write" \in Faults
        /\ Fail
        /\ tmp' = Torn

\* fflush, fsync and fclose: none of their results is looked at.
PersistFlush ==
  /\ pc = "flush"
  /\ \/ tmp' = text
     \/ "flush" \in Faults /\ tmp' \in {Torn, tmp} \ {NoFile}
  /\ lossy' = (lossy \/ tmp' # text)
  /\ pc' = "rename"
  /\ UNCHANGED <<s_devices, main, mounted, op, before, text, dropped>>

PersistRename ==
  /\ pc = "rename"
  /\ \/ /\ main' = tmp
        /\ tmp' = NoFile
        /\ Return
        /\ UNCHANGED s_devices
     \/ /\ "rename" \in Faults
        /\ Fail
        /\ UNCHANGED tmp

-----------------------------------------------------------------------------
\* Power is lost, or the chip restarts.  LittleFS commits a file when it is
\* synced and renames atomically; an open tmp file keeps its old content or
\* is left short.
Restart ==
  /\ pc # "off"
  /\ pc' = "off"
  /\ s_devices' = Empty
  /\ op' = "none"
  /\ before' = Empty
  /\ text' = Empty
  /\ dropped' = {}
  /\ mounted' = FALSE
  /\ tmp' \in IF pc \in {"write", "flush"} THEN {tmp, Torn} ELSE {tmp}
  /\ UNCHANGED <<main, lossy>>

Inputs == Structures \cup Oversize

Next ==
  \/ Boot
  \/ \E cfg \in Configs, ms \in Inputs \cup {NoStructure} : Add(cfg, ms)
  \/ \E i \in Ids, cfg \in Configs, ms \in Inputs \cup {Null} : Update(i, cfg, ms)
  \/ \E i \in Ids, ms \in Inputs : UpdateMatterStructure(i, ms)
  \/ \E i \in Ids : Remove(i)
  \/ Clear
  \/ PersistOpen
  \/ PersistWrite
  \/ PersistFlush
  \/ PersistRename
  \/ Restart

Spec == Init /\ [][Next]_vars

-----------------------------------------------------------------------------
(* Correctness.                                                            *)

\* Type invariant.  The table never outgrows the array, in memory or on disk.
TypeOK ==
  /\ s_devices \in Table
  /\ main \in Text \cup {NoFile, Torn}
  /\ tmp \in Text \cup {NoFile, Torn}
  /\ mounted \in BOOLEAN
  /\ pc \in {"off", "idle"} \cup Persisting
  /\ op \in {"none", "add", "update", "restructure", "remove", "clear"}
  /\ before \in Table
  /\ text \in Text
  /\ dropped \in SUBSET Ids
  /\ lossy \in BOOLEAN
  /\ Cardinality(Used(s_devices)) <= DEVICES_MAX

\* devices.json is published by rename only when it is complete: unless a
\* flush failed unnoticed, a power cut or a failing step leaves the old file
\* or the new one, never a part of one.
PublishedIsWhole == main = Torn => lossy

DeviceLost(i) == i \in Used(Content(main)) \ Used(Content(main'))
Formatted == pc = "off" /\ main' = NoFile

\* Saving one change never costs another device: an entry disappears from
\* devices.json only if a caller asked, since start-up, for it to be removed
\* (or the store had already ignored a file or lost a flush).  The one other
\* step that loses devices loses all of them, and the file itself with them:
\* the start-up that formats a partition it cannot mount.
OnlyRemovalLosesDevices ==
  [][\A i \in Ids : DeviceLost(i) => i \in dropped \/ lossy \/ Formatted]_main

\* The same without the exception: no device is ever lost that nobody removed.
NeverLosesDevices ==
  [][\A i \in Ids : DeviceLost(i) => i \in dropped]_main

\* The store implements its contract for as long as no file was ignored and
\* no flush lost: a call that reports success is atomic and durable, add and
\* update have no effect when they report failure, and a restart brings back
\* exactly what was last saved, or nothing at all when it had to format.
Contract ==
  INSTANCE StoreContract WITH
    live  <- Serialised(IF pc \in Persisting THEN before ELSE s_devices),
    saved <- Content(main),
    up    <- pc # "off" /\ mounted,
    Documents <- Structures \cup {NoStructure},
    Formats <- "format" \in Faults

ImplementsContract ==
  Contract!Init /\ [][lossy' \/ [Contract!Next]_(Contract!vars)]_vars
=============================================================================
