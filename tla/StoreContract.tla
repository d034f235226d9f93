--------------------------- MODULE StoreContract ---------------------------
(***************************************************************************)
(* What the rest of the firmware relies on the device store for            *)
(* (src/firmware/main/devices_store.h): a table of configured devices that *)
(* is edited one call at a time and comes back after a restart.            *)
(*                                                                         *)
(* The contract is deliberately not "memory equals flash".  devices_store  *)
(* undoes a failed add or update, but a failed remove, clear or            *)
(* update_matter_structure stays in memory (LoseSync below); a restart     *)
(* then brings the old entry back.  Nor does it promise that devices       *)
(* survive a file system that does not mount: the store has such a         *)
(* partition formatted and starts with no devices (Wiped below).           *)
(***************************************************************************)
EXTENDS Naturals, FiniteSets

CONSTANTS
  Ids,          \* device ids that generate_id can draw
  Configs,      \* name, host, port and unit id of a device
  Documents,    \* matter structures an entry can hold
  Vacant,       \* "no device under this id"
  DEVICES_MAX,
  Formats       \* whether a start-up may find a partition it has to format

VARIABLES
  live,         \* the table the running firmware works from
  saved,        \* the table a restart reads back
  up            \* the firmware runs and its file system is mounted

vars == <<live, saved, up>>

Entry == [cfg : Configs, ms : Documents]
Table == [Ids -> Entry \cup {Vacant}]
Empty == [i \in Ids |-> Vacant]
Used(t) == {i \in Ids : t[i] # Vacant}

Init ==
  /\ live = Empty
  /\ saved = Empty
  /\ up = FALSE

Added(i, e) ==
  /\ live[i] = Vacant
  /\ saved[i] = Vacant
  /\ Cardinality(Used(live)) < DEVICES_MAX
  /\ live' = [live EXCEPT ![i] = e]

Changed(i, e) ==
  /\ live[i] # Vacant
  /\ live' = [live EXCEPT ![i] = e]

Restructured(i, e) ==
  /\ live[i] # Vacant
  /\ e.cfg = live[i].cfg
  /\ live' = [live EXCEPT ![i] = e]

Removed(i) ==
  /\ live[i] # Vacant
  /\ live' = [live EXCEPT ![i] = Vacant]

Cleared == live' = Empty

\* A call that reports success: the edit is in memory and in the file.
Commit ==
  /\ up
  /\ \/ \E i \in Ids, e \in Entry : Added(i, e) \/ Changed(i, e)
     \/ \E i \in Ids : Removed(i)
     \/ Cleared
  /\ saved' = live'
  /\ UNCHANGED up

\* A call that reports failure and does not undo its edit of the table.
LoseSync ==
  /\ up
  /\ \/ \E i \in Ids, e \in Entry : Restructured(i, e)
     \/ \E i \in Ids : Removed(i)
     \/ Cleared
  /\ UNCHANGED <<saved, up>>

PowerOff ==
  /\ live' = Empty
  /\ up' = FALSE
  /\ UNCHANGED saved

PowerOn ==
  /\ ~up
  /\ live' = saved
  /\ up' = TRUE
  /\ UNCHANGED saved

\* A start-up that formats the partition: every device is gone, from flash
\* too, and no caller is told.  The new file system mounts, or does not.
Wiped ==
  /\ Formats
  /\ ~up
  /\ live' = Empty
  /\ saved' = Empty
  /\ up' \in BOOLEAN

Next == Commit \/ LoseSync \/ PowerOff \/ PowerOn \/ Wiped

Spec == Init /\ [][Next]_vars
=============================================================================
