------------------------ MODULE DeviceManagerProofs ------------------------
(***************************************************************************)
(* Proofs about DeviceManager, for any number of devices, objects and      *)
(* configurations, in whatever order the four tasks work and whenever the  *)
(* chip restarts.                                                          *)
(*                                                                         *)
(*   Control   where each task stands, and what it holds there;            *)
(*   Handled   a live object's m_poll_task is set just when it is polled;  *)
(*   Named     an id names one object and one configuration, but for the   *)
(*             ids that a PUT registered again;                            *)
(*   Fed       every endpoint has an object, also once the rollback under  *)
(*             way has deleted its own;                                    *)
(*   Counted   the poll tasks of each object;                              *)
(*   Begun     who is still to start the devices that nobody polls;        *)
(*   Rested    who is still to resume the objects that are paused.         *)
(***************************************************************************)
EXTENDS DeviceManager, SequenceTheorems, WellFoundedInduction, TLAPS

Serving == pc["http"] \in {"modbus", "matter", "start", "rollback"}
Registered == pc["http"] \in {"matter", "start", "rollback"}

Control ==
  /\ DOMAIN pc = {"main", "chip", "event", "http"}
  /\ pc["main"] # "done" => pc["http"] = "off" /\ put = {}
  /\ pc["main"] = "init" => modbus = <<>> /\ matter = <<>> /\ link /\ pc["event"] = "off"
  /\ pc["main"] \in {"init", "done"} => boot = {}
  /\ boot \subseteq Stored
  /\ pc["main"] = "matter" <=> request["main"] # None
  /\ Serving <=> request["http"] # None
  /\ pc["http"] \in {"clear modbus", "clear store"} => matter = <<>>
  /\ pc["http"] = "clear store" => modbus = <<>>
  /\ pc["chip"] = "idle" => todo["chip"] = <<>>
  /\ pc["chip"] = "starting" => mdns_registered
  /\ pc["event"] \in {"off", "idle"} => todo["event"] = <<>>
  /\ pc["event"] = "pausing" => ~link
  /\ pc["event"] = "resuming" => link

Handled == \A o \in Objs : obj[o] # None => (handle[o] <=> pollers[o] > 0)

Shape == TypeOK /\ Control /\ Handled /\ ListMatchesHeap

Bridged(i) == \E m \in Range(matter) : m.id = i

Named ==
  /\ \A o, p \in Objs, i \in Ids \ put : HasId(o, i) /\ HasId(p, i) => o = p
  /\ \A i \in boot : ~Bridged(i) /\ \A o \in Objs : ~HasId(o, i)
  /\ pc["main"] = "matter" =>
       /\ \E o \in Objs : HasId(o, request["main"].id)
       /\ \A o \in Objs : HasId(o, request["main"].id) => obj[o] = request["main"]
       /\ ~Bridged(request["main"].id)
  /\ Registered => \E o \in Objs : HasId(o, request["http"].id)
  /\ Serving /\ request["http"].id \notin put =>
       /\ \A o \in Objs : HasId(o, request["http"].id) =>
                            Registered /\ obj[o] = request["http"]
       /\ pc["http"] # "start" => ~Bridged(request["http"].id)

Fed ==
  /\ \A m \in Range(matter) : \E o \in Objs : HasId(o, m.id)
  /\ pc["http"] \in {"matter", "rollback"} /\ Bridged(request["http"].id) =>
       \E o \in Objs : HasId(o, request["http"].id) /\ o # First(request["http"].id)

\* Neither exception of SinglePoller.
Plain(o) == obj[o] # None /\ obj[o].id \notin put /\ o \notin early

Counted ==
  ~racy =>
    /\ Range(todo["chip"]) \subseteq Range(modbus) /\ IsInjective(todo["chip"])
    /\ \A o \in Objs : Plain(o) =>
         /\ pollers[o] <= 1
         /\ o \in Range(todo["chip"]) \/ ~mdns_registered => pollers[o] = 0
         /\ Registered /\ HasId(o, request["http"].id) =>
              pollers[o] = 0 /\ o \notin Range(todo["chip"]) /\ mdns_registered
    /\ put = {} => \A o \in Objs : obj[o] = None /\ o \notin early => pollers[o] = 0

\* An object with the id is polled, or the loop that starts them is still to
\* come to it.
Cared(i) == \E o \in Objs : HasId(o, i) /\ (pollers[o] >= 1 \/ o \in Range(todo["chip"]))

Begun ==
  mdns_registered /\ ~missed /\ ~racy =>
    /\ pc["main"] = "done"
    /\ \A o \in Objs : obj[o] # None /\ obj[o].id \notin rolled =>
         \/ Cared(obj[o].id)
         \/ Registered /\ request["http"].id = obj[o].id

Rested ==
  ~racy /\ link /\ pc["event"] # "pausing" =>
    \A o \in Objs : obj[o] # None /\ paused[o] => o \in Range(todo["event"])

IInv ==
  /\ Shape /\ Named /\ Fed /\ Counted /\ Begun /\ Rested
  /\ ReadingsReachTheirDevice

-----------------------------------------------------------------------------
(* Lists.                                                                  *)

LEMMA Least ==
  ASSUME NEW T, T \subseteq Nat, T # {}
  PROVE  \E m \in T : \A k \in T : m <= k
<1> DEFINE R == OpToRel(<, Nat)
<1>1. IsWellFoundedOn(R, Nat)
  BY NatLessThanWellFounded
<1> HIDE DEF R
<1>2. PICK m \in T : \A k \in T : ~(<<k, m>> \in R)
  BY <1>1, WFMin
<1> USE DEF R
<1>3. \A k \in T : ~(k < m)
  BY <1>2 DEF OpToRel
<1> HIDE DEF R
<1> QED
  BY <1>2, <1>3

LEMMA RangeOf ==
  ASSUME NEW S, NEW s \in Seq(S)
  PROVE  /\ DOMAIN s = 1..Len(s) /\ Len(s) \in Nat
         /\ Range(s) \subseteq S
         /\ \A x : x \in Range(s) <=> \E n \in DOMAIN s : s[n] = x
  BY DEF Range

LEMMA RangeOfNone == Range(<<>>) = {} /\ IsInjective(<<>>)
  BY DEF Range, IsInjective

LEMMA Appended ==
  ASSUME NEW S, NEW s \in Seq(S), NEW e \in S
  PROVE  /\ Append(s, e) \in Seq(S)
         /\ Range(Append(s, e)) = Range(s) \cup {e}
         /\ IsInjective(s) /\ e \notin Range(s) => IsInjective(Append(s, e))
<1>1. /\ Append(s, e) \in Seq(S) /\ Len(Append(s, e)) = Len(s) + 1 /\ Len(s) \in Nat
      /\ DOMAIN Append(s, e) = 1..(Len(s) + 1) /\ DOMAIN s = 1..Len(s)
      /\ \A n \in 1..Len(s) : Append(s, e)[n] = s[n]
      /\ Append(s, e)[Len(s) + 1] = e
  BY AppendProperties
<1>2. Range(Append(s, e)) = Range(s) \cup {e}
  BY <1>1 DEF Range
<1>3. ASSUME IsInjective(s), e \notin Range(s) PROVE IsInjective(Append(s, e))
  BY <1>1, <1>3 DEF Range, IsInjective
<1> QED
  BY <1>1, <1>2, <1>3

LEMMA Walked ==
  ASSUME NEW S, NEW s \in Seq(S), s # <<>>
  PROVE  /\ Head(s) \in S /\ Head(s) \in Range(s)
         /\ Tail(s) \in Seq(S)
         /\ Range(s) = Range(Tail(s)) \cup {Head(s)}
         /\ IsInjective(s) => IsInjective(Tail(s)) /\ Head(s) \notin Range(Tail(s))
<1>1. /\ Len(s) \in Nat /\ Len(s) >= 1 /\ DOMAIN s = 1..Len(s)
      /\ Head(s) = s[1] /\ Head(s) \in S
  BY EmptySeq, HeadTailProperties
<1>2. /\ Tail(s) \in Seq(S) /\ Len(Tail(s)) = Len(s) - 1
      /\ \A n \in 1..(Len(s) - 1) : Tail(s)[n] = s[n + 1]
      /\ DOMAIN Tail(s) = 1..(Len(s) - 1)
  BY <1>1, HeadTailProperties
<1>3. Head(s) \in Range(s)
  BY <1>1 DEF Range
<1>4. Range(Tail(s)) \subseteq Range(s)
  BY <1>1, <1>2 DEF Range
<1>5. ASSUME NEW x \in Range(s), x # Head(s) PROVE x \in Range(Tail(s))
  <2>1. PICK n \in 1..Len(s) : s[n] = x
    BY <1>1 DEF Range
  <2>2. n # 1 /\ n - 1 \in 1..(Len(s) - 1) /\ (n - 1) + 1 = n
    BY <1>1, <1>5, <2>1
  <2> QED
    BY <1>2, <2>1, <2>2 DEF Range
<1>6. ASSUME IsInjective(s) PROVE IsInjective(Tail(s)) /\ Head(s) \notin Range(Tail(s))
  BY <1>1, <1>2, <1>6 DEF Range, IsInjective
<1> QED
  BY <1>1, <1>2, <1>3, <1>4, <1>5, <1>6

LEMMA Removed ==
  ASSUME NEW S, NEW s \in Seq(S), IsInjective(s), NEW n \in DOMAIN s
  PROVE  /\ RemoveAt(s, n) \in Seq(S)
         /\ Range(RemoveAt(s, n)) = Range(s) \ {s[n]}
         /\ IsInjective(RemoveAt(s, n))
<1> DEFINE r == RemoveAt(s, n)
<1>1. n \in 1..Len(s) /\ Len(s) \in Nat /\ DOMAIN s = 1..Len(s)
  OBVIOUS
<1>2. /\ r \in Seq(S) /\ Len(r) = Len(s) - 1 /\ DOMAIN r = 1..(Len(s) - 1)
      /\ \A k \in 1..(Len(s) - 1) : r[k] = IF k < n THEN s[k] ELSE s[k + 1]
  <2> DEFINE a == SubSeq(s, 1, n - 1)
             b == SubSeq(s, n + 1, Len(s))
  <2>1. /\ a \in Seq(S) /\ Len(a) = n - 1 /\ \A k \in 1..(n - 1) : a[k] = s[k]
    BY <1>1
  <2>2. /\ b \in Seq(S) /\ Len(b) = Len(s) - n
        /\ \A k \in 1..(Len(s) - n) : b[k] = s[k + n]
    BY <1>1
  <2>3. r = a \o b
    BY DEF RemoveAt
  <2> HIDE DEF a, b, r
  <2>4. r \in Seq(S) /\ Len(r) = Len(a) + Len(b) /\ DOMAIN r = 1..Len(r)
    <3>1. r \in Seq(S) /\ Len(r) = Len(a) + Len(b)
      BY <2>1, <2>2, <2>3, ConcatProperties, Zenon
    <3> QED
      BY <3>1
  <2>5. \A k \in 1..(Len(s) - 1) : r[k] = IF k <= Len(a) THEN a[k] ELSE b[k - Len(a)]
    <3>1. \A k \in 1..(Len(a) + Len(b)) :
            r[k] = IF k <= Len(a) THEN a[k] ELSE b[k - Len(a)]
      BY <2>1, <2>2, <2>3, ConcatProperties, Zenon
    <3>2. Len(a) + Len(b) = Len(s) - 1
      BY <1>1, <2>1, <2>2
    <3> QED
      BY <3>1, <3>2, Zenon
  <2>6. Len(r) = Len(s) - 1
    BY <1>1, <2>1, <2>2, <2>4
  <2>7. ASSUME NEW k \in 1..(Len(s) - 1) PROVE r[k] = IF k < n THEN s[k] ELSE s[k + 1]
    <3>1. CASE k < n
      BY <1>1, <2>1, <2>5, <3>1
    <3>2. CASE ~(k < n)
      <4>1. k - Len(a) = k - (n - 1) /\ k - (n - 1) \in 1..(Len(s) - n) /\ ~(k <= Len(a))
        BY <1>1, <2>1, <3>2
      <4>2. (k - (n - 1)) + n = k + 1
        BY <1>1
      <4>3. r[k] = b[k - (n - 1)]
        BY <2>5, <4>1
      <4> QED
        BY <2>2, <3>2, <4>1, <4>2, <4>3
    <3> QED
      BY <3>1, <3>2
  <2> QED
    BY <2>4, <2>6, <2>7
<1> HIDE DEF r
<1>3. ASSUME NEW x \in Range(r) PROVE x \in Range(s) \ {s[n]}
  BY <1>1, <1>2 DEF Range, IsInjective
<1>4. ASSUME NEW x \in Range(s), x # s[n] PROVE x \in Range(r)
  <2>1. PICK k \in 1..Len(s) : s[k] = x
    BY <1>1 DEF Range
  <2>2. CASE k < n
    BY <1>1, <1>2, <2>1, <2>2 DEF Range
  <2>3. CASE k > n
    <3>1. k - 1 \in 1..(Len(s) - 1) /\ ~(k - 1 < n) /\ (k - 1) + 1 = k
      BY <1>1, <2>3
    <3> QED
      BY <1>2, <2>1, <3>1 DEF Range
  <2> QED
    BY <1>1, <1>4, <2>1, <2>2, <2>3
<1>5. ASSUME NEW j \in 1..(Len(s) - 1), NEW k \in 1..(Len(s) - 1), r[j] = r[k]
      PROVE  j = k
  <2>1. \A x, y \in 1..Len(s) : s[x] = s[y] => x = y
    BY <1>1 DEF IsInjective
  <2>2. j \in 1..Len(s) /\ k \in 1..Len(s) /\ j + 1 \in 1..Len(s) /\ k + 1 \in 1..Len(s)
    BY <1>1
  <2>3. s[IF j < n THEN j ELSE j + 1] = s[IF k < n THEN k ELSE k + 1]
    BY <1>2, <1>5
  <2>4. (IF j < n THEN j ELSE j + 1) = (IF k < n THEN k ELSE k + 1)
    BY <2>1, <2>2, <2>3
  <2> QED
    BY <1>1, <2>4
<1>6. IsInjective(r)
  BY <1>2, <1>5 DEF IsInjective
<1> QED
  BY <1>2, <1>3, <1>4, <1>6 DEF r

-----------------------------------------------------------------------------
(* The heap and m_devices.                                                 *)

\* TypeOK, in the parts that change together.
HeapType ==
  /\ modbus \in Seq(Objs)
  /\ obj \in [Objs -> Device \cup {None}]
  /\ paused \in [Objs -> BOOLEAN] /\ handle \in [Objs -> BOOLEAN]
  /\ pollers \in [Objs -> Nat]

TaskType ==
  /\ pc["main"] \in {"init", "restore", "matter", "done"}
  /\ pc["chip"] \in {"idle", "starting"}
  /\ pc["event"] \in {"off", "idle", "pausing", "resuming"}
  /\ pc["http"] \in {"off", "idle", "modbus", "matter", "start", "rollback",
                     "clear matter", "clear modbus", "clear store"}
  /\ boot \subseteq Ids
  /\ request \in [{"main", "http"} -> Device \cup {None}]
  /\ todo \in [{"chip", "event"} -> Seq(Objs)]

DataType ==
  /\ store \in [Ids -> Configs \cup {None}]
  /\ matter \in Seq(Device)
  /\ link \in BOOLEAN /\ mdns_registered \in BOOLEAN
  /\ missed \in BOOLEAN /\ racy \in BOOLEAN
  /\ links \in 0..MaxLinkEvents
  /\ put \subseteq Ids /\ rolled \subseteq Ids
  /\ early \subseteq Objs

LEMMA TypesOf == ASSUME TypeOK PROVE HeapType /\ TaskType /\ DataType
<1>1. HeapType
  BY Zenon DEF TypeOK, HeapType
<1>2. TaskType
  BY Zenon DEF TypeOK, TaskType
<1>3. DataType
  BY Zenon DEF TypeOK, DataType
<1> QED
  BY <1>1, <1>2, <1>3

LEMMA TypesMake == ASSUME HeapType, TaskType, DataType PROVE TypeOK
<1>1. {paused, handle} \subseteq [Objs -> BOOLEAN]
  BY Zenon DEF HeapType
<1>2. {link, mdns_registered, missed, racy} \subseteq BOOLEAN
  BY DEF DataType
<1> QED
  BY <1>1, <1>2, Zenon DEF TypeOK, HeapType, TaskType, DataType

LEMMA TypesMakeNext == ASSUME HeapType', TaskType', DataType' PROVE TypeOK'
<1>1. {paused', handle'} \subseteq [Objs -> BOOLEAN]
  BY Zenon DEF HeapType
<1>2. {link', mdns_registered', missed', racy'} \subseteq BOOLEAN
  BY DEF DataType
<1> QED
  BY <1>1, <1>2, Zenon DEF TypeOK, HeapType, TaskType, DataType

LEMMA FirstIs ==
  ASSUME TypeOK, ListMatchesHeap, NEW i \in Ids, \E o \in Objs : HasId(o, i)
  PROVE  /\ Place(i) \in DOMAIN modbus /\ HasId(modbus[Place(i)], i)
         /\ \A n \in DOMAIN modbus : HasId(modbus[n], i) => Place(i) <= n
         /\ First(i) \in Objs /\ First(i) \in Range(modbus) /\ HasId(First(i), i)
<1>1. /\ DOMAIN modbus = 1..Len(modbus) /\ Len(modbus) \in Nat
      /\ \A x : x \in Range(modbus) <=> \E n \in DOMAIN modbus : modbus[n] = x
      /\ Range(modbus) \subseteq Objs
  BY ZenonT(60), RangeOf DEF TypeOK
<1>2. With(i) \subseteq Nat
  BY <1>1 DEF With
<1>3. With(i) # {}
  BY <1>1 DEF With, ListMatchesHeap, HasId
<1>4. \E m \in With(i) : \A k \in With(i) : m <= k
  BY <1>2, <1>3, Least
<1>5. Place(i) \in With(i) /\ \A k \in With(i) : Place(i) <= k
  BY <1>4 DEF Place
<1>6. /\ Place(i) \in DOMAIN modbus /\ HasId(modbus[Place(i)], i)
      /\ \A n \in DOMAIN modbus : HasId(modbus[n], i) => Place(i) <= n
  BY <1>5 DEF With
<1> QED
  BY <1>1, <1>6 DEF First

\* What a new object changes.
Born(o, d) ==
  /\ obj[o] = None /\ pollers[o] = 0 /\ o \notin Range(modbus)
  /\ obj'[o] = d /\ ~paused'[o] /\ ~handle'[o]
  /\ \A p \in Objs \ {o} : obj'[p] = obj[p] /\ paused'[p] = paused[p] /\ handle'[p] = handle[p]
  /\ pollers' = pollers
  /\ Range(modbus') = Range(modbus) \cup {o}
  /\ racy' = (racy \/ pc["chip"] = "starting" \/ pc["event"] \in {"pausing", "resuming"})
  /\ obj' \in [Objs -> Device \cup {None}]
  /\ paused' \in [Objs -> BOOLEAN] /\ handle' \in [Objs -> BOOLEAN]
  /\ modbus' \in Seq(Objs) /\ ListMatchesHeap'

LEMMA CreateHeap ==
  ASSUME TypeOK, ListMatchesHeap, NEW o \in Objs, NEW d \in Device, CreateModbus(o, d)
  PROVE  Born(o, d)
<1>1. /\ modbus \in Seq(Objs) /\ obj \in [Objs -> Device \cup {None}]
      /\ paused \in [Objs -> BOOLEAN] /\ handle \in [Objs -> BOOLEAN]
      /\ d # None
  BY ManagerAssumptions DEF TypeOK, ManagerAssumptions
<1>2. o \notin Range(modbus) /\ obj[o] = None /\ pollers[o] = 0
  BY DEF ListMatchesHeap, CreateModbus
<1>3. /\ modbus' = Append(modbus, o) /\ modbus' \in Seq(Objs)
      /\ Range(modbus') = Range(modbus) \cup {o}
      /\ IsInjective(modbus')
  BY <1>1, <1>2, Appended DEF CreateModbus, ListMatchesHeap
<1>4. /\ obj' = [obj EXCEPT ![o] = d] /\ paused' = [paused EXCEPT ![o] = FALSE]
      /\ handle' = [handle EXCEPT ![o] = FALSE] /\ pollers' = pollers
  BY DEF CreateModbus
<1>5. /\ obj'[o] = d /\ ~paused'[o] /\ ~handle'[o]
      /\ \A p \in Objs \ {o} : obj'[p] = obj[p] /\ paused'[p] = paused[p] /\ handle'[p] = handle[p]
      /\ obj' \in [Objs -> Device \cup {None}]
      /\ paused' \in [Objs -> BOOLEAN] /\ handle' \in [Objs -> BOOLEAN]
  BY <1>1, <1>4
<1>6. {p \in Objs : obj'[p] # None} = {p \in Objs : obj[p] # None} \cup {o}
  BY <1>1, <1>2, <1>5
<1>7. ListMatchesHeap'
  BY <1>3, <1>6 DEF ListMatchesHeap
<1> QED
  BY <1>2, <1>3, <1>4, <1>5, <1>7 DEF Born, CreateModbus, ListChanges

\* What deleting objects changes.
Dead(gone) ==
  /\ gone \subseteq Range(modbus)
  /\ \A p \in gone : obj'[p] = None /\ ~paused'[p] /\ ~handle'[p]
                     /\ pollers'[p] = IF handle[p] THEN pollers[p] - 1 ELSE pollers[p]
  /\ \A p \in Objs \ gone : /\ obj'[p] = obj[p] /\ paused'[p] = paused[p]
                            /\ handle'[p] = handle[p] /\ pollers'[p] = pollers[p]
  /\ Range(modbus') = Range(modbus) \ gone
  /\ racy' = (racy \/ pc["chip"] = "starting" \/ pc["event"] \in {"pausing", "resuming"})
  /\ obj' \in [Objs -> Device \cup {None}]
  /\ paused' \in [Objs -> BOOLEAN] /\ handle' \in [Objs -> BOOLEAN]
  /\ pollers' \in [Objs -> Nat]
  /\ modbus' \in Seq(Objs) /\ ListMatchesHeap' /\ Handled'

LEMMA DeleteHeap ==
  ASSUME TypeOK, ListMatchesHeap, Handled, NEW gone, NEW rest \in Seq(Objs), Delete(gone, rest),
         gone \subseteq Range(modbus), Range(rest) = Range(modbus) \ gone, IsInjective(rest)
  PROVE  Dead(gone)
<1>1. /\ modbus \in Seq(Objs) /\ obj \in [Objs -> Device \cup {None}]
      /\ paused \in [Objs -> BOOLEAN] /\ handle \in [Objs -> BOOLEAN]
      /\ pollers \in [Objs -> Nat]
      /\ gone \subseteq Objs /\ \A p \in gone : obj[p] # None
  BY RangeOf DEF TypeOK, ListMatchesHeap
<1>2. /\ obj' = [o \in Objs |-> IF o \in gone THEN None ELSE obj[o]]
      /\ pollers' = [o \in Objs |->
           IF o \in gone /\ handle[o] THEN pollers[o] - 1 ELSE pollers[o]]
      /\ paused' = [o \in Objs |-> o \notin gone /\ paused[o]]
      /\ handle' = [o \in Objs |-> o \notin gone /\ handle[o]]
      /\ modbus' = rest
  BY DEF Delete
<1>3. /\ \A p \in gone : obj'[p] = None /\ ~paused'[p] /\ ~handle'[p]
                         /\ pollers'[p] = IF handle[p] THEN pollers[p] - 1 ELSE pollers[p]
      /\ \A p \in Objs \ gone : /\ obj'[p] = obj[p] /\ pollers'[p] = pollers[p]
  BY <1>1, <1>2
<1>4. /\ \A p \in Objs \ gone : paused'[p] = paused[p] /\ handle'[p] = handle[p]
      /\ paused' \in [Objs -> BOOLEAN] /\ handle' \in [Objs -> BOOLEAN]
  <2>1. \A p \in Objs \ gone : (p \notin gone /\ paused[p]) = paused[p]
    BY <1>1, Zenon
  <2>2. \A p \in Objs \ gone : (p \notin gone /\ handle[p]) = handle[p]
    BY <1>1, Zenon
  <2> QED
    BY <1>1, <1>2, <2>1, <2>2, Zenon
<1>5. obj' \in [Objs -> Device \cup {None}] /\ pollers' \in [Objs -> Nat]
  BY <1>1, <1>2 DEF Handled
<1>6. {p \in Objs : obj'[p] # None} = {p \in Objs : obj[p] # None} \ gone
  BY <1>1, <1>3
<1>7. ListMatchesHeap'
  BY <1>2, <1>6 DEF ListMatchesHeap
<1>8. Handled'
  BY <1>1, <1>3, <1>4 DEF Handled
<1> QED
  BY <1>2, <1>3, <1>4, <1>5, <1>7, <1>8 DEF Dead, Delete, ListChanges

LEMMA RollBackHeap ==
  ASSUME Shape, Named, RollBack
  PROVE  Dead({First(request["http"].id)})
<1>1. TypeOK /\ ListMatchesHeap /\ Handled /\ request["http"] \in Device /\ request["http"].id \in Ids
  BY DEF Shape, Control, RollBack, Serving, TypeOK, Device
<1>2. \E o \in Objs : HasId(o, request["http"].id)
  BY DEF Named, Registered, RollBack
<1> DEFINE n == Place(request["http"].id)
           o == First(request["http"].id)
<1>3. n \in DOMAIN modbus /\ o = modbus[n] /\ o \in Range(modbus)
  BY <1>1, <1>2, FirstIs DEF First
<1>4. Delete({o}, RemoveAt(modbus, n))
  BY DEF RollBack
<1> HIDE DEF n, o
<1>s. modbus \in Seq(Objs) /\ IsInjective(modbus)
  BY <1>1 DEF TypeOK, ListMatchesHeap
<1>5. /\ RemoveAt(modbus, n) \in Seq(Objs) /\ IsInjective(RemoveAt(modbus, n))
      /\ Range(RemoveAt(modbus, n)) = Range(modbus) \ {o}
  BY <1>s, <1>3, Removed, Zenon
<1>6. Dead({o})
  BY <1>1, <1>3, <1>4, <1>5, DeleteHeap
<1> QED
  BY <1>6 DEF o

LEMMA ClearHeap ==
  ASSUME Shape, ClearModbus
  PROVE  Dead(Range(modbus)) /\ modbus' = <<>> /\ \A o \in Objs : obj'[o] = None
<1>1. TypeOK /\ ListMatchesHeap /\ Handled /\ Delete(Range(modbus), <<>>) /\ modbus' = <<>>
  BY DEF Shape, ClearModbus, Delete
<1>2. <<>> \in Seq(Objs) /\ Range(<<>>) = Range(modbus) \ Range(modbus) /\ IsInjective(<<>>)
  BY RangeOfNone
<1>3. Dead(Range(modbus))
  BY <1>1, <1>2, DeleteHeap
<1>4. \A o \in Objs : obj'[o] = None
  BY <1>1, <1>3 DEF Dead, ListMatchesHeap
<1> QED
  BY <1>1, <1>3, <1>4

-----------------------------------------------------------------------------
(* Where each task stands.                                                 *)

LEMMA AtResetTypes ==
  /\ <<>> \in Seq(Objs) /\ <<>> \in Seq(Device)
  /\ NoLoop \in [{"chip", "event"} -> Seq(Objs)]
  /\ NoRequest \in [{"main", "http"} -> Device \cup {None}]
  /\ 0 \in 0..MaxLinkEvents
<1>1. <<>> \in Seq(Objs) /\ <<>> \in Seq(Device)
  BY EmptySeq
<1>2. /\ DOMAIN NoLoop = {"chip", "event"} /\ NoLoop["chip"] = <<>> /\ NoLoop["event"] = <<>>
      /\ NoLoop = [x \in {"chip", "event"} |-> NoLoop[x]]
  BY DEF NoLoop
<1>3. NoLoop \in [{"chip", "event"} -> Seq(Objs)]
  BY <1>1, <1>2, Zenon
<1>4. NoRequest \in [{"main", "http"} -> Device \cup {None}]
  BY DEF NoRequest
<1>5. 0 \in 0..MaxLinkEvents
  BY ManagerAssumptions DEF ManagerAssumptions
<1> QED
  BY <1>1, <1>3, <1>4, <1>5

LEMMA InitShape == Init => Shape
<1> SUFFICES ASSUME Init PROVE Shape
  OBVIOUS
<1>1. TypeOK
  <2>1. HeapType
    BY DEF Init, HeapType, NoObject, NotOne, NoPoller
  <2>2. TaskType
    BY AtResetTypes DEF Init, TaskType, AtReset
  <2>3. DataType
    BY AtResetTypes DEF Init, DataType
  <2> QED
    BY <2>1, <2>2, <2>3, TypesMake
<1>2. Control
  BY DEF Init, Control, Serving, Stored, AtReset, NoRequest, NoLoop
<1>3. Handled /\ ListMatchesHeap
  BY RangeOfNone DEF Init, Handled, ListMatchesHeap, NoObject, NotOne, NoPoller
<1> QED
  BY <1>1, <1>2, <1>3 DEF Shape

\* What a task holds while it stands where it does.
LEMMA Holding ==
  ASSUME Shape
  PROVE  /\ pc["main"] \in {"init", "restore", "matter", "done"}
         /\ pc["chip"] \in {"idle", "starting"}
         /\ pc["event"] \in {"off", "idle", "pausing", "resuming"}
         /\ {"main", "chip", "event", "http"} = DOMAIN pc
         /\ {"main", "http"} = DOMAIN request /\ {"chip", "event"} = DOMAIN todo
         /\ pc["main"] = "matter" => request["main"] \in Device /\ request["main"].id \in Ids
         /\ Serving => request["http"] \in Device /\ request["http"].id \in Ids
         /\ pc["http"] # "off" => pc["main"] = "done"
         /\ todo["chip"] \in Seq(Objs) /\ todo["event"] \in Seq(Objs)
         /\ modbus \in Seq(Objs) /\ matter \in Seq(Device)
         /\ \A o \in Objs : obj[o] \in Device \cup {None} /\ pollers[o] \in Nat
         /\ \A o \in Objs : obj[o] # None => obj[o].id \in Ids
         /\ \A d \in Device : d.id \in Ids /\ d.cfg \in Configs /\ d # None
         /\ \A o \in Objs : o \in Range(modbus) <=> obj[o] # None
  BY ManagerAssumptions
     DEF ManagerAssumptions, Shape, TypeOK, Control, Serving, Device, ListMatchesHeap

\* No object is born, dies or gets another task.
LEMMA SameHeap ==
  ASSUME Shape, UNCHANGED <<modbus, obj, handle, pollers>>, TypeOK', Control'
  PROVE  Shape'
  BY DEF Shape, Handled, ListMatchesHeap

LEMMA RestoreShape ==
  ASSUME Shape, NEW i \in Ids, RestoreModbus(i)
  PROVE  /\ Shape'
         /\ \E o \in Objs : Born(o, [id |-> i, cfg |-> store[i]])
<1>1. /\ TypeOK /\ Control /\ Handled /\ ListMatchesHeap /\ store[i] # None /\ store[i] \in Configs
      /\ i \in boot /\ pc["main"] = "restore"
  BY DEF Shape, Control, Stored, TypeOK, RestoreModbus
<1> DEFINE d == [id |-> i, cfg |-> store[i]]
<1>2. d \in Device /\ d # None
  BY <1>1, ManagerAssumptions DEF Device, ManagerAssumptions
<1>3. PICK o \in Objs : CreateModbus(o, d)
  BY DEF RestoreModbus
<1>4. /\ request' = [request EXCEPT !["main"] = d]
      /\ boot' = boot \ {i} /\ pc' = [pc EXCEPT !["main"] = "matter"]
      /\ UNCHANGED <<store, matter, todo, net, put, rolled, early, missed>>
  BY DEF RestoreModbus, Goto
<1> HIDE DEF d
<1>5. Born(o, d)
  BY <1>1, <1>2, <1>3, CreateHeap
<1>6. TypeOK'
  <2>1. HeapType'
    BY <1>1, <1>5, TypesOf DEF HeapType, Born
  <2>2. TaskType'
    BY <1>1, <1>2, <1>4, TypesOf, Holding DEF TaskType
  <2>3. DataType'
    BY <1>1, <1>4, <1>5, TypesOf DEF DataType, Born, net
  <2> QED
    BY <2>1, <2>2, <2>3, TypesMakeNext
<1>7. Control'
  <2>1. /\ pc["http"] = "off" /\ put = {} /\ request' = [request EXCEPT !["main"] = d]
        /\ DOMAIN request = {"main", "http"} /\ Stored' = Stored
    BY <1>1, <1>4, Holding DEF Control, Stored
  <2> QED
    BY <1>1, <1>2, <1>4, <2>1 DEF Control, Serving, net
<1>8. Handled'
  BY SMTT(30), <1>1, <1>5, Holding DEF Handled, Born
<1> QED
  BY <1>5, <1>6, <1>7, <1>8 DEF Shape, Born, d

LEMMA RegisterShape ==
  ASSUME Shape, NEW o \in Objs, RegisterModbus(o)
  PROVE  Shape' /\ Born(o, request["http"])
<1>1. /\ TypeOK /\ Control /\ Handled /\ ListMatchesHeap /\ request["http"] \in Device
      /\ pc["http"] = "modbus"
  BY Holding DEF Shape, RegisterModbus, Serving
<1>4. /\ early' = IF mdns_registered THEN early \ {o} ELSE early \cup {o}
      /\ pc' = [pc EXCEPT !["http"] = "matter"]
      /\ UNCHANGED <<store, matter, boot, request, todo, net, put, rolled, missed>>
  BY DEF RegisterModbus, Goto
<1>5. Born(o, request["http"])
  BY <1>1, CreateHeap DEF RegisterModbus
<1>6. TypeOK'
  <2>1. HeapType'
    BY <1>1, <1>5, TypesOf DEF HeapType, Born
  <2>2. TaskType'
    BY <1>1, <1>4, TypesOf, Holding DEF TaskType
  <2>3. DataType'
    BY <1>1, <1>4, <1>5, TypesOf DEF DataType, Born, net
  <2> QED
    BY <2>1, <2>2, <2>3, TypesMakeNext
<1>7. Control'
  BY <1>1, <1>4, <1>5 DEF Control, Serving, Stored, net
<1>8. Handled'
  <2> SUFFICES ASSUME NEW p \in Objs, obj'[p] # None PROVE handle'[p] <=> pollers'[p] > 0
    BY DEF Handled
  <2>1. CASE p = o
    BY <1>5, <2>1 DEF Born
  <2>2. CASE p # o
    BY <1>1, <1>5, <2>2 DEF Handled, Born
  <2> QED
    BY <2>1, <2>2
<1> QED
  BY <1>5, <1>6, <1>7, <1>8 DEF Shape, Born

LEMMA StartShape ==
  ASSUME Shape, NEW o \in Objs, Start(o), TypeOK, Control', UNCHANGED modbus,
         pollers' \in [Objs -> Nat] /\ handle' \in [Objs -> BOOLEAN] => TypeOK'
  PROVE  Shape'
<1>1. /\ pollers \in [Objs -> Nat] /\ handle \in [Objs -> BOOLEAN]
      /\ pollers' = [pollers EXCEPT ![o] = @ + 1]
      /\ handle' = [handle EXCEPT ![o] = TRUE] /\ obj' = obj
  BY DEF Start, TypeOK
<1>2. /\ pollers' \in [Objs -> Nat] /\ handle' \in [Objs -> BOOLEAN]
      /\ handle'[o] /\ pollers'[o] > 0
      /\ \A p \in Objs \ {o} : pollers'[p] = pollers[p] /\ handle'[p] = handle[p]
  BY <1>1
<1>3. Handled'
  BY <1>1, <1>2 DEF Handled, Shape
<1>4. ListMatchesHeap'
  BY <1>1 DEF Shape, ListMatchesHeap
<1> QED
  BY <1>2, <1>3, <1>4 DEF Shape

LEMMA StepShape == ASSUME Shape, Named, [Next]_vars PROVE Shape'
<1>0. TypeOK /\ Control /\ Handled /\ ListMatchesHeap
  BY DEF Shape
<1>1. CASE InitManagers
  <2>1. TypeOK' /\ Control'
    BY <1>0, <1>1 DEF InitManagers, TypeOK, Control, Serving, Stored, lists, objects, net, history
  <2> QED
    BY <2>1, <1>1, SameHeap DEF InitManagers, lists, objects
<1>2. ASSUME NEW i \in Ids, RestoreModbus(i) PROVE Shape'
  BY <1>2, RestoreShape
<1>3. CASE RestoreMatter
  <2>1. matter' \in Seq(Device)
    BY SMTT(30), <1>0, <1>3, Holding, Appended DEF RestoreMatter
  <2>2. TypeOK' /\ Control'
    BY <1>0, <1>3, <2>1, Holding
       DEF RestoreMatter, TypeOK, Control, Serving, Stored, Goto, objects, net, history
  <2> QED
    BY <2>2, <1>3, SameHeap DEF RestoreMatter, objects
<1>4. CASE StartWebServer
  <2>1. TypeOK' /\ Control'
    BY <1>0, <1>4 DEF StartWebServer, TypeOK, Control, Serving, Stored, lists, objects, net, history
  <2> QED
    BY <2>1, <1>4, SameHeap DEF StartWebServer, lists, objects
<1>5. CASE IpAddressChanged
  <2>0. HeapType' /\ TaskType' /\ DataType'
    <3>1. HeapType'
      BY <1>0, <1>5, TypesOf DEF IpAddressChanged, HeapType, lists, objects
    <3>2. TaskType'
      BY <1>0, <1>5, TypesOf, Holding DEF IpAddressChanged, HeapType, TaskType, Goto
    <3>3. DataType'
      BY <1>0, <1>5, TypesOf DEF IpAddressChanged, DataType, lists
    <3> QED
      BY <3>1, <3>2, <3>3
  <2>1. TypeOK' /\ Control'
    <3>1. TypeOK'
      BY <2>0, TypesMakeNext
    <3>2. Control'
      BY <1>0, <1>5, Holding
         DEF IpAddressChanged, Control, Serving, Stored, Goto, lists
    <3> QED
      BY <3>1, <3>2
  <2> QED
    BY <2>1, <1>5, SameHeap DEF IpAddressChanged, lists, objects
<1>6. CASE StartNext
  <2>1. /\ Head(todo["chip"]) \in Objs /\ Tail(todo["chip"]) \in Seq(Objs)
        /\ Start(Head(todo["chip"])) /\ todo' = [todo EXCEPT !["chip"] = Tail(@)]
        /\ UNCHANGED <<store, modbus, matter, pc, boot, request, net, history, obj, paused>>
    BY <1>6, Holding, Walked DEF StartNext, Start, lists
  <2>2. Control'
    <3>1. pc["chip"] = "starting" /\ Stored' = Stored
      BY <1>6, <2>1 DEF StartNext, Stored
    <3> QED
      BY <1>0, <2>1, <3>1, Holding DEF Control, Serving, net, history
  <2>3. ASSUME pollers' \in [Objs -> Nat], handle' \in [Objs -> BOOLEAN] PROVE TypeOK'
    <3>1. HeapType'
      BY <1>0, <2>1, <2>3, TypesOf DEF HeapType
    <3>2. TaskType'
      BY <1>0, <2>1, TypesOf, Holding DEF TaskType
    <3>3. DataType'
      BY <1>0, <2>1, TypesOf DEF DataType, net, history
    <3> QED
      BY <3>1, <3>2, <3>3, TypesMakeNext
  <2> QED
    BY <1>0, <2>1, <2>2, <2>3, StartShape
<1>7. CASE AllStarted
  <2>1. TypeOK' /\ Control'
    BY <1>0, <1>7
       DEF AllStarted, TypeOK, Control, Serving, Stored, Goto, lists, objects, net, history
  <2> QED
    BY <2>1, <1>7, SameHeap DEF AllStarted, lists, objects
<1>8. ASSUME NEW up \in BOOLEAN, LinkChanges(up) PROVE Shape'
  <2>1. TypeOK'
    <3>1. HeapType'
      BY <1>0, <1>8, TypesOf DEF LinkChanges, HeapType, lists, objects
    <3>2. TaskType'
      BY <1>0, <1>8, TypesOf, Holding DEF LinkChanges, TaskType, Goto
    <3>3. DataType'
      BY <1>0, <1>8, TypesOf, ManagerAssumptions
         DEF ManagerAssumptions, LinkChanges, DataType, lists, history
    <3> QED
      BY <3>1, <3>2, <3>3, TypesMakeNext
  <2>2. Control'
    BY <1>0, <1>8, Holding
       DEF LinkChanges, Control, Serving, Stored, Goto, lists, objects, history
  <2> QED
    BY <2>1, <2>2, <1>8, SameHeap DEF LinkChanges, lists, objects
<1>9. CASE PauseNext
  <2>1. Head(todo["event"]) \in Objs /\ Tail(todo["event"]) \in Seq(Objs)
    BY <1>9, Holding, Walked DEF PauseNext
  <2>2. paused' \in [Objs -> BOOLEAN]
    BY <1>0, <1>9, <2>1 DEF PauseNext, TypeOK
  <2>3. TypeOK' /\ Control'
    BY <1>0, <1>9, <2>1, <2>2 DEF PauseNext, TypeOK, Control, Serving, Stored, lists, net, history
  <2> QED
    BY <2>3, <1>9, SameHeap DEF PauseNext, lists
<1>10. CASE AllPaused
  <2>1. TypeOK' /\ Control'
    BY <1>0, <1>10
       DEF AllPaused, TypeOK, Control, Serving, Stored, Goto, lists, objects, net, history
  <2> QED
    BY <2>1, <1>10, SameHeap DEF AllPaused, lists, objects
<1>11. ASSUME NEW i \in Ids, NEW cfg \in Configs, Post(i, cfg) \/ Put(i, cfg) PROVE Shape'
  <2>1. /\ Register(i, cfg) /\ put' \in {put, put \cup {i}}
        /\ [id |-> i, cfg |-> cfg] \in Device /\ [id |-> i, cfg |-> cfg] # None /\ cfg # None
    BY <1>11, ManagerAssumptions DEF Post, Put, Device, ManagerAssumptions
  <2>2. TypeOK'
    <3>1. HeapType'
      BY <1>0, <2>1, TypesOf DEF Register, HeapType, lists, objects
    <3>2. TaskType'
      BY <1>0, <2>1, TypesOf, Holding DEF Register, TaskType, Goto
    <3>3. DataType'
      BY <1>0, <2>1, TypesOf DEF Register, DataType, lists, net
    <3> QED
      BY <3>1, <3>2, <3>3, TypesMakeNext
  <2>3. Control'
    BY <1>0, <2>1, Holding DEF Register, Control, Serving, Stored, TypeOK, Goto, lists, objects, net
  <2> QED
    BY <2>1, <2>2, <2>3, SameHeap DEF Register, lists, objects
<1>12. ASSUME NEW o \in Objs, RegisterModbus(o) PROVE Shape'
  BY <1>12, RegisterShape
<1>13. CASE RegisterMatter
  <2>1. matter' \in Seq(Device)
    BY SMTT(30), <1>0, <1>13, Holding, Appended DEF RegisterMatter, Serving
  <2>2. TypeOK' /\ Control'
    BY <1>0, <1>13, <2>1, Holding
       DEF RegisterMatter, TypeOK, Control, Serving, Stored, Goto, objects, net, history
  <2> QED
    BY <2>2, <1>13, SameHeap DEF RegisterMatter, objects
<1>14. CASE StartRegistered
  <2>0. \E o \in Objs : HasId(o, request["http"].id)
    BY <1>14 DEF Named, Registered, StartRegistered
  <2>1. First(request["http"].id) \in Objs
    BY <1>0, <1>14, <2>0, Holding, FirstIs DEF StartRegistered, Serving
  <2>2. /\ Start(First(request["http"].id))
        /\ request' = [request EXCEPT !["http"] = None] /\ pc' = [pc EXCEPT !["http"] = "idle"]
        /\ UNCHANGED <<store, modbus, matter, boot, todo, net, history, obj, paused>>
    BY <1>14 DEF StartRegistered, Respond, Goto, Start, lists
  <2>3. Control'
    BY <1>0, <1>14, <2>2, Holding DEF StartRegistered, Control, Serving, Stored, net, history
  <2>4. ASSUME pollers' \in [Objs -> Nat], handle' \in [Objs -> BOOLEAN] PROVE TypeOK'
    <3>1. HeapType'
      BY <1>0, <2>2, <2>4, TypesOf DEF HeapType
    <3>2. TaskType'
      BY <1>0, <2>2, TypesOf, Holding DEF TaskType
    <3>3. DataType'
      BY <1>0, <2>2, TypesOf DEF DataType, net, history
    <3> QED
      BY <3>1, <3>2, <3>3, TypesMakeNext
  <2> QED
    BY <1>0, <2>1, <2>2, <2>3, <2>4, StartShape
<1>15. CASE RollBack
  <2>1. Dead({First(request["http"].id)})
    BY <1>15, RollBackHeap
  <2>2. /\ request' = [request EXCEPT !["http"] = None] /\ pc' = [pc EXCEPT !["http"] = "idle"]
        /\ UNCHANGED <<store, matter, boot, todo, net, put, early, missed>>
    BY <1>15 DEF RollBack, Respond, Goto
  <2>5. rolled' \subseteq Ids
    <3>1. request["http"].id \in Ids
      BY <1>0, <1>15, Holding DEF RollBack, Serving, Device
    <3>2. rolled' = rolled \/ rolled' = rolled \cup {request["http"].id}
      BY <1>15 DEF RollBack
    <3> QED
      BY <1>0, <3>1, <3>2, TypesOf DEF DataType
  <2>3. TypeOK'
    <3>1. HeapType'
      BY <2>1 DEF HeapType, Dead
    <3>2. TaskType'
      BY <1>0, <2>2, TypesOf, Holding DEF TaskType
    <3>3. DataType'
      BY <1>0, <2>1, <2>2, <2>5, TypesOf DEF DataType, Dead, net
    <3> QED
      BY <3>1, <3>2, <3>3, TypesMakeNext
  <2>4. Control'
    BY <1>0, <1>15, <2>2, Holding DEF RollBack, Control, Serving, Stored, net
  <2> QED
    BY <2>1, <2>3, <2>4 DEF Dead, Shape
<1>16. ASSUME NEW i \in Ids, DeleteDevice(i) PROVE Shape'
  <2>1. TypeOK' /\ Control'
    BY <1>0, <1>16, Holding
       DEF DeleteDevice, TypeOK, Control, Serving, Stored, lists, objects, net, history
  <2> QED
    BY <2>1, <1>16, SameHeap DEF DeleteDevice, lists, objects
<1>17. CASE FactoryReset
  <2>1. TypeOK' /\ Control'
    BY <1>0, <1>17
       DEF FactoryReset, TypeOK, Control, Serving, Stored, Goto, lists, objects, net, history
  <2> QED
    BY <2>1, <1>17, SameHeap DEF FactoryReset, lists, objects
<1>18. CASE ClearMatter
  <2>1. TypeOK' /\ Control'
    BY <1>0, <1>18, AtResetTypes, Holding
       DEF ClearMatter, TypeOK, Control, Serving, Stored, Goto, objects, net, history
  <2> QED
    BY <2>1, <1>18, SameHeap DEF ClearMatter, objects
<1>19. CASE ClearModbus
  <2>1. Dead(Range(modbus)) /\ modbus' = <<>>
    BY <1>19, ClearHeap
  <2>2. /\ pc' = [pc EXCEPT !["http"] = "clear store"]
        /\ UNCHANGED <<store, matter, boot, request, todo, net, put, rolled, early, missed>>
    BY <1>19 DEF ClearModbus, Goto
  <2>3. TypeOK'
    <3>1. HeapType'
      BY <2>1 DEF HeapType, Dead
    <3>2. TaskType'
      BY <1>0, <2>2, TypesOf, Holding DEF TaskType
    <3>3. DataType'
      BY <1>0, <2>1, <2>2, TypesOf DEF DataType, Dead, net
    <3> QED
      BY <3>1, <3>2, <3>3, TypesMakeNext
  <2>4. Control'
    <3>1. pc["http"] = "clear modbus" /\ pc["main"] = "done" /\ matter = <<>> /\ Stored' = Stored
      BY <1>0, <1>19, <2>2, Holding DEF ClearModbus, Control, Stored
    <3> QED
      BY <1>0, <2>1, <2>2, <3>1, Holding DEF Control, Serving, net
  <2> QED
    BY <2>1, <2>3, <2>4 DEF Dead, Shape
<1>20. CASE ClearStore
  <2>1. TypeOK' /\ Control'
    BY <1>0, <1>20, Holding
       DEF ClearStore, TypeOK, Control, Serving, Stored, Goto, lists, objects, net, history
  <2> QED
    BY <2>1, <1>20, SameHeap DEF ClearStore, lists, objects
<1>21. CASE Restart
  <2>1. TypeOK'
    <3>1. HeapType'
      BY <1>21 DEF Restart, HeapType, NoObject, NotOne, NoPoller
    <3>2. TaskType'
      BY <1>21, AtResetTypes DEF Restart, TaskType, AtReset
    <3>3. DataType'
      BY <1>0, <1>21, TypesOf, AtResetTypes DEF Restart, DataType
    <3> QED
      BY <3>1, <3>2, <3>3, TypesMakeNext
  <2>2. Control'
    BY <1>21 DEF Restart, Control, Serving, Stored, AtReset, NoRequest, NoLoop
  <2>3. (Handled /\ ListMatchesHeap)'
    BY <1>21, RangeOfNone DEF Restart, Handled, ListMatchesHeap, NoObject, NotOne, NoPoller
  <2> QED
    BY <2>1, <2>2, <2>3 DEF Shape
<1>22. CASE UNCHANGED vars
  BY <1>0, <1>22 DEF vars, lists, objects, net, history, Shape, TypeOK, Control, Handled,
     ListMatchesHeap, Serving, Stored
<1> QED
  BY <1>1, <1>2, <1>3, <1>4, <1>5, <1>6, <1>7, <1>8, <1>9, <1>10, <1>11, <1>12, <1>13, <1>14,
     <1>15, <1>16, <1>17, <1>18, <1>19, <1>20, <1>21, <1>22 DEF Next

-----------------------------------------------------------------------------
(* Ids.                                                                    *)

\* A step that changes neither objects nor endpoints.
LEMMA NamedFrame ==
  ASSUME Named, UNCHANGED <<obj, matter>>, put \subseteq put', boot' \subseteq boot,
         pc'["main"] = "matter" => pc["main"] = "matter" /\ request'["main"] = request["main"],
         Serving' => /\ Serving /\ request'["http"] = request["http"]
                     /\ (Registered <=> Registered')
                     /\ (pc["http"] = "start" => pc'["http"] = "start")
  PROVE  Named'
<1>1. \A o \in Objs : \A i : HasId(o, i)' = HasId(o, i)
  BY DEF HasId
<1>2. \A i : Bridged(i)' = Bridged(i)
  BY DEF Bridged
<1>3. Registered => Serving
  BY DEF Registered, Serving
<1>4. Registered' => Serving'
  BY DEF Registered, Serving
<1>5. \A o, p \in Objs, i \in Ids \ put' : HasId(o, i)' /\ HasId(p, i)' => o = p
  BY <1>1 DEF Named
<1>6. \A i \in boot' : ~Bridged(i)' /\ \A o \in Objs : ~HasId(o, i)'
  BY <1>1, <1>2 DEF Named
<1>7. (pc["main"] = "matter" =>
         /\ \E o \in Objs : HasId(o, request["main"].id)
         /\ \A o \in Objs : HasId(o, request["main"].id) => obj[o] = request["main"]
         /\ ~Bridged(request["main"].id))'
  BY DEF Named, HasId, Bridged
<1>8. (Registered => \E o \in Objs : HasId(o, request["http"].id))'
  BY <1>4 DEF Named, HasId
<1>9. (Serving /\ request["http"].id \notin put =>
         /\ \A o \in Objs : HasId(o, request["http"].id) =>
                              Registered /\ obj[o] = request["http"]
         /\ pc["http"] # "start" => ~Bridged(request["http"].id))'
  BY DEF Named, HasId, Bridged
<1> QED
  BY <1>5, <1>6, <1>7, <1>8, <1>9, Zenon DEF Named

LEMMA InitNamed == ASSUME Init PROVE Named
<1>1. \A o \in Objs : \A i : ~HasId(o, i)
  BY DEF Init, NoObject, HasId
<1>2. /\ pc["main"] = "init" /\ boot = {} /\ ~Registered /\ ~Serving
  BY DEF Init, AtReset, Registered, Serving
<1> QED
  BY <1>1, <1>2 DEF Named

LEMMA StepNamed ==
  ASSUME Shape, Named, Shape', [Next]_vars
  PROVE  Named'
<1>0. \A o \in Objs : \A i : HasId(o, i) <=> obj[o] # None /\ obj[o].id = i
  BY DEF HasId
<1>0p. \A o \in Objs : \A i : HasId(o, i)' <=> obj'[o] # None /\ obj'[o].id = i
  BY DEF HasId
<1>b. \A i : Bridged(i) <=> \E m \in Range(matter) : m.id = i
  BY DEF Bridged
<1>c. \A i : Bridged(i)' <=> \E m \in Range(matter') : m.id = i
  BY DEF Bridged
<1>n. /\ \A o, p \in Objs, i \in Ids \ put : HasId(o, i) /\ HasId(p, i) => o = p
      /\ \A i \in boot : ~Bridged(i) /\ \A o \in Objs : ~HasId(o, i)
  BY DEF Named
<1>1. CASE InitManagers
  <2>1. /\ pc["main"] = "init" /\ pc' = [pc EXCEPT !["main"] = "restore", !["event"] = "idle"]
        /\ UNCHANGED <<obj, matter>>
    BY <1>1 DEF InitManagers, lists, objects
  <2>2. modbus = <<>> /\ matter = <<>> /\ pc["http"] = "off"
    BY <2>1 DEF Shape, Control
  <2>3. \A o \in Objs : obj[o] = None
    BY <2>2, Holding, RangeOfNone
  <2>4. \A i : ~Bridged(i)
    BY <2>2, RangeOfNone DEF Bridged
  <2>5. pc'["main"] = "restore" /\ pc'["http"] = "off"
    BY <2>1, <2>2, Holding
  <2>6. ~Registered' /\ ~Serving'
    BY <2>5 DEF Registered, Serving
  <2>7. (\A o \in Objs : \A i : ~HasId(o, i)') /\ \A i : ~Bridged(i)'
    BY <2>1, <2>3, <2>4, <1>0p, <1>b, <1>c
  <2> QED
    BY <2>5, <2>6, <2>7 DEF Named
<1>2. ASSUME NEW i \in Ids, RestoreModbus(i) PROVE Named'
  <2> DEFINE d == [id |-> i, cfg |-> store[i]]
  <2>1. PICK o \in Objs : Born(o, d)
    BY <1>2, RestoreShape
  <2>2. /\ i \in boot /\ boot' = boot \ {i} /\ pc'["main"] = "matter" /\ pc'["http"] = "off"
        /\ request'["main"] = d /\ matter' = matter /\ put' = put
        /\ store[i] # None /\ store[i] \in Configs
    BY <1>2, Holding DEF RestoreModbus, Goto, Shape, Control, Stored, TypeOK
  <2>3. d.id = i /\ d # None
    BY <2>2, ManagerAssumptions DEF Device, ManagerAssumptions
  <2> HIDE DEF d
  <2>4. \A p \in Objs : \A j : HasId(p, j)' <=> HasId(p, j) \/ (p = o /\ j = i)
    BY <2>1, <2>3, <1>0, <1>0p DEF Born
  <2>5. \A j : Bridged(j)' <=> Bridged(j)
    BY <2>2, <1>b, <1>c
  <2>6. ~Registered' /\ ~Serving'
    BY <2>2 DEF Registered, Serving
  <2>7. ~Bridged(i) /\ \A p \in Objs : ~HasId(p, i)
    BY <1>n, <2>2
  <2>8. \A p \in Objs : HasId(p, i)' => obj'[p] = d
    BY <2>1, <2>4, <2>7 DEF Born
  <2>9. \A p, q \in Objs, j \in Ids \ put' : HasId(p, j)' /\ HasId(q, j)' => p = q
    BY <1>n, <2>2, <2>4, <2>7
  <2>10. \A j \in boot' : ~Bridged(j)' /\ \A p \in Objs : ~HasId(p, j)'
    BY <1>n, <2>2, <2>4, <2>5
  <2>11. HasId(o, i)'
    BY <2>4
  <2> QED
    BY <2>2, <2>3, <2>5, <2>6, <2>7, <2>8, <2>9, <2>10, <2>11 DEF Named
<1>3. CASE RestoreMatter
  <2>1. /\ pc["main"] = "matter" /\ pc'["main"] = "restore" /\ pc'["http"] = "off"
        /\ UNCHANGED <<obj, put, boot>>
        /\ request["main"] \in Device /\ request["main"].id \in Ids
        /\ matter' \in {Append(matter, request["main"]), matter}
    BY <1>3, Holding DEF RestoreMatter, Goto, Shape, Control, objects, history
  <2>2. Range(matter') \subseteq Range(matter) \cup {request["main"]}
    <3>1. matter \in Seq(Device) /\ request["main"] \in Device
      BY <2>1, Holding
    <3>2. Range(Append(matter, request["main"])) = Range(matter) \cup {request["main"]}
      BY <3>1, Appended
    <3> QED
      BY <2>1, <3>2
  <2>3. request["main"].id \notin boot
    BY <2>1 DEF Named
  <2>4. \A i \in boot : ~Bridged(i)'
    BY <2>2, <2>3, <1>n, <1>b, <1>c
  <2>5. \A o \in Objs : \A i : HasId(o, i)' = HasId(o, i)
    BY <2>1 DEF HasId
  <2>6. ~Registered' /\ ~Serving'
    BY <2>1 DEF Registered, Serving
  <2> QED
    BY <1>n, <2>1, <2>4, <2>5, <2>6 DEF Named
<1>4. CASE StartWebServer
  <2>1. /\ pc' = [pc EXCEPT !["main"] = "done", !["http"] = "idle"]
        /\ UNCHANGED <<obj, matter, put, boot>>
    BY <1>4 DEF StartWebServer, lists, objects, history
  <2>2. pc'["main"] = "done" /\ ~Serving'
    BY <2>1, Holding DEF Serving
  <2> QED
    BY <2>1, <2>2, NamedFrame
<1>5. CASE IpAddressChanged \/ StartNext \/ AllStarted \/ PauseNext \/ AllPaused
           \/ \E up \in BOOLEAN : LinkChanges(up)
  <2>1. /\ pc'["main"] = pc["main"] /\ pc'["http"] = pc["http"]
        /\ UNCHANGED <<obj, matter, put, boot, request>>
    BY <1>5, Holding
       DEF IpAddressChanged, StartNext, Start, AllStarted, PauseNext, AllPaused, LinkChanges, Goto,
           lists, objects, history
  <2>2. (Serving' <=> Serving) /\ (Registered' <=> Registered)
    BY <2>1 DEF Serving, Registered
  <2> QED
    BY <2>1, <2>2, NamedFrame
<1>6. ASSUME NEW i \in Ids, NEW cfg \in Configs, Post(i, cfg) \/ Put(i, cfg) PROVE Named'
  <2>1. /\ Register(i, cfg) /\ put \subseteq put'
        /\ i \notin put' => (\A o \in Objs : ~HasId(o, i)) /\ ~Bridged(i)
    BY <1>6, Zenon DEF Post, Put, Fresh, Bridged
  <2>2. /\ pc["http"] = "idle" /\ pc'["http"] = "modbus" /\ pc'["main"] = "done"
        /\ request'["http"].id = i /\ UNCHANGED <<obj, matter, boot>> /\ boot = {}
    BY <2>1, Holding DEF Register, Goto, lists, objects, Shape, Control
  <2>3. \A o \in Objs : \A j : HasId(o, j)' = HasId(o, j)
    BY <2>2 DEF HasId
  <2>4. \A j : Bridged(j)' = Bridged(j)
    BY <2>2 DEF Bridged
  <2>5. ~Registered'
    BY <2>2 DEF Registered
  <2> QED
    BY <1>n, <2>1, <2>2, <2>3, <2>4, <2>5 DEF Named
<1>7. ASSUME NEW o \in Objs, RegisterModbus(o) PROVE Named'
  <2>1. Born(o, request["http"])
    BY <1>7, RegisterShape
  <2>2. /\ pc["http"] = "modbus" /\ pc'["http"] = "matter" /\ pc'["main"] = "done" /\ boot' = {}
        /\ request["http"] \in Device /\ request["http"].id \in Ids /\ request["http"] # None
        /\ UNCHANGED <<matter, put, request>>
    BY <1>7, Holding DEF RegisterModbus, Goto, Shape, Control, Serving
  <2>3. \A p \in Objs : \A j : HasId(p, j)' <=> HasId(p, j) \/ (p = o /\ j = request["http"].id)
    BY <2>1, <2>2, <1>0, <1>0p DEF Born
  <2>4. \A j : Bridged(j)' <=> Bridged(j)
    BY <2>2, <1>b, <1>c
  <2>5. request["http"].id \notin put =>
          (\A p \in Objs : ~HasId(p, request["http"].id)) /\ ~Bridged(request["http"].id)
    BY <2>2 DEF Named, Serving, Registered
  <2>6. Registered' /\ Serving'
    BY <2>2 DEF Registered, Serving
  <2>7. \A p, q \in Objs, j \in Ids \ put' : HasId(p, j)' /\ HasId(q, j)' => p = q
    BY <1>n, <2>2, <2>3, <2>5
  <2>8. request["http"].id \notin put =>
          \A p \in Objs : HasId(p, request["http"].id)' => obj'[p] = request["http"]
    BY <2>1, <2>2, <2>3, <2>5 DEF Born
  <2>9. HasId(o, request["http"].id)'
    BY <2>2, <2>3
  <2> QED
    BY <2>2, <2>4, <2>5, <2>6, <2>7, <2>8, <2>9 DEF Named
<1>8. CASE RegisterMatter
  <2>1. /\ pc["http"] = "matter" /\ pc'["main"] = "done" /\ boot' = {}
        /\ UNCHANGED <<obj, put, request>>
        /\ pc'["http"] = "start" \/ (pc'["http"] = "rollback" /\ matter' = matter)
    BY <1>8, Holding DEF RegisterMatter, Goto, Shape, Control, objects, history
  <2>2. \A o \in Objs : \A j : HasId(o, j)' = HasId(o, j)
    BY <2>1 DEF HasId
  <2>3. Registered /\ Serving /\ Registered' /\ Serving'
    BY <2>1 DEF Registered, Serving
  <2>4. pc'["http"] # "start" => \A j : Bridged(j)' = Bridged(j)
    BY <2>1, <1>b, <1>c
  <2> QED
    BY <1>n, <2>1, <2>2, <2>3, <2>4 DEF Named
<1>9. CASE StartRegistered
  <2>1. /\ pc'["main"] = pc["main"] /\ pc'["http"] = "idle" /\ request'["main"] = request["main"]
        /\ UNCHANGED <<obj, matter, put, boot>>
    BY <1>9, Holding DEF StartRegistered, Respond, Goto, Start, lists, history
  <2>2. ~Serving'
    BY <2>1 DEF Serving
  <2> QED
    BY <2>1, <2>2, NamedFrame
<1>10. CASE RollBack \/ ClearModbus
  <2>1. PICK gone : Dead(gone)
    BY <1>10, RollBackHeap, ClearHeap
  <2>2. /\ pc'["main"] = "done" /\ pc'["http"] \in {"idle", "clear store"} /\ boot' = {}
        /\ put' = put
    BY <1>10, Holding DEF RollBack, ClearModbus, Respond, Goto, Shape, Control
  <2>3. \A o \in Objs : \A j : HasId(o, j)' => HasId(o, j)
    BY <2>1, <1>0, <1>0p DEF Dead
  <2>4. ~Serving' /\ ~Registered'
    BY <2>2 DEF Serving, Registered
  <2>5. \A p, q \in Objs, j \in Ids \ put' : HasId(p, j)' /\ HasId(q, j)' => p = q
    BY <1>n, <2>2, <2>3
  <2> QED
    BY <2>2, <2>4, <2>5 DEF Named
<1>11. CASE (\E i \in Ids : DeleteDevice(i)) \/ FactoryReset \/ ClearStore
  <2>1. /\ pc'["main"] = pc["main"] /\ pc["http"] \in {"idle", "clear store"}
        /\ pc'["http"] \in {"idle", "clear matter"}
        /\ UNCHANGED <<obj, matter, put, boot, request>>
    BY <1>11, Holding DEF DeleteDevice, FactoryReset, ClearStore, Goto, lists, objects, history
  <2>2. ~Serving'
    BY <2>1 DEF Serving
  <2> QED
    BY <2>1, <2>2, NamedFrame
<1>12. CASE ClearMatter
  <2>1. /\ pc'["main"] = "done" /\ pc'["http"] = "clear modbus" /\ boot' = {}
        /\ UNCHANGED <<obj, put>>
    BY <1>12, Holding DEF ClearMatter, Goto, Shape, Control, objects, history
  <2>2. ~Serving' /\ ~Registered'
    BY <2>1 DEF Serving, Registered
  <2>3. \A o \in Objs : \A j : HasId(o, j)' = HasId(o, j)
    BY <2>1 DEF HasId
  <2> QED
    BY ZenonT(60), <1>n, <2>1, <2>2, <2>3 DEF Named
<1>13. CASE Restart
  <2>1. \A o \in Objs : \A i : ~HasId(o, i)'
    BY <1>13 DEF Restart, NoObject, HasId
  <2>2. /\ pc'["main"] = "init" /\ boot' = {} /\ ~Registered' /\ ~Serving'
    BY <1>13 DEF Restart, AtReset, Registered, Serving
  <2> QED
    BY <2>1, <2>2 DEF Named
<1>14. CASE UNCHANGED vars
  <2>1. UNCHANGED <<obj, matter, put, boot, pc, request>>
    BY <1>14 DEF vars, lists, objects, history
  <2>2. (Serving' <=> Serving) /\ (Registered' <=> Registered)
    BY <2>1 DEF Serving, Registered
  <2> QED
    BY <2>1, <2>2, NamedFrame
<1> QED
  BY <1>1, <1>2, <1>3, <1>4, <1>5, <1>6, <1>7, <1>8, <1>9, <1>10, <1>11, <1>12, <1>13, <1>14
     DEF Next

-----------------------------------------------------------------------------
(* Every endpoint has an object.                                           *)

LEMMA FedFrame ==
  ASSUME Fed, UNCHANGED <<obj, modbus>>, Range(matter') \subseteq Range(matter),
         pc'["http"] \in {"matter", "rollback"} =>
           pc["http"] \in {"matter", "rollback"} /\ request'["http"] = request["http"]
  PROVE  Fed'
<1>1. (\A m \in Range(matter) : \E o \in Objs : HasId(o, m.id))'
  BY DEF Fed, HasId
<1>2. ASSUME pc'["http"] \in {"matter", "rollback"}, Bridged(request["http"].id)'
      PROVE  (\E o \in Objs : HasId(o, request["http"].id) /\ o # First(request["http"].id))'
  <2>1. pc["http"] \in {"matter", "rollback"} /\ request'["http"] = request["http"]
    BY <1>2
  <2>2. Bridged(request["http"].id)
    BY <1>2, <2>1 DEF Bridged
  <2>3. PICK o \in Objs : HasId(o, request["http"].id) /\ o # First(request["http"].id)
    BY <2>1, <2>2 DEF Fed
  <2>4. HasId(o, request["http"].id)' /\ First(request["http"].id)' = First(request["http"].id)
    BY <2>1, <2>3 DEF HasId, First, Place, With
  <2> QED
    BY <2>3, <2>4
<1> QED
  BY <1>1, <1>2 DEF Fed

\* A device that joins m_devices last is not the first with its id.
LEMMA NotFirst ==
  ASSUME Shape, NEW o \in Objs, CreateModbus(o, request["http"]), Born(o, request["http"]),
         request' = request, request["http"] # None,
         NEW p \in Objs, HasId(p, request["http"].id)
  PROVE  HasId(o, request["http"].id)' /\ o # First(request["http"].id)'
<1> DEFINE i == request["http"].id
           W == With(i)'
<1>1. HasId(o, i)' /\ HasId(p, i)' /\ p # o
  BY DEF Born, HasId
<1>2. modbus' = Append(modbus, o) /\ modbus \in Seq(Objs) /\ IsInjective(modbus')
  BY DEF CreateModbus, Shape, TypeOK, Born, ListMatchesHeap
<1>3. /\ Len(modbus) \in Nat /\ DOMAIN modbus' = 1..(Len(modbus) + 1)
      /\ DOMAIN modbus = 1..Len(modbus)
      /\ \A n \in 1..Len(modbus) : modbus'[n] = modbus[n]
      /\ modbus'[Len(modbus) + 1] = o
  BY <1>2, AppendProperties
<1>4. PICK k \in 1..Len(modbus) : modbus[k] = p
  <2>1. p \in Range(modbus)
    BY Holding DEF HasId
  <2> QED
    BY <1>2, <2>1, RangeOf
<1>5. W = {n \in DOMAIN modbus' : HasId(modbus[n], i)'}
  BY DEF With
<1>6. k \in W /\ W \subseteq Nat
  <2>1. k \in DOMAIN modbus' /\ modbus'[k] = p
    BY <1>3, <1>4
  <2>2. HasId(modbus[k], i)'
    BY <1>1, <2>1 DEF HasId
  <2>3. W \subseteq DOMAIN modbus' /\ DOMAIN modbus' \subseteq Nat
    BY <1>3, <1>5
  <2> QED
    BY <1>5, <2>1, <2>2, <2>3
<1>7. Place(i)' = CHOOSE n \in W : \A j \in W : n <= j
  BY DEF Place
<1>8. First(i)' = modbus'[Place(i)']
  BY DEF First
<1> HIDE DEF W
<1>9. \E n \in W : \A j \in W : n <= j
  BY <1>6, Least
<1>10. Place(i)' \in W /\ \A j \in W : Place(i)' <= j
  BY <1>7, <1>9
<1>11. Place(i)' <= k /\ Place(i)' \in Nat /\ Place(i)' \in DOMAIN modbus'
  BY <1>5, <1>6, <1>10
<1>12. Place(i)' # Len(modbus) + 1
  BY <1>3, <1>4, <1>11
<1> HIDE DEF i
<1>13. First(i)' # o
  BY <1>2, <1>3, <1>8, <1>11, <1>12 DEF IsInjective
<1> QED
  BY <1>1, <1>13 DEF i

LEMMA StepFed ==
  ASSUME Shape, Named, Fed, Shape', [Next]_vars
  PROVE  Fed'
<1>b. \A i : Bridged(i) <=> \E m \in Range(matter) : m.id = i
  BY DEF Bridged
<1>f. \A m \in Range(matter) : \E o \in Objs : HasId(o, m.id)
  BY DEF Fed
<1>1. CASE \/ InitManagers \/ StartWebServer \/ IpAddressChanged \/ StartNext \/ AllStarted
           \/ PauseNext \/ AllPaused \/ \E up \in BOOLEAN : LinkChanges(up)
  <2>1. /\ pc'["http"] \in {pc["http"], "idle"}
        /\ UNCHANGED <<obj, modbus, matter, request>>
    BY <1>1, Holding
       DEF InitManagers, StartWebServer, IpAddressChanged, StartNext, Start, AllStarted, PauseNext,
           AllPaused, LinkChanges, Goto, lists, objects
  <2> QED
    BY <2>1, FedFrame
<1>2. ASSUME NEW i \in Ids, RestoreModbus(i) PROVE Fed'
  <2>1. PICK o \in Objs : Born(o, [id |-> i, cfg |-> store[i]])
    BY <1>2, RestoreShape
  <2>2. matter' = matter /\ pc'["http"] = "off"
    BY <1>2, Holding DEF RestoreModbus, Goto, Shape, Control
  <2>3. \A p \in Objs : \A j : HasId(p, j) => HasId(p, j)'
    BY <2>1 DEF Born, HasId
  <2> QED
    BY <1>f, <2>2, <2>3 DEF Fed
<1>3. CASE RestoreMatter \/ RegisterMatter
  <2>1. PICK a \in {"main", "http"} :
          /\ request[a] \in Device /\ \E o \in Objs : HasId(o, request[a].id)
          /\ matter' \in {Append(matter, request[a]), matter}
          /\ UNCHANGED <<obj, modbus>>
          /\ \/ pc'["http"] \in {"off", "start"}
             \/ pc["http"] = "matter" /\ UNCHANGED <<matter, request>>
    <3>1. CASE RestoreMatter
      BY <3>1, Holding DEF RestoreMatter, Goto, Shape, Control, objects, Named
    <3>2. CASE RegisterMatter
      BY <3>2, Holding DEF RegisterMatter, Goto, objects, Named, Registered, Serving
    <3> QED
      BY <1>3, <3>1, <3>2
  <2>2. Range(matter') \subseteq Range(matter) \cup {request[a]}
    <3>1. matter \in Seq(Device)
      BY Holding
    <3>2. Range(Append(matter, request[a])) = Range(matter) \cup {request[a]}
      BY <2>1, <3>1, Appended
    <3> QED
      BY <2>1, <3>2
  <2>3. CASE matter' = matter /\ request' = request /\ pc["http"] = "matter"
    BY <2>1, <2>3, FedFrame
  <2>4. CASE pc'["http"] \in {"off", "start"}
    <3>1. \A p \in Objs : \A j : HasId(p, j)' = HasId(p, j)
      BY <2>1 DEF HasId
    <3> QED
      BY <1>f, <2>1, <2>2, <2>4, <3>1 DEF Fed
  <2> QED
    BY <2>1, <2>3, <2>4
<1>4. CASE \/ \E i \in Ids, cfg \in Configs : Post(i, cfg) \/ Put(i, cfg)
           \/ StartRegistered \/ (\E i \in Ids : DeleteDevice(i)) \/ FactoryReset \/ ClearStore
  <2>1. /\ pc'["http"] \in {"modbus", "idle", "clear matter"}
        /\ UNCHANGED <<obj, modbus, matter>>
    BY <1>4, Holding
       DEF Post, Put, Register, StartRegistered, Start, Respond, DeleteDevice, FactoryReset,
           ClearStore, Goto, lists, objects
  <2> QED
    BY <2>1, FedFrame
<1>5. ASSUME NEW o \in Objs, RegisterModbus(o) PROVE Fed'
  <2>1. Born(o, request["http"])
    BY <1>5, RegisterShape
  <2>2. /\ UNCHANGED <<matter, request>> /\ CreateModbus(o, request["http"])
        /\ request["http"] # None /\ request["http"] \in Device
    BY <1>5, Holding DEF RegisterModbus, Serving
  <2>3. \A p \in Objs : \A j : HasId(p, j) => HasId(p, j)'
    BY <2>1 DEF Born, HasId
  <2>4. (\A m \in Range(matter) : \E p \in Objs : HasId(p, m.id))'
    BY <1>f, <2>2, <2>3
  <2>5. ASSUME Bridged(request["http"].id)'
        PROVE  (\E p \in Objs : HasId(p, request["http"].id) /\ p # First(request["http"].id))'
    <3>1. Bridged(request["http"].id)
      BY <2>2, <2>5 DEF Bridged
    <3>2. PICK p \in Objs : HasId(p, request["http"].id)
      BY <1>f, <1>b, <3>1
    <3> QED
      BY <2>1, <2>2, <3>2, NotFirst
  <2> QED
    BY <2>4, <2>5 DEF Fed
<1>6. CASE RollBack
  <2> DEFINE i == request["http"].id
  <2>1. Dead({First(i)}) /\ matter' = matter /\ pc["http"] = "rollback" /\ pc'["http"] = "idle"
    BY <1>6, RollBackHeap, Holding DEF RollBack, Respond, Goto
  <2>2. HasId(First(i), i)
    <3>1. TypeOK /\ ListMatchesHeap /\ i \in Ids
      BY <2>1, Holding DEF Shape, Serving
    <3>2. \E o \in Objs : HasId(o, i)
      BY <2>1 DEF Named, Registered
    <3> QED
      BY <3>1, <3>2, FirstIs
  <2>3. Bridged(i) => \E o \in Objs : HasId(o, i) /\ o # First(i)
    BY <2>1 DEF Fed
  <2>4. \A o \in Objs : \A j : HasId(o, j) /\ o # First(i) => HasId(o, j)'
    BY <2>1 DEF Dead, HasId
  <2> HIDE DEF i
  <2>5. ASSUME NEW m \in Range(matter) PROVE \E o \in Objs : HasId(o, m.id)'
    <3>1. CASE m.id = i
      BY <1>b, <2>3, <2>4, <2>5, <3>1
    <3>2. CASE m.id # i
      <4>1. PICK o \in Objs : HasId(o, m.id)
        BY <1>f, <2>5
      <4>2. o # First(i)
        BY <2>2, <3>2, <4>1 DEF HasId
      <4> QED
        BY <2>4, <4>1, <4>2
    <3> QED
      BY <3>1, <3>2
  <2> QED
    BY <2>1, <2>5 DEF Fed
<1>7. CASE ClearMatter \/ ClearModbus \/ Restart
  <2>1. matter' = <<>> /\ pc'["http"] \notin {"matter", "rollback"}
    <3>1. CASE ClearMatter
      BY <3>1, Holding DEF ClearMatter, Goto
    <3>2. CASE ClearModbus
      BY <3>2, Holding DEF ClearModbus, Shape, Control, Goto
    <3>3. CASE Restart
      BY <3>3 DEF Restart, AtReset
    <3> QED
      BY <1>7, <3>1, <3>2, <3>3
  <2> QED
    BY <2>1, RangeOfNone DEF Fed
<1>8. CASE UNCHANGED vars
  BY <1>8, FedFrame DEF vars, lists, objects
<1> QED
  BY <1>1, <1>2, <1>3, <1>4, <1>5, <1>6, <1>7, <1>8 DEF Next

-----------------------------------------------------------------------------
(* Readings and endpoints of the same device.                              *)

LEMMA RoutedIs ==
  ASSUME Shape, ReadingsReachTheirDevice
  PROVE  \A o \in Objs, m \in Range(matter) :
           HasId(o, m.id) /\ m.id \notin put => obj[o].cfg = m.cfg
<1>1. \A o \in Objs : obj[o] # None => o \in Range(modbus)
  BY DEF Shape, ListMatchesHeap
<1> QED
  BY <1>1 DEF ReadingsReachTheirDevice, HasId

LEMMA RoutedIsNext ==
  ASSUME Shape', \A o \in Objs, m \in Range(matter') :
                   HasId(o, m.id)' /\ m.id \notin put' => obj'[o].cfg = m.cfg
  PROVE  ReadingsReachTheirDevice'
<1>1. \A o \in Range(modbus') : o \in Objs /\ obj'[o] # None
  BY DEF Shape, ListMatchesHeap
<1> QED
  BY <1>1 DEF ReadingsReachTheirDevice, HasId

LEMMA StepRouted ==
  ASSUME Shape, Named, ReadingsReachTheirDevice, Shape', [Next]_vars
  PROVE  ReadingsReachTheirDevice'
<1>r. \A o \in Objs, m \in Range(matter) :
        HasId(o, m.id) /\ m.id \notin put => obj[o].cfg = m.cfg
  BY RoutedIs
<1>b. \A i : Bridged(i) <=> \E m \in Range(matter) : m.id = i
  BY DEF Bridged
<1>1. CASE \/ InitManagers \/ StartWebServer \/ IpAddressChanged \/ StartNext \/ AllStarted
           \/ PauseNext \/ AllPaused \/ (\E up \in BOOLEAN : LinkChanges(up))
           \/ (\E i \in Ids, cfg \in Configs : Post(i, cfg) \/ Put(i, cfg))
           \/ StartRegistered \/ (\E i \in Ids : DeleteDevice(i)) \/ FactoryReset \/ ClearStore
           \/ UNCHANGED vars
  <2>1. UNCHANGED <<obj, matter>> /\ put \subseteq put'
    BY <1>1
       DEF InitManagers, StartWebServer, IpAddressChanged, StartNext, Start, AllStarted, PauseNext,
           AllPaused, LinkChanges, Post, Put, Register, StartRegistered, Respond, DeleteDevice,
           FactoryReset, ClearStore, Goto, vars, lists, objects, history
  <2>2. \A o \in Objs : \A i : HasId(o, i)' = HasId(o, i)
    BY <2>1 DEF HasId
  <2> QED
    BY <1>r, <2>1, <2>2, RoutedIsNext
<1>2. ASSUME NEW i \in Ids, RestoreModbus(i) PROVE ReadingsReachTheirDevice'
  <2> DEFINE d == [id |-> i, cfg |-> store[i]]
  <2>1. PICK o \in Objs : Born(o, d)
    BY <1>2, RestoreShape
  <2>2. UNCHANGED <<matter, put>> /\ ~Bridged(i) /\ d.id = i
    BY <1>2 DEF RestoreModbus, Named
  <2> HIDE DEF d
  <2>3. \A p \in Objs, j \in Ids : HasId(p, j)' => (p # o /\ HasId(p, j)) \/ j = i
    BY <2>1, <2>2 DEF Born, HasId
  <2>4. \A p \in Objs \ {o} : obj'[p] = obj[p]
    BY <2>1 DEF Born
  <2>5. \A m \in Range(matter) : m.id \in Ids /\ m.id # i
    BY <2>2, <1>b, Holding, RangeOf
  <2> QED
    BY <1>r, <2>2, <2>3, <2>4, <2>5, RoutedIsNext
<1>3. CASE RestoreMatter \/ RegisterMatter
  <2>1. PICK a \in {"main", "http"} :
          /\ request[a] \in Device
          /\ request[a].id \notin put => \A o \in Objs : HasId(o, request[a].id) => obj[o] = request[a]
          /\ matter' \in {Append(matter, request[a]), matter}
          /\ UNCHANGED <<obj, put>>
    <3>1. CASE RestoreMatter
      BY <3>1, Holding DEF RestoreMatter, Shape, Control, objects, history, Named
    <3>2. CASE RegisterMatter
      BY <3>2, Holding DEF RegisterMatter, objects, history, Named, Registered, Serving
    <3> QED
      BY <1>3, <3>1, <3>2
  <2>2. Range(matter') \subseteq Range(matter) \cup {request[a]}
    <3>1. matter \in Seq(Device)
      BY Holding
    <3>2. Range(Append(matter, request[a])) = Range(matter) \cup {request[a]}
      BY <2>1, <3>1, Appended
    <3> QED
      BY <2>1, <3>2
  <2>3. \A o \in Objs : \A j : HasId(o, j)' = HasId(o, j)
    BY <2>1 DEF HasId
  <2> QED
    BY <1>r, <2>1, <2>2, <2>3, RoutedIsNext
<1>4. ASSUME NEW o \in Objs, RegisterModbus(o) PROVE ReadingsReachTheirDevice'
  <2> DEFINE d == request["http"]
  <2>1. Born(o, d)
    BY <1>4, RegisterShape
  <2>2. UNCHANGED <<matter, put>> /\ (d.id \notin put => ~Bridged(d.id))
    BY <1>4 DEF RegisterModbus, Named, Serving
  <2> HIDE DEF d
  <2>3. \A p \in Objs, j \in Ids : HasId(p, j)' => (p # o /\ HasId(p, j)) \/ j = d.id
    BY <2>1 DEF Born, HasId
  <2>4. \A p \in Objs \ {o} : obj'[p] = obj[p]
    BY <2>1 DEF Born
  <2>5. \A m \in Range(matter) : m.id \in Ids /\ (m.id \notin put => m.id # d.id)
    BY <2>2, <1>b, Holding, RangeOf
  <2> QED
    BY <1>r, <2>2, <2>3, <2>4, <2>5, RoutedIsNext
<1>5. CASE RollBack \/ ClearModbus
  <2>1. PICK gone : Dead(gone)
    BY <1>5, RollBackHeap, ClearHeap
  <2>2. UNCHANGED <<matter, put>>
    BY <1>5 DEF RollBack, ClearModbus
  <2>3. \A p \in Objs : \A j : HasId(p, j)' => HasId(p, j) /\ obj'[p] = obj[p]
    BY <2>1 DEF Dead, HasId
  <2> QED
    BY <1>r, <2>2, <2>3, RoutedIsNext
<1>6. CASE ClearMatter \/ Restart
  <2>1. matter' = <<>>
    BY <1>6 DEF ClearMatter, Restart
  <2> QED
    BY <2>1, RangeOfNone, RoutedIsNext
<1> QED
  BY <1>1, <1>2, <1>3, <1>4, <1>5, <1>6 DEF Next

-----------------------------------------------------------------------------
(* Poll tasks.                                                             *)

LEMMA CountedFrame ==
  ASSUME Counted, UNCHANGED <<modbus, obj, pollers, early, mdns_registered, racy>>,
         put \subseteq put', todo'["chip"] = todo["chip"],
         Registered' => Registered /\ request'["http"] = request["http"]
  PROVE  Counted'
<1> SUFFICES ASSUME ~racy' PROVE Counted'
  BY DEF Counted
<1>1. \A o \in Objs : Plain(o)' => Plain(o)
  BY DEF Plain
<1>2. ASSUME NEW o \in Objs, Registered', HasId(o, request["http"].id)'
      PROVE  Registered /\ HasId(o, request["http"].id)
  BY <1>2 DEF HasId
<1> QED
  BY <1>1, <1>2 DEF Counted

LEMMA StepCounted ==
  ASSUME Shape, Named, Counted, Shape', Named', [Next]_vars
  PROVE  Counted'
<1>c. ASSUME ~racy
      PROVE  /\ Range(todo["chip"]) \subseteq Range(modbus) /\ IsInjective(todo["chip"])
             /\ \A o \in Objs : Plain(o) =>
                  /\ pollers[o] <= 1
                  /\ o \in Range(todo["chip"]) \/ ~mdns_registered => pollers[o] = 0
                  /\ Registered /\ HasId(o, request["http"].id) =>
                       pollers[o] = 0 /\ o \notin Range(todo["chip"]) /\ mdns_registered
             /\ put = {} => \A o \in Objs : obj[o] = None /\ o \notin early => pollers[o] = 0
  BY <1>c DEF Counted
<1>1. CASE \/ InitManagers \/ RestoreMatter \/ StartWebServer \/ AllStarted
           \/ PauseNext \/ AllPaused \/ (\E up \in BOOLEAN : LinkChanges(up))
           \/ RegisterMatter \/ (\E i \in Ids : DeleteDevice(i)) \/ FactoryReset \/ ClearMatter
           \/ ClearStore \/ UNCHANGED vars
  <2>1. /\ UNCHANGED <<modbus, obj, pollers, put, early, mdns_registered, racy>>
        /\ todo'["chip"] = todo["chip"]
    BY <1>1, Holding
       DEF InitManagers, RestoreMatter, StartWebServer, AllStarted, PauseNext, AllPaused,
           LinkChanges, RegisterMatter, DeleteDevice, FactoryReset, ClearMatter, ClearStore, vars,
           lists, objects, history, net
  <2>2. \/ pc'["http"] \in {"off", "idle", "clear matter", "clear modbus"}
        \/ pc'["http"] = pc["http"] /\ request' = request
        \/ pc["http"] = "matter" /\ request' = request
    BY <1>1, Holding
       DEF InitManagers, RestoreMatter, StartWebServer, AllStarted, PauseNext, AllPaused,
           LinkChanges, RegisterMatter, DeleteDevice, FactoryReset, ClearMatter, ClearStore, vars,
           Goto
  <2>3. Registered' => Registered /\ request'["http"] = request["http"]
    BY <2>2 DEF Registered
  <2> QED
    BY <2>1, <2>3, CountedFrame
<1>2. ASSUME NEW i \in Ids, NEW cfg \in Configs, Post(i, cfg) \/ Put(i, cfg) PROVE Counted'
  <2>1. /\ UNCHANGED <<modbus, obj, pollers, early, mdns_registered, racy, todo>>
        /\ put \subseteq put' /\ pc'["http"] = "modbus"
    BY <1>2, Holding DEF Post, Put, Register, Goto, lists, objects, net
  <2>2. ~Registered'
    BY <2>1 DEF Registered
  <2> QED
    BY <2>1, <2>2, CountedFrame
<1>3. CASE IpAddressChanged
  <2> SUFFICES ASSUME ~racy' PROVE Counted'
    BY DEF Counted
  <2>1. /\ ~mdns_registered /\ mdns_registered' /\ todo'["chip"] = modbus
        /\ UNCHANGED <<modbus, obj, pollers, put, early, racy, request>>
        /\ pc'["http"] = pc["http"]
    BY <1>3, Holding DEF IpAddressChanged, Goto, lists, objects
  <2>2. IsInjective(modbus)
    BY DEF Shape, ListMatchesHeap
  <2>3. \A o \in Objs : (Plain(o)' <=> Plain(o)) /\ \A j : HasId(o, j)' = HasId(o, j)
    BY <2>1 DEF Plain, HasId
  <2>4. Registered' <=> Registered
    BY <2>1 DEF Registered
  <2> QED
    BY <1>c, <2>1, <2>2, <2>3, <2>4, Holding DEF Counted
<1>4. CASE StartNext
  <2> SUFFICES ASSUME ~racy' PROVE Counted'
    BY DEF Counted
  <2> DEFINE h == Head(todo["chip"])
  <2>1. /\ Start(h) /\ todo'["chip"] = Tail(todo["chip"]) /\ pc["chip"] = "starting"
        /\ UNCHANGED <<modbus, obj, put, early, racy, request, pc, mdns_registered>>
        /\ todo["chip"] # <<>> /\ todo["chip"] \in Seq(Objs)
    BY <1>4, Holding DEF StartNext, Start, lists, net, history
  <2>2. mdns_registered
    BY <2>1 DEF Shape, Control
  <2>3. /\ h \in Objs /\ h \in Range(todo["chip"])
        /\ Range(todo["chip"]) = Range(todo'["chip"]) \cup {h}
        /\ IsInjective(todo["chip"]) =>
             IsInjective(todo'["chip"]) /\ h \notin Range(todo'["chip"])
    BY <2>1, Walked
  <2> HIDE DEF h
  <2>4. pollers'[h] = pollers[h] + 1 /\ \A o \in Objs \ {h} : pollers'[o] = pollers[o]
    BY <2>1, <2>3 DEF Start, Shape, TypeOK
  <2>5. \A o \in Objs : (Plain(o)' <=> Plain(o)) /\ \A j : HasId(o, j)' = HasId(o, j)
    BY <2>1 DEF Plain, HasId
  <2>6. Registered' <=> Registered
    BY <2>1 DEF Registered
  <2>7. ASSUME NEW o \in Objs, Plain(o)'
        PROVE  /\ pollers'[o] <= 1
               /\ o \in Range(todo'["chip"]) => pollers'[o] = 0
               /\ Registered' /\ HasId(o, request'["http"].id) =>
                    pollers'[o] = 0 /\ o \notin Range(todo'["chip"])
    BY <1>c, <2>1, <2>3, <2>4, <2>5, <2>6, <2>7
  <2>8. obj[h] # None
    BY <1>c, <2>1, <2>3, Holding
  <2>9. put' = {} => \A o \in Objs : obj'[o] = None /\ o \notin early' => pollers'[o] = 0
    BY <1>c, <2>1, <2>4, <2>8
  <2>10. Range(todo'["chip"]) \subseteq Range(modbus') /\ IsInjective(todo'["chip"])
    BY <1>c, <2>1, <2>3
  <2> QED
    BY <2>1, <2>2, <2>5, <2>7, <2>9, <2>10 DEF Counted
<1>5. ASSUME NEW i \in Ids, RestoreModbus(i) PROVE Counted'
  <2> SUFFICES ASSUME ~racy' PROVE Counted'
    BY DEF Counted
  <2>1. PICK o \in Objs : Born(o, [id |-> i, cfg |-> store[i]])
    BY <1>5, RestoreShape
  <2>2. ~racy /\ pc["chip"] = "idle" /\ todo["chip"] = <<>>
    BY <2>1, Holding DEF Born, Shape, Control
  <2>3. UNCHANGED <<put, early, mdns_registered, todo>> /\ pc'["http"] = "off"
    BY <1>5, Holding DEF RestoreModbus, Goto, net, Shape, Control
  <2>4. ~Registered'
    BY <2>3 DEF Registered
  <2>5. \A p \in Objs \ {o} : Plain(p)' => Plain(p)
    BY <2>1, <2>3 DEF Plain, Born
  <2>6. pollers'[o] = 0 /\ pollers' = pollers /\ obj'[o] # None
    <3>1. store[i] # None
      BY <1>5 DEF RestoreModbus, Shape, Control, Stored
    <3> QED
      BY <2>1, <3>1, ManagerAssumptions, Holding DEF Born, Shape, ListMatchesHeap
  <2> QED
    BY <1>c, <2>1, <2>2, <2>3, <2>4, <2>5, <2>6, RangeOfNone DEF Counted, Born
<1>6. ASSUME NEW o \in Objs, RegisterModbus(o) PROVE Counted'
  <2> SUFFICES ASSUME ~racy' PROVE Counted'
    BY DEF Counted
  <2>1. Born(o, request["http"])
    BY <1>6, RegisterShape
  <2>2. ~racy /\ pc["chip"] = "idle" /\ todo["chip"] = <<>>
    BY <2>1, Holding DEF Born, Shape, Control
  <2>3. /\ UNCHANGED <<put, mdns_registered, todo, request>> /\ request["http"].id \in Ids
        /\ early' = IF mdns_registered THEN early \ {o} ELSE early \cup {o}
        /\ request["http"] # None
    BY <1>6, Holding DEF RegisterModbus, net, Serving
  <2>4. \A p \in Objs \ {o} : Plain(p)' => Plain(p)
    BY <2>1, <2>3 DEF Plain, Born
  <2>5. pollers'[o] = 0 /\ pollers' = pollers /\ HasId(o, request["http"].id)'
    BY <2>1, <2>3 DEF Born, HasId
  <2>6. Plain(o)' => mdns_registered
    BY <2>3 DEF Plain
  <2>7. ASSUME NEW p \in Objs, Plain(p)', HasId(p, request["http"].id)' PROVE p = o
    <3>1. request["http"].id \notin put'
      BY <2>3, <2>7 DEF Plain, HasId
    <3>2. \A q, r \in Objs, j \in Ids \ put' : HasId(q, j)' /\ HasId(r, j)' => q = r
      BY DEF Named
    <3> QED
      BY <2>3, <2>5, <2>7, <3>1, <3>2
  <2>8. ASSUME NEW p \in Objs, Plain(p)'
        PROVE  /\ pollers'[p] <= 1
               /\ ~mdns_registered' => pollers'[p] = 0
               /\ HasId(p, request["http"].id)' => pollers'[p] = 0 /\ mdns_registered'
    BY <1>c, <2>2, <2>3, <2>4, <2>5, <2>6, <2>7, <2>8
  <2>9. put' = {} => \A p \in Objs : obj'[p] = None /\ p \notin early' => pollers'[p] = 0
    <3>1. ASSUME NEW p \in Objs, obj'[p] = None PROVE p # o /\ obj[p] = None
      BY <2>1, <2>3, <3>1 DEF Born
    <3>2. \A p \in Objs \ {o} : p \notin early' => p \notin early
      BY <2>3
    <3> QED
      BY <1>c, <2>2, <2>3, <2>5, <3>1, <3>2
  <2>10. todo'["chip"] = <<>>
    BY <2>2, <2>3
  <2> QED
    BY <2>8, <2>9, <2>10, RangeOfNone DEF Counted
<1>7. CASE StartRegistered
  <2> SUFFICES ASSUME ~racy' PROVE Counted'
    BY DEF Counted
  <2> DEFINE i == request["http"].id
             h == First(i)
  <2>1. /\ Start(h) /\ pc["http"] = "start" /\ pc'["http"] = "idle"
        /\ UNCHANGED <<modbus, obj, put, early, racy, todo, mdns_registered>>
    BY <1>7, Holding DEF StartRegistered, Start, Respond, Goto, lists, net, history
  <2>2. h \in Objs /\ HasId(h, i) /\ Registered
    <3>1. TypeOK /\ ListMatchesHeap /\ i \in Ids /\ Registered
      BY <2>1, Holding DEF Shape, Serving, Registered
    <3>2. \E o \in Objs : HasId(o, i)
      BY <3>1 DEF Named
    <3> QED
      BY <3>1, <3>2, FirstIs
  <2>3. ASSUME Plain(h) PROVE pollers[h] = 0 /\ h \notin Range(todo["chip"]) /\ mdns_registered
    BY <1>c, <2>1, <2>2, <2>3
  <2>4. ~Registered'
    BY <2>1 DEF Registered
  <2>5. obj[h] # None
    BY <2>2 DEF HasId
  <2> HIDE DEF h, i
  <2>6. pollers'[h] = pollers[h] + 1 /\ \A o \in Objs \ {h} : pollers'[o] = pollers[o]
    BY <2>1, <2>2 DEF Start, Shape, TypeOK
  <2>7. \A o \in Objs : Plain(o)' <=> Plain(o)
    BY <2>1 DEF Plain
  <2>8. ASSUME NEW o \in Objs, Plain(o)'
        PROVE  /\ pollers'[o] <= 1
               /\ o \in Range(todo'["chip"]) \/ ~mdns_registered' => pollers'[o] = 0
    <3>1. CASE o = h
      BY <2>1, <2>3, <2>6, <2>7, <2>8, <3>1
    <3>2. CASE o # h
      BY <1>c, <2>1, <2>6, <2>7, <2>8, <3>2
    <3> QED
      BY <3>1, <3>2
  <2>9. put' = {} => \A o \in Objs : obj'[o] = None /\ o \notin early' => pollers'[o] = 0
    BY <1>c, <2>1, <2>5, <2>6
  <2> QED
    BY <1>c, <2>1, <2>4, <2>8, <2>9 DEF Counted
<1>8. CASE RollBack \/ ClearModbus
  <2> SUFFICES ASSUME ~racy' PROVE Counted'
    BY DEF Counted
  <2>1. PICK gone : Dead(gone)
    BY <1>8, RollBackHeap, ClearHeap
  <2>2. ~racy /\ pc["chip"] = "idle" /\ todo["chip"] = <<>>
    BY <2>1, Holding DEF Dead, Shape, Control
  <2>3. /\ UNCHANGED <<put, early, mdns_registered, todo>>
        /\ pc'["http"] \in {"idle", "clear store"}
    BY <1>8, Holding DEF RollBack, ClearModbus, Respond, Goto, net
  <2>4. ~Registered'
    BY <2>3 DEF Registered
  <2>5. gone \subseteq Objs
    BY <2>1, Holding DEF Dead, Shape, ListMatchesHeap
  <2>6. \A o \in Objs : Plain(o)' => Plain(o) /\ pollers'[o] = pollers[o]
    BY <2>1, <2>3, <2>5 DEF Plain, Dead
  <2>7. ASSUME put = {}, NEW o \in gone, o \notin early PROVE pollers'[o] = 0
    <3>1. Plain(o)
      BY <2>1, <2>7, Holding, <2>5 DEF Plain, Dead
    <3>2. pollers[o] <= 1 /\ pollers[o] \in Nat /\ (handle[o] <=> pollers[o] > 0)
      BY <1>c, <2>2, <2>5, <3>1, Holding DEF Shape, Handled, Plain
    <3>3. pollers'[o] = IF handle[o] THEN pollers[o] - 1 ELSE pollers[o]
      BY <2>1 DEF Dead
    <3> QED
      BY <3>2, <3>3
  <2>8. \A o \in Objs \ gone : obj'[o] = obj[o] /\ pollers'[o] = pollers[o]
    BY <2>1 DEF Dead
  <2>9. put' = {} => \A o \in Objs : obj'[o] = None /\ o \notin early' => pollers'[o] = 0
    BY <1>c, <2>2, <2>3, <2>7, <2>8
  <2>10. todo'["chip"] = <<>>
    BY <2>2, <2>3
  <2>11. \A o \in Objs : Plain(o)' =>
           pollers'[o] <= 1 /\ (~mdns_registered' => pollers'[o] = 0)
    BY <1>c, <2>2, <2>3, <2>6
  <2> QED
    BY <2>4, <2>9, <2>10, <2>11, RangeOfNone DEF Counted
<1>9. CASE Restart
  <2>1. /\ \A o \in Objs : pollers'[o] = 0
        /\ todo'["chip"] = <<>> /\ pc'["http"] = "off"
    BY <1>9 DEF Restart, NoPoller, NoLoop, AtReset
  <2>2. ~Registered'
    BY <2>1 DEF Registered
  <2> QED
    BY <2>1, <2>2, RangeOfNone DEF Counted
<1> QED
  BY <1>1, <1>2, <1>3, <1>4, <1>5, <1>6, <1>7, <1>8, <1>9 DEF Next

\* A step that starts, adds and forgets nobody.
LEMMA BegunFrame ==
  ASSUME Begun, UNCHANGED <<obj, pollers, mdns_registered, missed, racy>>,
         rolled \subseteq rolled', todo'["chip"] = todo["chip"],
         pc["main"] = "done" => pc'["main"] = "done",
         Registered => Registered' /\ request'["http"] = request["http"]
  PROVE  Begun'
<1>1. \A i : Cared(i)' <=> Cared(i)
  BY DEF Cared, HasId
<1> QED
  BY <1>1 DEF Begun

LEMMA StepBegun ==
  ASSUME Shape, Named, Begun, Shape', Named', [Next]_vars
  PROVE  Begun'
<1>c. ASSUME mdns_registered, ~missed, ~racy
      PROVE  /\ pc["main"] = "done"
             /\ \A o \in Objs : obj[o] # None /\ obj[o].id \notin rolled =>
                  \/ Cared(obj[o].id)
                  \/ Registered /\ request["http"].id = obj[o].id
  BY <1>c DEF Begun
<1>1. CASE \/ InitManagers \/ RestoreMatter \/ StartWebServer \/ AllStarted
           \/ PauseNext \/ AllPaused \/ (\E up \in BOOLEAN : LinkChanges(up))
           \/ (\E i \in Ids, cfg \in Configs : Post(i, cfg) \/ Put(i, cfg))
           \/ RegisterMatter \/ (\E i \in Ids : DeleteDevice(i)) \/ FactoryReset \/ ClearMatter
           \/ ClearStore \/ UNCHANGED vars
  <2>1. /\ UNCHANGED <<obj, pollers, mdns_registered, missed, racy>>
        /\ rolled' = rolled /\ todo'["chip"] = todo["chip"]
    BY <1>1, Holding
       DEF InitManagers, RestoreMatter, StartWebServer, AllStarted, PauseNext, AllPaused, Post, Put,
           Register, LinkChanges, RegisterMatter, DeleteDevice, FactoryReset, ClearMatter,
           ClearStore, vars, lists, objects, history, net
  <2>2. /\ pc["main"] = "done" => pc'["main"] = "done"
        /\ \/ pc["http"] \in {"off", "idle", "clear matter", "clear modbus", "clear store"}
           \/ pc'["http"] = pc["http"] /\ request' = request
           \/ pc'["http"] \in {"start", "rollback"} /\ request' = request
    BY <1>1, Holding
       DEF InitManagers, RestoreMatter, StartWebServer, AllStarted, PauseNext, AllPaused, Post, Put,
           Register, LinkChanges, RegisterMatter, DeleteDevice, FactoryReset, ClearMatter,
           ClearStore, vars, Goto, Shape, Control
  <2>3. Registered => Registered' /\ request'["http"] = request["http"]
    BY <2>2 DEF Registered
  <2> QED
    BY <2>1, <2>2, <2>3, BegunFrame
<1>2. CASE IpAddressChanged
  <2>1. /\ missed' = (pc["main"] # "done") /\ todo'["chip"] = modbus
        /\ pc'["main"] = pc["main"] /\ UNCHANGED obj
    BY <1>2, Holding DEF IpAddressChanged, Goto, objects
  <2>2. ~missed' => pc["main"] = "done"
    BY <2>1
  <2>3. \A o \in Objs : obj'[o] # None => HasId(o, obj[o].id)' /\ o \in Range(todo'["chip"])
    BY <2>1, Holding DEF HasId
  <2>4. \A o \in Objs : obj'[o] # None => Cared(obj[o].id)'
    BY <2>1, <2>3 DEF Cared
  <2> QED
    BY <2>1, <2>2, <2>4 DEF Begun
<1>3. CASE StartNext
  <2> SUFFICES ASSUME mdns_registered', ~missed', ~racy' PROVE Begun'
    BY DEF Begun
  <2> DEFINE h == Head(todo["chip"])
  <2>1. /\ Start(h) /\ todo'["chip"] = Tail(todo["chip"])
        /\ UNCHANGED <<obj, rolled, missed, racy, request, pc, mdns_registered>>
        /\ todo["chip"] # <<>> /\ todo["chip"] \in Seq(Objs)
    BY <1>3, Holding DEF StartNext, Start, lists, net, history
  <2>2. /\ h \in Objs /\ Range(todo["chip"]) = Range(todo'["chip"]) \cup {h}
    BY <2>1, Walked
  <2> HIDE DEF h
  <2>3. pollers'[h] = pollers[h] + 1 /\ \A o \in Objs \ {h} : pollers'[o] = pollers[o]
    BY <2>1, <2>2 DEF Start, Shape, TypeOK
  <2>4. pollers'[h] >= 1
    BY <2>2, <2>3, Holding
  <2>5. \A i : Cared(i) => Cared(i)'
    BY <2>1, <2>2, <2>3, <2>4 DEF Cared, HasId
  <2>6. Registered' <=> Registered
    BY <2>1 DEF Registered
  <2> QED
    BY <1>c, <2>1, <2>5, <2>6 DEF Begun
<1>4. ASSUME NEW i \in Ids, RestoreModbus(i) PROVE Begun'
  <2>1. PICK o \in Objs : Born(o, [id |-> i, cfg |-> store[i]])
    BY <1>4, RestoreShape
  <2>2. ~racy' => ~racy
    BY <2>1 DEF Born
  <2>3. UNCHANGED <<mdns_registered, missed>> /\ pc["main"] # "done"
    BY <1>4 DEF RestoreModbus, net
  <2> QED
    BY <1>c, <2>2, <2>3 DEF Begun
<1>5. ASSUME NEW o \in Objs, RegisterModbus(o) PROVE Begun'
  <2> SUFFICES ASSUME mdns_registered', ~missed', ~racy' PROVE Begun'
    BY DEF Begun
  <2>1. Born(o, request["http"])
    BY <1>5, RegisterShape
  <2>2. /\ UNCHANGED <<rolled, mdns_registered, missed, todo, request>>
        /\ pc["http"] = "modbus" /\ pc'["http"] = "matter" /\ pc'["main"] = pc["main"]
    BY <1>5, Holding DEF RegisterModbus, Goto, net
  <2>3. ~racy /\ pollers' = pollers
    BY <2>1 DEF Born
  <2>4. Registered' /\ ~Registered
    BY <2>2 DEF Registered
  <2>5. obj'[o].id = request'["http"].id
    BY <2>1, <2>2 DEF Born
  <2>6. \A p \in Objs \ {o} : obj'[p] = obj[p]
    BY <2>1 DEF Born
  <2>7. \A i : Cared(i) => Cared(i)'
    BY <2>1, <2>2, <2>3, <2>6 DEF Born, Cared, HasId
  <2>8. ASSUME NEW p \in Objs, p # o, obj'[p] # None, obj'[p].id \notin rolled'
        PROVE  Cared(obj[p].id)'
    BY <1>c, <2>2, <2>3, <2>4, <2>6, <2>7, <2>8
  <2> QED
    BY <1>c, <2>2, <2>3, <2>4, <2>5, <2>8 DEF Begun
<1>6. CASE StartRegistered
  <2> SUFFICES ASSUME mdns_registered', ~missed', ~racy' PROVE Begun'
    BY DEF Begun
  <2> DEFINE h == First(request["http"].id)
  <2>0. PICK i : i = request["http"].id
    OBVIOUS
  <2>1. /\ Start(h) /\ pc["http"] = "start" /\ pc'["main"] = pc["main"]
        /\ UNCHANGED <<obj, rolled, missed, racy, todo, mdns_registered>>
    BY <1>6, Holding DEF StartRegistered, Start, Respond, Goto, lists, net, history
  <2>2. h \in Objs /\ HasId(h, i)
    <3>1. TypeOK /\ ListMatchesHeap /\ i \in Ids /\ Registered
      BY <2>0, <2>1, Holding DEF Shape, Serving, Registered
    <3>2. \E o \in Objs : HasId(o, i)
      BY <2>0, <3>1 DEF Named
    <3> QED
      BY <2>0, <3>1, <3>2, FirstIs
  <2> HIDE DEF h
  <2>4. pollers'[h] = pollers[h] + 1 /\ \A o \in Objs \ {h} : pollers'[o] = pollers[o]
    BY <2>1, <2>2 DEF Start, Shape, TypeOK
  <2>5. pollers'[h] >= 1
    BY <2>2, <2>4, Holding
  <2>6. Cared(i)' /\ \A j : Cared(j) => Cared(j)'
    BY <2>1, <2>2, <2>4, <2>5 DEF Cared, HasId
  <2>7. ASSUME NEW o \in Objs, obj'[o] # None, obj'[o].id \notin rolled'
        PROVE  Cared(obj[o].id)'
    <3>1. Cared(obj[o].id) \/ obj[o].id = i
      BY <1>c, <2>0, <2>1, <2>7
    <3>2. PICK k : k = obj[o].id
      OBVIOUS
    <3>3. Cared(k)'
      BY <2>6, <3>1, <3>2
    <3> QED
      BY <2>1, <3>2, <3>3
  <2> QED
    BY <1>c, <2>1, <2>7 DEF Begun
<1>7. CASE RollBack
  <2> SUFFICES ASSUME mdns_registered', ~missed', ~racy' PROVE Begun'
    BY DEF Begun
  <2> DEFINE i == request["http"].id
             h == First(i)
  <2>1. Dead({h}) /\ i \in Ids /\ pc["http"] = "rollback" /\ pc'["main"] = pc["main"]
    BY <1>7, RollBackHeap, Holding DEF RollBack, Respond, Goto, Serving
  <2>2. /\ UNCHANGED <<mdns_registered, missed, todo>> /\ rolled \subseteq rolled'
        /\ (\E o \in Objs : HasId(o, i) /\ o # h) => i \in rolled'
    BY <1>7 DEF RollBack, net
  <2>3. h \in Objs /\ HasId(h, i)
    <3>1. TypeOK /\ ListMatchesHeap /\ Registered
      BY <2>1 DEF Shape, Registered
    <3>2. \E o \in Objs : HasId(o, i)
      BY <3>1 DEF Named
    <3> QED
      BY <2>1, <3>1, <3>2, FirstIs
  <2> HIDE DEF h
  <2>5. ~racy /\ obj'[h] = None /\ \A o \in Objs \ {h} : obj'[o] = obj[o] /\ pollers'[o] = pollers[o]
    BY <2>1 DEF Dead
  <2>6. ASSUME NEW j, j # i, Cared(j) PROVE Cared(j)'
    <3>1. PICK o \in Objs : HasId(o, j) /\ (pollers[o] >= 1 \/ o \in Range(todo["chip"]))
      BY <2>6 DEF Cared
    <3>2. o # h
      BY <2>3, <2>6, <3>1 DEF HasId
    <3> QED
      BY <2>2, <2>5, <3>1, <3>2 DEF Cared, HasId
  <2>7. ASSUME NEW o \in Objs, obj'[o] # None, obj'[o].id \notin rolled'
        PROVE  Cared(obj[o].id)'
    <3>1. o # h /\ obj'[o] = obj[o] /\ obj[o].id # i
      BY <2>2, <2>5, <2>7 DEF HasId
    <3>2. Cared(obj[o].id)
      BY <1>c, <2>2, <2>5, <2>7, <3>1
    <3> QED
      BY <2>6, <3>1, <3>2
  <2> QED
    BY <1>c, <2>1, <2>2, <2>5, <2>7 DEF Begun
<1>8. CASE ClearModbus
  <2>1. Dead(Range(modbus)) /\ \A o \in Objs : obj'[o] = None
    BY <1>8, ClearHeap
  <2>2. ~racy' => ~racy
    BY <2>1 DEF Dead
  <2>3. UNCHANGED <<mdns_registered, missed>> /\ pc'["main"] = pc["main"]
    BY <1>8, Holding DEF ClearModbus, Goto, net
  <2> QED
    BY <1>c, <2>1, <2>2, <2>3 DEF Begun
<1>9. CASE Restart
  BY <1>9 DEF Restart, Begun
<1> QED
  BY <1>1, <1>2, <1>3, <1>4, <1>5, <1>6, <1>7, <1>8, <1>9 DEF Next

-----------------------------------------------------------------------------
(* Paused devices.                                                         *)

LEMMA StepRested ==
  ASSUME Shape, Named, Rested, [Next]_vars
  PROVE  Rested'
<1>c. ASSUME ~racy, link, pc["event"] # "pausing"
      PROVE  \A o \in Objs : obj[o] # None /\ paused[o] => o \in Range(todo["event"])
  BY <1>c DEF Rested
<1>1. CASE \/ InitManagers \/ RestoreMatter \/ StartWebServer \/ IpAddressChanged \/ StartNext
           \/ AllStarted \/ AllPaused
           \/ (\E i \in Ids, cfg \in Configs : Post(i, cfg) \/ Put(i, cfg))
           \/ RegisterMatter \/ StartRegistered \/ (\E i \in Ids : DeleteDevice(i))
           \/ FactoryReset \/ ClearMatter \/ ClearStore \/ UNCHANGED vars
  <2>1. /\ UNCHANGED <<obj, paused, racy, link>>
        /\ todo'["event"] = todo["event"]
        /\ pc'["event"] \in {pc["event"], "idle"}
    BY <1>1, Holding
       DEF InitManagers, RestoreMatter, StartWebServer, IpAddressChanged, StartNext, Start,
           AllStarted, AllPaused, Post, Put, Register, RegisterMatter, StartRegistered, Respond,
           DeleteDevice, FactoryReset, ClearMatter, ClearStore, Goto, vars, lists, objects, history,
           net
  <2>2. pc["event"] = "pausing" => ~link
    BY DEF Shape, Control
  <2> QED
    BY <1>c, <2>1, <2>2 DEF Rested
<1>2. ASSUME NEW up \in BOOLEAN, LinkChanges(up) PROVE Rested'
  <2>1. /\ todo'["event"] = modbus /\ UNCHANGED obj
    BY <1>2, Holding DEF LinkChanges, objects
  <2> QED
    BY <2>1, Holding DEF Rested
<1>3. CASE PauseNext
  <2> DEFINE h == Head(todo["event"])
  <2>1. /\ paused' = [paused EXCEPT ![h] = (pc["event"] = "pausing")]
        /\ todo'["event"] = Tail(todo["event"])
        /\ UNCHANGED <<obj, racy, link, pc>>
        /\ todo["event"] # <<>> /\ todo["event"] \in Seq(Objs)
    BY <1>3, Holding DEF PauseNext, net, history
  <2>2. h \in Objs /\ Range(todo["event"]) = Range(todo'["event"]) \cup {h}
    BY <2>1, Walked
  <2> HIDE DEF h
  <2>3. DOMAIN paused = Objs
    BY DEF Shape, TypeOK
  <2>4. /\ pc["event"] # "pausing" => ~paused'[h]
        /\ \A o \in Objs \ {h} : paused'[o] = paused[o]
    BY <2>1, <2>2, <2>3
  <2> QED
    BY <1>c, <2>1, <2>2, <2>4 DEF Rested
<1>4. CASE \/ \E i \in Ids : RestoreModbus(i)
           \/ \E o \in Objs : RegisterModbus(o)
  <2>1. PICK o \in Objs : \E d : Born(o, d)
    <3>1. ASSUME NEW i \in Ids, RestoreModbus(i) PROVE \E o \in Objs : \E d : Born(o, d)
      BY <3>1, RestoreShape
    <3>2. ASSUME NEW o \in Objs, RegisterModbus(o) PROVE \E d : Born(o, d)
      BY <3>2, RegisterShape
    <3> QED
      BY <1>4, <3>1, <3>2
  <2>2. UNCHANGED link /\ todo'["event"] = todo["event"] /\ pc'["event"] = pc["event"]
    BY <1>4, Holding DEF RestoreModbus, RegisterModbus, Goto, net
  <2>3. /\ ~racy' => ~racy
        /\ ~paused'[o] /\ \A p \in Objs \ {o} : obj'[p] = obj[p] /\ paused'[p] = paused[p]
    BY <2>1 DEF Born
  <2> QED
    BY <1>c, <2>2, <2>3 DEF Rested
<1>5. CASE RollBack \/ ClearModbus
  <2>1. PICK gone : Dead(gone)
    BY <1>5, RollBackHeap, ClearHeap
  <2>2. UNCHANGED link /\ todo'["event"] = todo["event"] /\ pc'["event"] = pc["event"]
    BY <1>5, Holding DEF RollBack, ClearModbus, Respond, Goto, net
  <2>3. /\ ~racy' => ~racy
        /\ \A o \in gone : obj'[o] = None
        /\ \A o \in Objs \ gone : obj'[o] = obj[o] /\ paused'[o] = paused[o]
    BY <2>1 DEF Dead
  <2> QED
    BY <1>c, <2>2, <2>3 DEF Rested
<1>6. CASE Restart
  <2>1. \A o \in Objs : obj'[o] = None
    BY <1>6 DEF Restart, NoObject
  <2> QED
    BY <2>1 DEF Rested
<1> QED
  BY <1>1, <1>2, <1>3, <1>4, <1>5, <1>6 DEF Next

-----------------------------------------------------------------------------
(* The theorems.                                                           *)

LEMMA InitIInv == Init => IInv
<1> SUFFICES ASSUME Init PROVE IInv
  OBVIOUS
<1>1. Shape
  BY InitShape
<1>2. Named
  BY InitNamed
<1>3. /\ modbus = <<>> /\ matter = <<>> /\ pc["http"] = "off" /\ todo["chip"] = <<>>
      /\ \A o \in Objs : obj[o] = None /\ pollers[o] = 0
      /\ mdns_registered = FALSE
  BY DEF Init, NoObject, NoPoller, AtReset, NoLoop
<1>4. ~Registered
  BY <1>3 DEF Registered
<1>5. Fed /\ Begun /\ Rested /\ ReadingsReachTheirDevice
  BY <1>3, RangeOfNone DEF Fed, Begun, Rested, ReadingsReachTheirDevice
<1>6. Counted
  BY <1>3, <1>4, RangeOfNone DEF Counted
<1> QED
  BY <1>1, <1>2, <1>5, <1>6 DEF IInv

LEMMA StepIInv == IInv /\ [Next]_vars => IInv'
<1> SUFFICES ASSUME IInv, [Next]_vars PROVE IInv'
  OBVIOUS
<1>1. Shape'
  BY StepShape DEF IInv
<1>2. Named'
  BY <1>1, StepNamed DEF IInv
<1>3. Fed'
  BY <1>1, StepFed DEF IInv
<1>4. Counted'
  BY <1>1, <1>2, StepCounted DEF IInv
<1>5. Begun'
  BY <1>1, <1>2, StepBegun DEF IInv
<1>6. Rested'
  BY StepRested DEF IInv
<1>7. ReadingsReachTheirDevice'
  BY <1>1, StepRouted DEF IInv
<1> QED
  BY <1>1, <1>2, <1>3, <1>4, <1>5, <1>6, <1>7 DEF IInv

LEMMA Invariance == Spec => []IInv
  BY InitIInv, StepIInv, PTL DEF Spec

\* Every variable keeps its type, and no poll task is counted below zero,
\* whatever the destructor ends.
THEOREM TypeCorrect == Spec => []TypeOK
<1>1. IInv => TypeOK
  BY DEF IInv, Shape
<1> QED
  BY <1>1, Invariance, PTL

\* m_devices holds just the live objects, each once: registrations, rollbacks,
\* resets and restarts forget none and keep no dead pointer.
THEOREM NoObjectForgotten == Spec => []ListMatchesHeap
<1>1. IInv => ListMatchesHeap
  BY DEF IInv, Shape
<1> QED
  BY <1>1, Invariance, PTL

\* One poll task per device, but for a device that a PUT registered again or
\* that was added before the IPv4 address was handled, and unless m_devices
\* changed under a loop.
THEOREM OnePollerEach == Spec => []SinglePoller
<1>1. ASSUME IInv PROVE SinglePoller
  <2>1. Counted /\ \A o \in Range(modbus) : o \in Objs /\ obj[o] # None
    BY <1>1 DEF IInv, Shape, ListMatchesHeap
  <2> QED
    BY <2>1 DEF SinglePoller, Counted, Plain
<1> QED
  BY <1>1, Invariance, PTL

\* With the same exceptions, the rollback and the factory reset end the poll
\* task with the object it polls.
THEOREM NoPollerLeft == Spec => []NoPollerOutlivesItsDevice
<1>1. IInv => NoPollerOutlivesItsDevice
  BY DEF IInv, Counted, NoPollerOutlivesItsDevice
<1> QED
  BY <1>1, Invariance, PTL

LEMMA Polled == ASSUME IInv PROVE EveryDeviceIsPolled
<1>1. Begun /\ \A o \in Objs : o \in Range(modbus) <=> obj[o] # None
  BY DEF IInv, Shape, ListMatchesHeap
<1>2. Quiet => ~Registered /\ todo["chip"] = <<>>
  BY DEF Quiet, IInv, Shape, Control, Registered
<1>3. \A o \in Range(modbus) : o \in Objs /\ obj[o] # None
  BY DEF IInv, Shape, ListMatchesHeap
<1>4. \A i : todo["chip"] = <<>> /\ Cared(i) => IsPolled(i)
  BY <1>1, RangeOfNone DEF Cared, HasId, IsPolled
<1> QED
  BY <1>1, <1>2, <1>3, <1>4 DEF EveryDeviceIsPolled, Settled, Begun

\* When nothing is under way, every device is polled by one of the objects
\* with its id.  The exceptions: the IPv4 address was handled before the
\* restore had ended, a loop walked m_devices while it changed, or a failed PUT
\* deleted the object that was polled.
THEOREM NobodyForgotten == Spec => []EveryDeviceIsPolled
  BY Polled, Invariance, PTL

\* A registration that fails half-way leaves no endpoint without a device
\* that has its id, nor, with the same exceptions, without one that is polled.
THEOREM EndpointsAreFed == Spec => []EveryEndpointHasADevice
<1>1. ASSUME IInv PROVE EveryEndpointHasADevice
  <2>1. Fed /\ EveryDeviceIsPolled /\ \A o \in Objs : obj[o] # None => o \in Range(modbus)
    BY <1>1, Polled DEF IInv, Shape, ListMatchesHeap
  <2>2. \A m \in Range(matter) : \E o \in Range(modbus) : obj[o].id = m.id
    BY <2>1 DEF Fed, HasId
  <2> QED
    BY <2>1, <2>2 DEF EveryEndpointHasADevice, EveryDeviceIsPolled
<1> QED
  BY <1>1, Invariance, PTL

\* on_readings finds the Matter device made from the configuration that the
\* readings were taken with, unless a PUT registered the id again.
THEOREM ReadingsAreRouted == Spec => []ReadingsReachTheirDevice
<1>1. IInv => ReadingsReachTheirDevice
  BY DEF IInv
<1> QED
  BY <1>1, Invariance, PTL

\* After the link is back and the loop over m_devices is done, no device stays
\* paused, unless the list changed under a loop.
THEOREM EveryoneResumes == Spec => []NoDeviceLeftPaused
<1>1. ASSUME IInv PROVE NoDeviceLeftPaused
  <2>1. Rested /\ \A o \in Range(modbus) : o \in Objs /\ obj[o] # None
    BY <1>1 DEF IInv, Shape, ListMatchesHeap
  <2>2. pc["event"] = "idle" => todo["event"] = <<>>
    BY <1>1 DEF IInv, Shape, Control
  <2> QED
    BY <2>1, <2>2, RangeOfNone DEF NoDeviceLeftPaused, Rested
<1> QED
  BY <1>1, Invariance, PTL

\* A factory reset that ends has emptied the store and both lists, whatever
\* the other tasks did meanwhile.
THEOREM ResetForgets == Spec => FactoryResetForgets
<1>1. ASSUME IInv, [Next]_vars, ResetDone
      PROVE  (\A i \in Ids : store'[i] = None) /\ modbus' = <<>> /\ matter' = <<>>
  <2>1. /\ pc["http"] = "clear store" /\ pc'["http"] = "idle"
        /\ modbus = <<>> /\ matter = <<>> /\ pc["main"] = "done" /\ boot = {}
        /\ DOMAIN pc = {"main", "chip", "event", "http"}
    BY <1>1 DEF ResetDone, IInv, Shape, Control
  <2>2. ~(\/ InitManagers \/ (\E i \in Ids : RestoreModbus(i)) \/ RestoreMatter \/ StartWebServer
          \/ IpAddressChanged \/ StartNext \/ AllStarted
          \/ (\E up \in BOOLEAN : LinkChanges(up)) \/ PauseNext \/ AllPaused \/ UNCHANGED vars)
    <3>1. ~(InitManagers \/ (\E i \in Ids : RestoreModbus(i)) \/ RestoreMatter \/ StartWebServer)
      BY <2>1 DEF InitManagers, RestoreModbus, RestoreMatter, StartWebServer
    <3>2. ~(IpAddressChanged \/ StartNext \/ AllStarted)
      BY <2>1 DEF IpAddressChanged, StartNext, AllStarted, Goto
    <3>3. ~((\E up \in BOOLEAN : LinkChanges(up)) \/ PauseNext \/ AllPaused \/ UNCHANGED vars)
      BY <2>1 DEF LinkChanges, PauseNext, AllPaused, Goto, vars
    <3> QED
      BY <3>1, <3>2, <3>3
  <2>3. ~(\/ (\E i \in Ids, cfg \in Configs : Post(i, cfg) \/ Put(i, cfg))
          \/ (\E o \in Objs : RegisterModbus(o)) \/ RegisterMatter \/ StartRegistered \/ RollBack
          \/ (\E i \in Ids : DeleteDevice(i)) \/ FactoryReset \/ ClearMatter \/ ClearModbus
          \/ Restart)
    <3>1. ~(\E i \in Ids, cfg \in Configs : Post(i, cfg) \/ Put(i, cfg))
      BY <2>1 DEF Post, Put, Register
    <3>2. ~((\E o \in Objs : RegisterModbus(o)) \/ RegisterMatter \/ StartRegistered \/ RollBack)
      BY <2>1 DEF RegisterModbus, RegisterMatter, StartRegistered, RollBack
    <3>3. ~((\E i \in Ids : DeleteDevice(i)) \/ FactoryReset \/ ClearMatter \/ ClearModbus)
      BY <2>1 DEF DeleteDevice, FactoryReset, ClearMatter, ClearModbus
    <3>4. ASSUME Restart PROVE FALSE
      <4>1. pc' = AtReset
        BY <3>4 DEF Restart
      <4>2. pc'["http"] = "off"
        BY <4>1 DEF AtReset
      <4> QED
        BY <2>1, <4>2
    <3> QED
      BY <3>1, <3>2, <3>3, <3>4
  <2>4. ClearStore
    BY <1>1, <2>2, <2>3 DEF Next
  <2> QED
    BY <2>1, <2>4 DEF ClearStore, lists
<1>2. IInv /\ [Next]_vars =>
        [ResetDone => /\ \A i \in Ids : store'[i] = None
                      /\ modbus' = <<>>
                      /\ matter' = <<>>]_vars
  BY <1>1
<1> QED
  BY <1>2, Invariance, PTL DEF Spec, FactoryResetForgets

=============================================================================
