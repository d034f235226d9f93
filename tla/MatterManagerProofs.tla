------------------------ MODULE MatterManagerProofs ------------------------
(***************************************************************************)
(* Proofs about MatterManager, for any number of devices, parts and        *)
(* endpoints, whatever fails and whenever the chip restarts.               *)
(*                                                                         *)
(*   Registering  the registration under way works on the structure that   *)
(*                is in the store and on flash;                            *)
(*   Owned        an endpoint, wherever its id is kept, belongs to the     *)
(*                device and the index it is kept for;                     *)
(*   Accounted    the live endpoints are those listed and those of the     *)
(*                registration under way, each once;                       *)
(*   Recoverable  the endpoints of a device whose ids are safe are in the  *)
(*                structure on flash, and esp-matter can resume them.      *)
(***************************************************************************)
EXTENDS MatterManager, SequenceTheorems, WellFoundedInduction, TLAPS

Working == pc \in {"root", "parts", "save"}
MaybeEp == Eps \cup {None}

Jobs == [id : Ids \cup {None}, doc : Document \cup {Broken}, eps : Seq(MaybeEp), fresh : SUBSET Nat]

Registering ==
  /\ job \in Jobs
  /\ Working => /\ job.id \in Ids \ boot
                /\ job.doc = store[job.id] /\ job.doc = file[job.id]
  /\ ~Working => job = NoJob
  /\ pc = "off" => m_devices = <<>>
  /\ pc # "off" => \A i \in boot : store[i] = file[i] /\ store[i] # Vacant
  /\ pc = "clear" => boot = {}
  /\ pc = "root" => job.eps = <<>> /\ job.fresh = {}
  /\ pc = "save" => Len(job.eps) = Len(StoredIds(job.doc))

Shape == TypeOK /\ Registering

Owns(e, i, r) == e # None => owner[e] = <<i, r>>
Belongs(e, i, r) == e # None => e \in live /\ owner[e] = <<i, r>>

StoresOwn(d, i) == d # Vacant => \A r \in DOMAIN StoredIds(d) : Owns(StoredIds(d)[r], i, r)

Owned ==
  /\ \A e \in Eps : e >= nextEp => owner[e] = None
  /\ \A i \in Ids : StoresOwn(store[i], i) /\ StoresOwn(file[i], i)
  /\ \A r \in DOMAIN job.eps : Belongs(job.eps[r], job.id, r)
  /\ \A n \in DOMAIN m_devices : \A r \in DOMAIN m_devices[n].eps :
       Belongs(m_devices[n].eps[r], m_devices[n].id, r)
  /\ \A i \in Ids, r \in Indexes : Owns(seen[i][r], i, r)

InJob(e) == e # None /\ \E r \in DOMAIN job.eps : job.eps[r] = e
At(e, n) == e # None /\ \E r \in DOMAIN m_devices[n].eps : m_devices[n].eps[r] = e

Accounted ==
  /\ \A e \in live : InJob(e) \/ \E n \in DOMAIN m_devices : At(e, n)
  /\ \A n \in DOMAIN m_devices, e \in Eps : At(e, n) =>
       ~InJob(e) /\ \A m \in DOMAIN m_devices : At(e, m) => m = n

Resumed(e, r) == e \in 1..(nextEp - 1) /\ (r = 1 => e \in bridged)

\* The endpoint last seen at an index is in the structure on flash.
OnFlash(i, r) ==
  /\ r \in DOMAIN StoredIds(file[i]) /\ StoredIds(file[i])[r] = seen[i][r]
  /\ Resumed(seen[i][r], r)

\* The registration has brought it back, or will.
ComesBack(r) ==
  IF r \in DOMAIN job.eps THEN job.eps[r] = seen[job.id][r] ELSE seen[job.id][r] \notin live

Recoverable ==
  /\ \A n \in DOMAIN m_devices : m_devices[n].id \notin boot
  /\ \A i \in safe : pc # "off" => store[i] = file[i]
  /\ \A r \in DOMAIN job.eps : job.eps[r] # None =>
       /\ Resumed(job.eps[r], r)
       /\ r \in job.fresh \/ job.eps[r] = StoredIds(job.doc)[r]
  /\ \A i \in safe : file[i] # Vacant => \A r \in Indexes : seen[i][r] # None => OnFlash(i, r)
  /\ Working /\ job.id \in safe => \A r \in Indexes : seen[job.id][r] # None => ComesBack(r)

IInv == Shape /\ Owned /\ Accounted /\ Recoverable

-----------------------------------------------------------------------------
(* Structures and lists of endpoints.                                      *)

LEMMA Least ==
  ASSUME NEW T, T \subseteq Nat, T # {}
  PROVE  \E m \in T : \A k \in T : m <= k
<1> DEFINE R == OpToRel(<, Nat)
<1>1. IsWellFoundedOn(R, Nat)
  BY NatLessThanWellFounded
<1> HIDE DEF R
<1>2. PICK m \in T : \A k \in T : ~(<<k, m>> \in R)
  BY <1>1, WFMin
<1> USE DEF R
<1>3. \A k \in T : ~(k < m)
  BY <1>2 DEF OpToRel
<1> HIDE DEF R
<1> QED
  BY <1>2, <1>3

LEMMA Lists ==
  ASSUME NEW l \in EndpointList
  PROVE  /\ l \in Seq(MaybeEp)
         /\ Len(l) \in Indexes
         /\ DOMAIN l = 1..Len(l)
<1>1. PICK n \in Indexes : l \in [1..n -> MaybeEp]
  BY DEF EndpointList, MaybeEp
<1>2. n \in Nat
  BY <1>1, MatterAssumptions DEF MatterAssumptions, Indexes
<1> QED
  BY <1>1, <1>2

LEMMA ToList ==
  ASSUME NEW l \in Seq(MaybeEp), Len(l) \in Indexes
  PROVE  l \in EndpointList
<1>1. l \in [1..Len(l) -> MaybeEp]
  OBVIOUS
<1> QED
  BY <1>1 DEF EndpointList, MaybeEp

LEMMA Structures ==
  ASSUME NEW d \in Document \cup {Broken}
  PROVE  /\ StoredIds(d) \in EndpointList
         /\ StoredIds(d) \in Seq(MaybeEp)
         /\ Len(StoredIds(d)) \in Indexes
         /\ DOMAIN StoredIds(d) = 1..Len(StoredIds(d))
         /\ d # Vacant
<1>1. StoredIds(d) \in EndpointList
  <2>1. CASE d = Broken
    <3>1. <<None>> \in Seq(MaybeEp) /\ Len(<<None>>) = 1
      BY DEF MaybeEp
    <3>2. 1 \in Indexes
      BY MatterAssumptions DEF MatterAssumptions, Indexes
    <3> QED
      BY <2>1, <3>1, <3>2, ToList DEF StoredIds
  <2>2. CASE d # Broken
    BY <2>2 DEF StoredIds, Document
  <2> QED
    BY <2>1, <2>2
<1>2. d # Vacant
  BY MatterAssumptions DEF MatterAssumptions
<1> QED
  BY <1>1, <1>2, Lists

LEMMA InputsAreDocuments ==
  ASSUME NEW d \in Inputs
  PROVE  d \in Document /\ \A r \in DOMAIN StoredIds(d) : StoredIds(d)[r] = None
<1>1. PICK n \in PartCounts, l \in Longs : d = [ids |-> [r \in 1..(n + 1) |-> None], long |-> l]
  BY DEF Inputs
<1>2. n \in Nat /\ n + 1 \in Indexes /\ l \in BOOLEAN
  BY <1>1, MatterAssumptions DEF MatterAssumptions, Indexes
<1>3. d.ids \in EndpointList
  BY <1>1, <1>2 DEF EndpointList
<1>4. d \in Document
  BY <1>1, <1>2, <1>3 DEF Document
<1>5. d # Broken
  BY <1>4, MatterAssumptions DEF MatterAssumptions
<1> QED
  BY <1>1, <1>4, <1>5 DEF StoredIds

-----------------------------------------------------------------------------
(* Types.                                                                  *)

LEMMA NoJobShape == NoJob \in Jobs /\ DOMAIN NoJob.eps = {} /\ NoJob.eps = <<>> /\ NoJob.fresh = {}
  BY DEF NoJob, Jobs

LEMMA InitShape == Init => Shape
<1> SUFFICES ASSUME Init PROVE Shape
  OBVIOUS
<1>1. owner \in [Eps -> (Ids \X Indexes) \cup {None}] /\ seen \in [Ids -> [Indexes -> Eps \cup {None}]]
  BY DEF Init, Unseen
<1>2. nextEp \in 1..(MaxEp + 1)
  BY MatterAssumptions DEF MatterAssumptions, Init
<1>3. store \in [Ids -> Document \cup {Broken, Vacant}] /\ file \in [Ids -> Document \cup {Broken, Vacant}]
  BY DEF Init
<1>4. Registering
  BY NoJobShape DEF Init, Registering, Working
<1>5. /\ job.id = None /\ job.doc = Broken /\ Len(job.eps) = 0
      /\ Range(job.eps) = {} /\ job.fresh = {}
  BY DEF Init, NoJob, Range
<1>6. Len(StoredIds(job.doc)) \in Indexes
  BY <1>5, Structures
<1> QED
  BY <1>1, <1>2, <1>3, <1>4, <1>5, <1>6 DEF Init, Shape, TypeOK, Indexes

\* What Begin, and what an endpoint that was taken, leave behind.
LEMMA BeginShape ==
  ASSUME Shape, NEW i \in Ids, NEW d \in Document \cup {Broken}, Begin(i, d)
  PROVE  /\ job' \in Jobs
         /\ job'.id = i /\ job'.doc = d /\ job'.eps = <<>> /\ job'.fresh = {}
         /\ Len(job'.eps) <= Len(StoredIds(job'.doc)) /\ Range(job'.eps) = {}
<1>1. job' = [id |-> i, doc |-> d, eps |-> <<>>, fresh |-> {}]
  BY DEF Begin
<1>2. Len(StoredIds(d)) \in Nat
  BY Structures, MatterAssumptions DEF Indexes, MatterAssumptions
<1> QED
  BY <1>1, <1>2 DEF Jobs, Range

Taken(e) ==
  /\ Take(e)
  /\ \/ Resume /\ e = StoredId
     \/ Create /\ e = nextEp
  /\ nextEp' \in 1..(MaxEp + 1)
  /\ bridged' \subseteq Eps
  /\ live' \subseteq Eps
  /\ owner' \in [Eps -> (Ids \X Indexes) \cup {None}]
  /\ job' \in Jobs
  /\ job'.id = job.id /\ job'.doc = job.doc
  /\ job'.eps = Append(job.eps, e)
  /\ Len(job'.eps) = Role
  /\ Range(job'.eps) \subseteq MaybeEp
  /\ job'.fresh \subseteq DOMAIN job'.eps
  /\ safe' \subseteq Ids

LEMMA TakeShape ==
  ASSUME Shape, Working, Resume \/ Create, Role <= Len(StoredIds(job.doc))
  PROVE  \E e \in Eps : Taken(e)
<1>1. /\ job \in Jobs /\ job.id \in Ids /\ job.eps \in Seq(MaybeEp)
      /\ job.fresh \subseteq DOMAIN job.eps /\ nextEp \in 1..(MaxEp + 1) /\ MaxEp \in Nat
      /\ live \subseteq Eps /\ bridged \subseteq Eps /\ safe \subseteq Ids
      /\ owner \in [Eps -> (Ids \X Indexes) \cup {None}]
  BY MatterAssumptions DEF Shape, TypeOK, Registering, Jobs, MatterAssumptions
<1>2. Role \in Indexes
  <2>1. job.doc \in Document \cup {Broken}
    BY <1>1 DEF Jobs
  <2>2. Len(StoredIds(job.doc)) \in Indexes /\ Role \in Nat \ {0}
    BY <1>1, <2>1, Structures DEF Role
  <2> QED
    BY <2>2, MatterAssumptions DEF Indexes, MatterAssumptions
<1>3. ASSUME NEW e \in Eps, Take(e)
      PROVE  live' \subseteq Eps /\ owner' \in [Eps -> (Ids \X Indexes) \cup {None}]
  BY <1>1, <1>2, <1>3 DEF Take
<1>4. ASSUME NEW e \in Eps, NEW F \in SUBSET Nat, F \subseteq job.fresh \cup {Role},
             job' = [job EXCEPT !.eps = Append(@, e), !.fresh = F]
      PROVE  /\ job' \in Jobs
             /\ job'.id = job.id /\ job'.doc = job.doc
             /\ job'.eps = Append(job.eps, e)
             /\ Len(job'.eps) = Role
             /\ Range(job'.eps) \subseteq MaybeEp
             /\ job'.fresh \subseteq DOMAIN job'.eps
  <2>1. Append(job.eps, e) \in Seq(MaybeEp) /\ Len(Append(job.eps, e)) = Role
    BY <1>1 DEF MaybeEp, Role
  <2>2. /\ job' \in Jobs /\ job'.id = job.id /\ job'.doc = job.doc
        /\ job'.eps = Append(job.eps, e) /\ job'.fresh = F
    BY <1>1, <1>4, <2>1 DEF Jobs
  <2>3. Range(job'.eps) \subseteq MaybeEp
    BY <2>1, <2>2 DEF Range
  <2>4. DOMAIN job'.eps = 1..Role /\ DOMAIN job.eps \subseteq 1..Role /\ Role \in 1..Role
    BY <1>1, <2>1, <2>2 DEF Role
  <2> QED
    BY <1>1, <1>4, <2>1, <2>2, <2>3, <2>4
<1>5. CASE Resume
  <2>1. StoredId \in Eps /\ Take(StoredId)
    BY <1>1, <1>5 DEF Resume, Resumable, Eps
  <2>2. job' = [job EXCEPT !.eps = Append(@, StoredId), !.fresh = job.fresh]
    BY <1>1, <1>5 DEF Resume, Jobs
  <2>3. job.fresh \in SUBSET Nat
    BY <1>1 DEF Jobs
  <2>4. nextEp' = nextEp /\ bridged' = bridged /\ safe' = safe
    BY <1>5 DEF Resume
  <2> QED
    BY <1>1, <1>3, <1>4, <1>5, <2>1, <2>2, <2>3, <2>4 DEF Taken
<1>6. CASE Create
  <2>1. nextEp \in Eps /\ Take(nextEp)
    BY <1>6 DEF Create
  <2>2. job' = [job EXCEPT !.eps = Append(@, nextEp), !.fresh = job.fresh \cup {Role}]
    BY <1>1, <1>6 DEF Create, Jobs
  <2>3. job.fresh \cup {Role} \in SUBSET Nat
    BY <1>1, <1>2 DEF Jobs, Indexes
  <2>4. nextEp' \in 1..(MaxEp + 1) /\ bridged' \subseteq Eps /\ safe' \subseteq Ids
    BY <1>1, <1>6, <2>1 DEF Create, Eps
  <2> QED
    BY <1>3, <1>4, <1>6, <2>1, <2>2, <2>3, <2>4 DEF Taken
<1> QED
  BY <1>5, <1>6

LEMMA SaveShape ==
  ASSUME Shape, NEW i \in Ids, NEW d \in Document \cup {Broken, Vacant}, Save(i, d)
  PROVE  /\ store' \in [Ids -> Document \cup {Broken, Vacant}]
         /\ file' \in [Ids -> Document \cup {Broken, Vacant}]
         /\ store'[i] = d /\ file'[i] = d
         /\ nextEp' = nextEp /\ bridged' = bridged
  BY DEF Shape, TypeOK, Save

\* The ids that are written back make a structure of the same length.
LEMMA WrittenIds ==
  ASSUME Shape, pc = "save", job.doc # Broken
  PROVE  /\ WithIds(job.doc) \in Document \cup {Broken}
         /\ ~job.doc.long =>
              /\ DOMAIN StoredIds(WithIds(job.doc)) = DOMAIN StoredIds(job.doc)
              /\ \A r \in DOMAIN StoredIds(job.doc) :
                   StoredIds(WithIds(job.doc))[r] =
                     IF r \in job.fresh THEN job.eps[r] ELSE StoredIds(job.doc)[r]
<1>1. /\ job.doc \in Document /\ job.eps \in Seq(MaybeEp)
      /\ StoredIds(job.doc) = job.doc.ids /\ Len(job.eps) = Len(job.doc.ids)
  BY DEF Shape, Registering, Jobs, StoredIds
<1>2. /\ job.doc.ids \in EndpointList /\ job.doc.long \in BOOLEAN
      /\ job.doc = [ids |-> job.doc.ids, long |-> job.doc.long]
  BY <1>1 DEF Document
<1>3. /\ job.doc.ids \in Seq(MaybeEp) /\ Len(job.doc.ids) \in Indexes
      /\ DOMAIN job.doc.ids = 1..Len(job.doc.ids)
  BY <1>2, Lists
<1> DEFINE ids == [r \in DOMAIN job.doc.ids |-> IF r \in job.fresh THEN job.eps[r] ELSE job.doc.ids[r]]
<1>4. \A r \in DOMAIN job.doc.ids : ids[r] \in MaybeEp
  BY <1>1, <1>3
<1>5. ids \in EndpointList
  <2>1. ids \in [1..Len(job.doc.ids) -> MaybeEp]
    BY <1>3, <1>4
  <2> QED
    BY <1>3, <2>1 DEF EndpointList, MaybeEp
<1>6. CASE ~job.doc.long
  <2>1. WithIds(job.doc) = [ids |-> ids, long |-> job.doc.long]
    BY <1>2, <1>6 DEF WithIds
  <2>2. WithIds(job.doc) \in Document
    BY <1>2, <1>5, <2>1 DEF Document
  <2>3. StoredIds(WithIds(job.doc)) = ids
    BY <2>1, <2>2, MatterAssumptions DEF StoredIds, MatterAssumptions
  <2> QED
    BY <1>1, <2>2, <2>3
<1>7. CASE job.doc.long
  BY <1>7 DEF WithIds
<1> QED
  BY <1>6, <1>7

LEMMA StepShape == Shape /\ [Next]_vars => Shape'
<1> SUFFICES ASSUME Shape, [Next]_vars PROVE Shape'
  OBVIOUS
<1>0. TypeOK /\ Registering
  BY DEF Shape
<1>s. job.doc \in Document \cup {Broken} /\ job \in Jobs /\ job.eps \in Seq(MaybeEp)
  BY <1>0 DEF Registering, Jobs
<1>n. /\ NoJob.id = None /\ NoJob.doc = Broken /\ NoJob.eps = <<>> /\ NoJob.fresh = {}
      /\ NoJob \in Jobs /\ Len(NoJob.eps) <= Len(StoredIds(NoJob.doc)) /\ Range(NoJob.eps) = {}
  <2>1. Len(StoredIds(Broken)) \in Nat
    BY DEF StoredIds
  <2> QED
    BY <2>1, NoJobShape DEF NoJob, Range
<1> USE DEF flash, history
<1>1. CASE UNCHANGED vars
  BY <1>0, <1>1 DEF vars, Shape, TypeOK, Registering, Working
<1>2. CASE Boot
  BY <1>0, <1>2, <1>n DEF Boot, Shape, TypeOK, Registering, Working
<1>3. ASSUME NEW i \in Ids, Restore(i) PROVE Shape'
  <2>1. /\ store[i] = file[i] /\ store[i] \in Document \cup {Broken}
        /\ boot' = boot \ {i} /\ pc' = "root" /\ Begin(i, store[i])
        /\ UNCHANGED <<store, file, nextEp, bridged, live, m_devices, owner, seen, safe>>
    BY <1>0, <1>3 DEF Restore, Begin, Registering, TypeOK
  <2>2. TypeOK'
    BY <1>0, <2>1, BeginShape DEF TypeOK, Jobs
  <2>3. job' \in Jobs /\ job'.id = i /\ job'.doc = store[i] /\ job'.eps = <<>> /\ job'.fresh = {}
    BY <2>1, BeginShape
  <2>4. \A k \in boot : store[k] = file[k] /\ store[k] # Vacant
    BY <1>0, <1>3 DEF Restore, Registering
  <2>5. Registering'
    BY <2>1, <2>3, <2>4 DEF Registering, Working
  <2> QED
    BY <2>2, <2>5 DEF Shape
<1>4. ASSUME NEW i \in Ids, NEW d \in Document \cup {Broken}, Ready, Save(i, d), Begin(i, d),
             UNCHANGED <<live, m_devices, boot, owner>>,
             seen' \in [Ids -> [Indexes -> Eps \cup {None}]], safe' \subseteq Ids
      PROVE  Shape'
  <2>1. TypeOK'
    BY <1>0, <1>4, BeginShape, SaveShape DEF Begin, TypeOK, Jobs
  <2>2. Registering'
    BY ZenonT(60), <1>0, <1>4, BeginShape, SaveShape DEF Begin, Ready, Registering, Working
  <2> QED
    BY <2>1, <2>2 DEF Shape
<1>5. ASSUME NEW i \in Ids, NEW d \in Inputs, AddDevice(i, d) PROVE Shape'
  <2>1. d \in Document
    BY InputsAreDocuments
  <2> QED
    BY <1>0, <1>4, <1>5, <2>1 DEF AddDevice, TypeOK
<1>6. ASSUME NEW i \in Ids, NEW d \in Inputs \cup ({store[i]} \ {Broken}), UpdateDevice(i, d) PROVE Shape'
  <2>1. d \in Document
    <3>1. store[i] # Vacant /\ store[i] \in Document \cup {Broken, Vacant}
      BY <1>0, <1>6 DEF UpdateDevice, Stored, TypeOK
    <3> QED
      BY <3>1, InputsAreDocuments
  <2>2. seen' \in [Ids -> [Indexes -> Eps \cup {None}]] /\ safe' \subseteq Ids
    BY <1>0, <1>6 DEF UpdateDevice, TypeOK, Unseen
  <2> QED
    BY <1>4, <1>6, <2>1, <2>2 DEF UpdateDevice
<1>7. ASSUME NEW i \in Ids, RemoveDevice(i) PROVE Shape'
  <2>1. TypeOK'
    BY <1>0, <1>7, SaveShape DEF RemoveDevice, TypeOK
  <2>2. Registering'
    BY <1>0, <1>7, SaveShape DEF RemoveDevice, Ready, Registering, Working
  <2> QED
    BY <2>1, <2>2 DEF Shape
<1>8. ASSUME Resume \/ Create, Working, Role <= Len(StoredIds(job.doc)), pc' = "parts",
             UNCHANGED <<store, file, m_devices, boot, seen>>
      PROVE  Shape'
  <2>0. PICK e \in Eps : Taken(e)
    BY <1>8, TakeShape
  <2>1. TypeOK'
    BY <1>0, <1>8, <2>0 DEF Taken, TypeOK, MaybeEp, Jobs
  <2>2. Registering'
    BY <1>0, <1>8, <2>0 DEF Taken, Registering, Working
  <2> QED
    BY <2>1, <2>2 DEF Shape
<1>9. CASE CreateRoot
  <2>1. Len(StoredIds(job.doc)) >= 1 /\ Role = 1
    BY <1>0, <1>s, <1>9, Structures DEF CreateRoot, Registering, Role, Indexes
  <2> QED
    BY <1>8, <1>9, <2>1 DEF CreateRoot, Working
<1>10. CASE CreatePart
  <2>1. Role <= Len(StoredIds(job.doc))
    BY <1>0, <1>s, <1>10, Structures DEF CreatePart, PartsLeft, Role, Indexes
  <2> QED
    BY <1>8, <1>10, <2>1 DEF CreatePart, Working
<1>11. CASE RootFails
  <2>1. TypeOK'
    BY <1>0, <1>11, <1>n DEF RootFails, TypeOK
  <2>2. Registering'
    BY <1>0, <1>11, <1>n DEF RootFails, Registering, Working
  <2> QED
    BY <2>1, <2>2 DEF Shape
<1>12. CASE PartFails
  <2>1. /\ job' \in Jobs /\ job'.id = job.id /\ job'.doc = job.doc /\ job'.fresh = job.fresh
        /\ job'.eps = Append(job.eps, None) /\ job'.eps \in Seq(MaybeEp)
    <3>1. Append(job.eps, None) \in Seq(MaybeEp)
      BY <1>s DEF MaybeEp
    <3>2. job' = [job EXCEPT !.eps = Append(job.eps, None)]
      BY <1>12 DEF PartFails
    <3> QED
      BY <1>s, <3>1, <3>2 DEF Jobs
  <2>2. Len(job'.eps) <= Len(StoredIds(job.doc))
    BY <1>s, <1>12, <2>1, Structures DEF PartFails, PartsLeft, Indexes
  <2>3. Range(job'.eps) \subseteq MaybeEp /\ job'.fresh \subseteq DOMAIN job'.eps
    BY <1>0, <1>s, <2>1 DEF Range, TypeOK
  <2>4. TypeOK'
    BY <1>0, <1>12, <2>1, <2>2, <2>3 DEF PartFails, TypeOK, MaybeEp
  <2>5. Registering'
    BY <1>0, <1>12, <2>1 DEF PartFails, Registering, Working
  <2> QED
    BY <2>4, <2>5 DEF Shape
<1>13. CASE Enable
  <2>1. Len(job.eps) = Len(StoredIds(job.doc))
    BY <1>0, <1>s, <1>13, Structures DEF Enable, PartsLeft, TypeOK, Indexes
  <2> QED
    BY <1>0, <1>13, <2>1 DEF Enable, Shape, TypeOK, Registering, Working
<1>14. CASE Complete
  <2>1. /\ job.id \in Ids /\ job.eps \in EndpointList /\ pc = "save" /\ Published
    <3>1. Len(job.eps) \in Indexes
      BY <1>0, <1>s, <1>14, Structures DEF Complete, Registering
    <3> QED
      BY <1>0, <1>s, <1>14, <3>1, ToList DEF Complete, Registering, Working
  <2>2. m_devices' \in Seq([id : Ids, eps : EndpointList])
    BY <1>0, <2>1 DEF Published, Listed, TypeOK
  <2>3. seen' \in [Ids -> [Indexes -> Eps \cup {None}]]
    <3>1. \A r \in DOMAIN job.eps : job.eps[r] \in Eps \cup {None}
      BY <1>s DEF MaybeEp
    <3> QED
      BY <1>0, <2>1, <3>1 DEF Published, TypeOK
  <2>4. /\ store' \in [Ids -> Document \cup {Broken, Vacant}]
        /\ file' \in [Ids -> Document \cup {Broken, Vacant}]
        /\ safe' \subseteq Ids
    <3>1. CASE NothingToSave
      BY <1>0, <2>1, <3>1 DEF NothingToSave, TypeOK
    <3>2. CASE SaveIds
      <4>1. WithIds(job.doc) \in Document \cup {Broken}
        BY <2>1, <3>2, WrittenIds DEF SaveIds
      <4> QED
        BY <1>0, <2>1, <3>2, <4>1 DEF SaveIds, TypeOK
    <3> QED
      BY <1>14, <3>1, <3>2 DEF Complete
  <2>5. TypeOK'
    BY <1>0, <1>n, <2>1, <2>2, <2>3, <2>4 DEF Published, TypeOK
  <2>6. \A i \in boot : store'[i] = file'[i] /\ store'[i] # Vacant
    <3>1. \A i \in boot : i \in Ids /\ i # job.id /\ store[i] = file[i] /\ store[i] # Vacant
      BY <1>0, <2>1 DEF Registering, Working, TypeOK
    <3>2. \A i \in boot : store'[i] = store[i] /\ file'[i] \in {store[i], file[i]}
      BY <1>0, <1>14, <3>1 DEF Complete, NothingToSave, SaveIds, TypeOK
    <3> QED
      BY <3>1, <3>2
  <2>7. Registering'
    BY <1>n, <2>1, <2>6 DEF Published, Registering, Working
  <2> QED
    BY <2>5, <2>7 DEF Shape
<1>15. CASE ClearMatter
  BY <1>0, <1>15 DEF ClearMatter, Ready, Shape, TypeOK, Registering, Working
<1>16. CASE ClearStore
  <2>1. store' \in [Ids -> Document \cup {Broken, Vacant}] /\ seen' \in [Ids -> [Indexes -> Eps \cup {None}]]
    BY <1>16 DEF ClearStore, Unseen
  <2>2. file' \in [Ids -> Document \cup {Broken, Vacant}]
    BY <1>16 DEF ClearStore
  <2> QED
    BY <1>0, <1>16, <2>1, <2>2 DEF ClearStore, Shape, TypeOK, Registering, Working
<1>17. CASE Restart
  <2>1. store' \in [Ids -> Document \cup {Broken, Vacant}]
    BY <1>17 DEF Restart
  <2>2. TypeOK'
    BY <1>0, <1>n, <1>17, <2>1 DEF Restart, TypeOK
  <2>3. Registering'
    BY <1>n, <1>17 DEF Restart, Registering, Working
  <2> QED
    BY <2>2, <2>3 DEF Shape
<1> QED
  BY <1>1, <1>2, <1>3, <1>5, <1>6, <1>7, <1>9, <1>10, <1>11, <1>12, <1>13, <1>14, <1>15,
     <1>16, <1>17 DEF Next

-----------------------------------------------------------------------------
(* Endpoints and whom they belong to.                                      *)

LEMMA Domains ==
  ASSUME Shape
  PROVE  /\ \A i \in Ids, r \in Indexes : <<i, r>> # None
         /\ DOMAIN job.eps = 1..Len(job.eps) /\ Len(job.eps) \in Nat
         /\ \A r \in DOMAIN job.eps : job.eps[r] \in MaybeEp
         /\ Working => DOMAIN job.eps \subseteq Indexes
         /\ ~Working => DOMAIN job.eps = {}
         /\ DOMAIN m_devices = 1..Len(m_devices) /\ Len(m_devices) \in Nat
         /\ \A n \in DOMAIN m_devices :
              /\ m_devices[n].id \in Ids
              /\ DOMAIN m_devices[n].eps \subseteq Indexes
              /\ \A r \in DOMAIN m_devices[n].eps : m_devices[n].eps[r] \in MaybeEp
<1>0. TypeOK /\ Registering
  BY DEF Shape
<1>1. \A i \in Ids, r \in Indexes : <<i, r>> # None
  BY MatterAssumptions DEF MatterAssumptions
<1>2. job.eps \in Seq(MaybeEp)
  BY <1>0 DEF Registering, Jobs
<1>3. ~Working => DOMAIN job.eps = {}
  BY <1>0, NoJobShape DEF Registering
<1>4. ASSUME Working PROVE DOMAIN job.eps \subseteq Indexes
  <2>1. Len(StoredIds(job.doc)) \in Indexes /\ Len(job.eps) <= Len(StoredIds(job.doc))
    BY <1>0, Structures DEF Registering, Jobs, TypeOK
  <2> QED
    BY <1>2, <2>1, MatterAssumptions DEF Indexes, MatterAssumptions
<1>5. ASSUME NEW n \in DOMAIN m_devices
      PROVE  /\ m_devices[n].id \in Ids
             /\ DOMAIN m_devices[n].eps \subseteq Indexes
             /\ \A r \in DOMAIN m_devices[n].eps : m_devices[n].eps[r] \in MaybeEp
  <2>1. m_devices[n] \in [id : Ids, eps : EndpointList]
    <3>1. m_devices \in Seq([id : Ids, eps : EndpointList]) /\ n \in 1..Len(m_devices)
      BY <1>0, <1>5 DEF TypeOK
    <3> QED
      BY <3>1, ElementOfSeq
  <2>2. m_devices[n].id \in Ids /\ m_devices[n].eps \in EndpointList
    BY <2>1
  <2>3. /\ m_devices[n].eps \in Seq(MaybeEp) /\ Len(m_devices[n].eps) \in Indexes
        /\ DOMAIN m_devices[n].eps = 1..Len(m_devices[n].eps)
    BY <2>2, Lists
  <2> QED
    BY <2>2, <2>3, MatterAssumptions DEF Indexes, MatterAssumptions
<1> QED
  BY <1>0, <1>1, <1>2, <1>3, <1>4, <1>5 DEF TypeOK

\* An endpoint is never live already when it is taken, and if it had an
\* owner, it is the right one.
LEMMA TakeOwned ==
  ASSUME Shape, Owned, Working, Resume \/ Create, Role <= Len(StoredIds(job.doc)),
         NEW e \in Eps, Take(e), (Resume /\ e = StoredId) \/ (Create /\ e = nextEp)
  PROVE  /\ Role \in Indexes /\ job.id \in Ids
         /\ live' = live \cup {e}
         /\ owner'[e] = <<job.id, Role>>
         /\ owner[e] = None \/ owner[e] = <<job.id, Role>>
         /\ \A x \in Eps : owner[x] # None => owner'[x] = owner[x]
         /\ \A x \in Eps \ {e} : owner'[x] = owner[x]
         /\ nextEp <= nextEp' /\ e < nextEp'
<1>0. TypeOK /\ Registering /\ job.id \in Ids /\ job.eps \in Seq(MaybeEp)
  BY DEF Shape, Registering, Jobs
<1>1. Role \in Indexes /\ Role \in DOMAIN StoredIds(job.doc)
  <2>1. /\ Len(StoredIds(job.doc)) \in Indexes
        /\ DOMAIN StoredIds(job.doc) = 1..Len(StoredIds(job.doc))
    BY <1>0, Structures DEF Registering, Jobs
  <2> QED
    BY <1>0, <2>1, MatterAssumptions DEF Role, Indexes, MatterAssumptions
<1>2. nextEp \in Nat /\ e \in Nat /\ owner \in [Eps -> (Ids \X Indexes) \cup {None}]
  BY <1>0, MatterAssumptions DEF Eps, TypeOK, MatterAssumptions
<1>3. owner[e] = None \/ owner[e] = <<job.id, Role>>
  <2>1. CASE Resume /\ e = StoredId
    <3>1. job.doc = store[job.id] /\ job.doc # Vacant
      BY <1>0, Structures DEF Registering, Jobs
    <3>2. e = StoredIds(job.doc)[Role]
      BY <1>1, <2>1 DEF StoredId
    <3>3. e # None
      BY MatterAssumptions DEF MatterAssumptions
    <3>4. StoresOwn(job.doc, job.id)
      BY <1>0, <3>1 DEF Owned
    <3> QED
      BY <1>1, <3>1, <3>2, <3>3, <3>4 DEF StoresOwn, Owns
  <2>2. CASE Create /\ e = nextEp
    BY <1>2, <2>2 DEF Owned
  <2> QED
    BY <2>1, <2>2
<1>4. owner'[e] = <<job.id, Role>> /\ live' = live \cup {e}
  BY <1>2, <1>3 DEF Take
<1>5. \A x \in Eps \ {e} : owner'[x] = owner[x]
  BY <1>2 DEF Take
<1>6. nextEp <= nextEp' /\ e < nextEp'
  BY <1>2 DEF Resume, Resumable, Create
<1> QED
  BY <1>0, <1>1, <1>3, <1>4, <1>5, <1>6

LEMMA InitOwned == Init => Owned
<1> SUFFICES ASSUME Init PROVE Owned
  OBVIOUS
<1>1. \A i \in Ids, r \in Indexes : seen[i][r] = None
  BY DEF Init, Unseen
<1>2. job = NoJob
  BY DEF Init
<1> QED
  BY <1>1, <1>2, NoJobShape DEF Init, Owned, StoresOwn, Owns

LEMMA TakeKeepsOwned ==
  ASSUME Shape, Shape', Owned, Working, Resume \/ Create, Role <= Len(StoredIds(job.doc)),
         UNCHANGED <<store, file, m_devices, boot, seen>>
  PROVE  Owned'
<1>1. PICK e \in Eps : Taken(e)
  BY TakeShape
<1>t. /\ Take(e) /\ ((Resume /\ e = StoredId) \/ (Create /\ e = nextEp))
      /\ job'.id = job.id /\ job'.eps = Append(job.eps, e)
  BY <1>1 DEF Taken
<1>2. /\ Role \in Indexes /\ job.id \in Ids
      /\ live' = live \cup {e} /\ owner'[e] = <<job.id, Role>>
      /\ \A x \in Eps : owner[x] # None => owner'[x] = owner[x]
      /\ \A x \in Eps \ {e} : owner'[x] = owner[x]
      /\ nextEp <= nextEp' /\ e < nextEp'
  BY <1>t, TakeOwned
<1>3. ASSUME NEW x \in MaybeEp, NEW i \in Ids, NEW r \in Indexes, x # None, owner[x] = <<i, r>>
      PROVE  owner'[x] = <<i, r>>
  BY <1>2, <1>3, Domains DEF MaybeEp
<1>4. \A x \in Eps : x >= nextEp' => owner'[x] = None
  <2>1. nextEp \in Nat /\ nextEp' \in Nat /\ Eps \subseteq Nat
    BY MatterAssumptions DEF Shape, TypeOK, Eps, MatterAssumptions
  <2> QED
    BY <1>2, <2>1 DEF Owned
<1>5. ASSUME NEW d \in Document \cup {Broken, Vacant}, NEW i \in Ids, StoresOwn(d, i)
      PROVE  d # Vacant => \A r \in DOMAIN StoredIds(d) : StoredIds(d)[r] # None => owner'[StoredIds(d)[r]] = <<i, r>>
  <2> SUFFICES ASSUME d # Vacant, NEW r \in DOMAIN StoredIds(d), StoredIds(d)[r] # None
               PROVE  owner'[StoredIds(d)[r]] = <<i, r>>
    OBVIOUS
  <2>1. r \in Indexes /\ StoredIds(d)[r] \in MaybeEp
    <3>1. /\ StoredIds(d) \in Seq(MaybeEp) /\ Len(StoredIds(d)) \in Indexes
          /\ DOMAIN StoredIds(d) = 1..Len(StoredIds(d))
      BY Structures
    <3> QED
      BY <3>1, MatterAssumptions DEF Indexes, MatterAssumptions
  <2> QED
    BY <1>3, <1>5, <2>1 DEF StoresOwn, Owns
<1>6. \A i \in Ids : StoresOwn(store[i], i)' /\ StoresOwn(file[i], i)'
  <2>1. \A i \in Ids : /\ store[i] \in Document \cup {Broken, Vacant} /\ store'[i] = store[i]
                       /\ file[i] \in Document \cup {Broken, Vacant} /\ file'[i] = file[i]
    BY DEF Shape, TypeOK
  <2> QED
    BY ZenonT(60), <1>5, <2>1 DEF Owned, StoresOwn, Owns
<1>7. \A r \in DOMAIN job'.eps : Belongs(job.eps[r], job.id, r)'
  <2>1. ASSUME NEW r \in DOMAIN job'.eps, job'.eps[r] # None
        PROVE  job'.eps[r] \in live' /\ owner'[job'.eps[r]] = <<job.id, r>>
    <3>1. CASE r \in DOMAIN job.eps
      <4>1. job'.eps[r] = job.eps[r] /\ job.eps[r] \in MaybeEp /\ r \in Indexes
        BY <1>t, <3>1, Domains
      <4>2. job.eps[r] \in live /\ owner[job.eps[r]] = <<job.id, r>>
        BY <2>1, <3>1, <4>1 DEF Owned, Belongs
      <4> QED
        BY <1>2, <1>3, <2>1, <4>1, <4>2
    <3>2. CASE r \notin DOMAIN job.eps
      <4>1. DOMAIN job.eps = 1..Len(job.eps) /\ Len(job.eps) \in Nat /\ job.eps \in Seq(MaybeEp)
        BY Domains DEF Shape, Registering, Jobs
      <4>2. r = Role /\ job'.eps[r] = e
        BY <1>t, <2>1, <3>2, <4>1 DEF Role
      <4> QED
        BY <1>2, <4>2
    <3> QED
      BY <3>1, <3>2
  <2> QED
    BY <1>t, <2>1 DEF Belongs
<1>8. \A n \in DOMAIN m_devices' : \A r \in DOMAIN m_devices'[n].eps :
        Belongs(m_devices[n].eps[r], m_devices[n].id, r)'
  <2>1. ASSUME NEW n \in DOMAIN m_devices, NEW r \in DOMAIN m_devices[n].eps, m_devices[n].eps[r] # None
        PROVE  m_devices[n].eps[r] \in live' /\ owner'[m_devices[n].eps[r]] = <<m_devices[n].id, r>>
    <3>1. /\ m_devices[n].eps[r] \in live
          /\ owner[m_devices[n].eps[r]] = <<m_devices[n].id, r>>
      BY <2>1 DEF Owned, Belongs
    <3>2. m_devices[n].id \in Ids /\ r \in Indexes /\ m_devices[n].eps[r] \in MaybeEp
      BY Domains
    <3> QED
      BY <1>2, <1>3, <2>1, <3>1, <3>2
  <2> QED
    BY <2>1 DEF Belongs
<1>9. \A i \in Ids, r \in Indexes : Owns(seen[i][r], i, r)'
  <2>1. \A i \in Ids, r \in Indexes : seen[i][r] \in MaybeEp
    BY DEF Shape, TypeOK, MaybeEp
  <2> QED
    BY <1>3, <2>1 DEF Owned, Owns
<1> QED
  BY <1>4, <1>6, <1>7, <1>8, <1>9 DEF Owned

\* A structure that is saved names no endpoint of another device.
LEMMA SaveKeepsOwned ==
  ASSUME Shape, Owned, NEW i \in Ids, NEW d \in Document \cup {Broken, Vacant}, Save(i, d),
         StoresOwn(d, i), UNCHANGED <<live, m_devices, owner>>,
         job'.eps = <<>>, \A k \in Ids, r \in Indexes : seen'[k][r] \in {seen[k][r], None}
  PROVE  Owned'
<1>1. nextEp' = nextEp /\ file' = store' /\ store' = [store EXCEPT ![i] = d]
  BY DEF Save
<1>2. \A k \in Ids : StoresOwn(store[k], k)' /\ StoresOwn(file[k], k)'
  BY <1>1 DEF Owned, StoresOwn, Owns, Shape, TypeOK
<1>3. DOMAIN job'.eps = {}
  OBVIOUS
<1>4. \A k \in Ids, r \in Indexes : Owns(seen[k][r], k, r)'
  BY DEF Owned, Owns
<1> QED
  BY <1>1, <1>2, <1>3, <1>4 DEF Owned, Belongs

LEMMA StepOwned == Shape /\ Shape' /\ Owned /\ [Next]_vars => Owned'
<1> SUFFICES ASSUME Shape, Shape', Owned, [Next]_vars PROVE Owned'
  OBVIOUS
<1>0. TypeOK /\ Registering
  BY DEF Shape
<1>n. NoJob.eps = <<>> /\ DOMAIN NoJob.eps = {}
  BY NoJobShape
<1> USE DEF flash, history
<1>1. CASE UNCHANGED vars
  BY <1>1 DEF vars, Owned, StoresOwn, Owns, Belongs
<1>2. CASE Boot
  BY <1>2 DEF Boot, Owned, StoresOwn, Owns, Belongs
<1>3. ASSUME NEW i \in Ids, Restore(i) PROVE Owned'
  <2>1. DOMAIN job'.eps = {}
    BY <1>3 DEF Restore, Begin
  <2> QED
    BY <1>3, <2>1 DEF Restore, Owned, StoresOwn, Owns, Belongs
<1>4. ASSUME NEW i \in Ids, NEW d \in Inputs, AddDevice(i, d) PROVE Owned'
  <2>1. d \in Document /\ StoresOwn(d, i)
    BY InputsAreDocuments DEF StoresOwn, Owns
  <2> QED
    BY <1>4, <2>1, SaveKeepsOwned DEF AddDevice, Begin
<1>5. ASSUME NEW i \in Ids, NEW d \in Inputs \cup ({store[i]} \ {Broken}), UpdateDevice(i, d) PROVE Owned'
  <2>1. d \in Document \cup {Broken, Vacant} /\ StoresOwn(d, i)
    <3>1. CASE d \in Inputs
      BY <3>1, InputsAreDocuments DEF StoresOwn, Owns
    <3>2. CASE d = store[i]
      BY <1>0, <3>2 DEF Owned, TypeOK
    <3> QED
      BY <3>1, <3>2
  <2>2. \A k \in Ids, r \in Indexes : seen'[k][r] \in {seen[k][r], None}
    BY <1>0, <1>5 DEF UpdateDevice, Unseen, TypeOK
  <2>3. job'.eps = <<>> /\ Save(i, d) /\ UNCHANGED <<live, m_devices, owner>>
    BY <1>5 DEF UpdateDevice, Begin
  <2> QED
    BY <2>1, <2>2, <2>3, SaveKeepsOwned
<1>6. ASSUME NEW i \in Ids, RemoveDevice(i) PROVE Owned'
  <2>1. job'.eps = <<>>
    BY <1>0, <1>6, <1>n DEF RemoveDevice, Ready, Registering, Working
  <2>2. StoresOwn(Vacant, i)
    BY DEF StoresOwn
  <2> QED
    BY <1>6, <2>1, <2>2, SaveKeepsOwned DEF RemoveDevice
<1>7. CASE CreateRoot
  <2>1. Len(StoredIds(job.doc)) >= 1 /\ Role = 1 /\ Working
    BY <1>0, <1>7, Structures DEF CreateRoot, Registering, Jobs, Role, Indexes, Working
  <2> QED
    BY <1>7, <2>1, TakeKeepsOwned DEF CreateRoot
<1>8. CASE CreatePart
  <2>1. Role <= Len(StoredIds(job.doc)) /\ Working
    BY <1>0, <1>8, Structures DEF CreatePart, PartsLeft, Registering, Jobs, Role, Indexes, Working
  <2> QED
    BY <1>8, <2>1, TakeKeepsOwned DEF CreatePart
<1>9. CASE RootFails
  BY <1>9, <1>n DEF RootFails, Owned, StoresOwn, Owns, Belongs
<1>10. CASE PartFails
  <2>1. job'.id = job.id /\ job'.eps = Append(job.eps, None) /\ job.eps \in Seq(MaybeEp)
    BY <1>0, <1>10 DEF PartFails, Registering, Jobs
  <2>2. \A r \in DOMAIN job'.eps : job'.eps[r] = None \/ (r \in DOMAIN job.eps /\ job'.eps[r] = job.eps[r])
    BY <2>1
  <2>3. UNCHANGED <<store, file, nextEp, live, m_devices, owner, seen>>
    BY <1>10 DEF PartFails
  <2>4. \A r \in DOMAIN job'.eps : Belongs(job.eps[r], job.id, r)'
    BY <2>1, <2>2, <2>3 DEF Owned, Belongs
  <2> QED
    BY <2>3, <2>4 DEF Owned, StoresOwn, Owns, Belongs
<1>11. CASE Enable
  BY <1>11 DEF Enable, Owned, StoresOwn, Owns, Belongs
<1>12. CASE Complete
  <2>1. /\ Published /\ pc = "save" /\ job.id \in Ids /\ job' = NoJob
        /\ UNCHANGED <<nextEp, live, owner>>
    BY <1>0, <1>12 DEF Complete, Published, Registering, Working
  <2>2. \A r \in DOMAIN job.eps : Belongs(job.eps[r], job.id, r)
    BY DEF Owned
  <2>3. ASSUME NEW n \in DOMAIN m_devices', NEW r \in DOMAIN m_devices'[n].eps
        PROVE  Belongs(m_devices[n].eps[r], m_devices[n].id, r)'
    <3>1. CASE n \in DOMAIN m_devices
      <4>1. m_devices'[n] = m_devices[n]
        BY <1>0, <2>1, <3>1 DEF Published, TypeOK
      <4> QED
        BY <2>1, <2>3, <3>1, <4>1 DEF Owned, Belongs
    <3>2. CASE n \notin DOMAIN m_devices
      <4>1. m_devices'[n] = [id |-> job.id, eps |-> job.eps]
        BY <1>0, <2>1, <2>3, <3>2 DEF Published, Listed, TypeOK
      <4> QED
        BY <2>1, <2>2, <2>3, <4>1 DEF Belongs
    <3> QED
      BY <3>1, <3>2
  <2>4. \A i \in Ids, r \in Indexes : Owns(seen[i][r], i, r)'
    BY <1>0, <2>1, <2>2 DEF Published, Owned, Owns, Belongs, TypeOK
  <2>5. \A i \in Ids : StoresOwn(store[i], i)' /\ StoresOwn(file[i], i)'
    <3>1. CASE NothingToSave
      BY <2>1, <3>1 DEF NothingToSave, Owned, StoresOwn, Owns
    <3>2. CASE SaveIds
      <4>1. /\ store' \in {store, [store EXCEPT ![job.id] = WithIds(job.doc)]}
            /\ file' \in {file, store'}
        BY <3>2 DEF SaveIds
      <4>2. StoresOwn(WithIds(job.doc), job.id)
        <5>1. job.doc = store[job.id] /\ job.doc \in Document \cup {Broken} /\ job.doc # Vacant
          BY <1>0, <2>1, Structures DEF Registering, Working, Jobs
        <5>2. CASE job.doc.long
          BY <3>2, <5>2 DEF SaveIds, WithIds, StoresOwn, StoredIds, Owns
        <5>3. CASE ~job.doc.long
          <6>1. /\ DOMAIN StoredIds(WithIds(job.doc)) = DOMAIN StoredIds(job.doc)
                /\ \A r \in DOMAIN StoredIds(job.doc) :
                     StoredIds(WithIds(job.doc))[r] =
                       IF r \in job.fresh THEN job.eps[r] ELSE StoredIds(job.doc)[r]
            BY <2>1, <3>2, <5>3, WrittenIds DEF SaveIds
          <6>2. StoresOwn(job.doc, job.id)
            BY <2>1, <5>1 DEF Owned
          <6>3. job.fresh \subseteq DOMAIN job.eps
            BY <1>0 DEF TypeOK
          <6> QED
            BY <2>2, <5>1, <6>1, <6>2, <6>3 DEF StoresOwn, Owns, Belongs
        <5> QED
          BY <5>2, <5>3
      <4>3. \A i \in Ids : StoresOwn(store'[i], i) /\ StoresOwn(file'[i], i)
        BY <1>0, <2>1, <4>1, <4>2 DEF Owned, TypeOK
      <4> QED
        BY <2>1, <4>3 DEF StoresOwn, Owns
    <3> QED
      BY <1>12, <3>1, <3>2 DEF Complete
  <2> QED
    BY <1>n, <2>1, <2>3, <2>4, <2>5 DEF Owned
<1>13. CASE ClearMatter
  <2>1. DOMAIN job.eps = {} /\ job' = job /\ DOMAIN m_devices' = {}
    BY <1>0, <1>13, <1>n DEF ClearMatter, Ready, Registering, Working
  <2> QED
    BY <1>13, <2>1 DEF ClearMatter, Owned, StoresOwn, Owns, Belongs
<1>14. CASE ClearStore
  BY <1>14 DEF ClearStore, Unseen, Owned, StoresOwn, Owns, Belongs
<1>15. CASE Restart
  <2>1. DOMAIN job'.eps = {} /\ DOMAIN m_devices' = {}
    BY <1>15, <1>n DEF Restart
  <2> QED
    BY <1>15, <2>1 DEF Restart, Owned, StoresOwn, Owns, Belongs
<1> QED
  BY <1>1, <1>2, <1>3, <1>4, <1>5, <1>6, <1>7, <1>8, <1>9, <1>10, <1>11, <1>12, <1>13,
     <1>14, <1>15 DEF Next

-----------------------------------------------------------------------------
(* Live endpoints are listed once.                                         *)

LEMMA NothingListed ==
  ASSUME job.eps = <<>>
  PROVE  \A e : ~InJob(e)
  BY DEF InJob

LEMMA SameAccounts ==
  ASSUME Accounted, UNCHANGED <<live, m_devices>>, \A e : InJob(e)' <=> InJob(e)
  PROVE  Accounted'
  BY DEF Accounted, At

LEMMA LiveIsOwned ==
  ASSUME Shape, Owned, Accounted, NEW e \in live
  PROVE  \/ \E r \in DOMAIN job.eps : r \in Indexes /\ job.eps[r] = e /\ owner[e] = <<job.id, r>> /\ Working
         \/ \E n \in DOMAIN m_devices : \E r \in Indexes : At(e, n) /\ owner[e] = <<m_devices[n].id, r>>
<1>1. CASE InJob(e)
  BY <1>1, Domains DEF InJob, Owned, Belongs
<1>2. ASSUME NEW n \in DOMAIN m_devices, At(e, n)
      PROVE  \E r \in Indexes : owner[e] = <<m_devices[n].id, r>>
  BY ZenonT(60), <1>2, Domains DEF At, Owned, Belongs
<1> QED
  BY <1>1, <1>2 DEF Accounted

LEMMA TakenIsNew ==
  ASSUME Shape, Owned, Accounted, NEW e \in Eps, Taken(e)
  PROVE  e \notin live
<1>1. CASE Resume /\ e = StoredId
  BY <1>1 DEF Resume, Resumable
<1>2. CASE Create /\ e = nextEp
  <2>1. owner[e] = None
    BY <1>2, MatterAssumptions DEF Owned, Shape, TypeOK, MatterAssumptions
  <2>2. ASSUME e \in live PROVE \E i \in Ids, r \in Indexes : owner[e] = <<i, r>>
    <3>1. /\ Working => job.id \in Ids
          /\ \A n \in DOMAIN m_devices : m_devices[n].id \in Ids
      BY Domains DEF Shape, Registering
    <3> QED
      BY <2>2, <3>1, LiveIsOwned
  <2> QED
    BY <2>1, <2>2, Domains
<1> QED
  BY <1>1, <1>2 DEF Taken

LEMMA InitAccounted == Init => Accounted
  BY NoJobShape DEF Init, Accounted, InJob, At

LEMMA TakeKeepsAccounted ==
  ASSUME Shape, Owned, Accounted, Working, Resume \/ Create, Role <= Len(StoredIds(job.doc)),
         UNCHANGED <<m_devices>>
  PROVE  Accounted'
<1>1. PICK e \in Eps : Taken(e)
  BY TakeShape
<1>2. /\ live' = live \cup {e} /\ e \notin live /\ e # None
      /\ job'.eps = Append(job.eps, e) /\ job.eps \in Seq(MaybeEp)
  BY <1>1, TakenIsNew, MatterAssumptions DEF Taken, Take, Shape, Registering, Jobs, MatterAssumptions
<1>3. \A x : InJob(x)' <=> InJob(x) \/ x = e
  <2>1. /\ DOMAIN job'.eps = DOMAIN job.eps \cup {Role} /\ job'.eps[Role] = e /\ Role \in DOMAIN job'.eps
        /\ \A r \in DOMAIN job.eps : job'.eps[r] = job.eps[r]
    BY <1>2 DEF Role
  <2> QED
    BY <1>2, <2>1 DEF InJob
<1>4. \A n \in DOMAIN m_devices : ~At(e, n)
  <2>1. \A n \in DOMAIN m_devices : At(e, n) => e \in live
    BY DEF Owned, Belongs, At
  <2> QED
    BY <1>2, <2>1
<1> QED
  BY <1>2, <1>3, <1>4 DEF Accounted, At

LEMMA StepAccounted == Shape /\ Owned /\ Accounted /\ [Next]_vars => Accounted'
<1> SUFFICES ASSUME Shape, Owned, Accounted, [Next]_vars PROVE Accounted'
  OBVIOUS
<1>0. TypeOK /\ Registering /\ job.eps \in Seq(MaybeEp)
  BY DEF Shape, Registering, Jobs
<1>n. NoJob.eps = <<>>
  BY NoJobShape
<1>i. pc = "idle" => job.eps = <<>>
  BY <1>0, <1>n DEF Registering, Working
<1>k. ASSUME UNCHANGED <<live, m_devices>>, job'.eps = job.eps PROVE Accounted'
  BY <1>k, SameAccounts DEF InJob
<1> USE DEF flash, history
<1>1. CASE UNCHANGED vars
  BY <1>1, <1>k DEF vars
<1>2. CASE Boot
  BY <1>2, <1>k DEF Boot
<1>3. ASSUME NEW i \in Ids, Restore(i) PROVE Accounted'
  BY <1>3, <1>i, <1>k DEF Restore, Begin
<1>4. ASSUME NEW i \in Ids, NEW d, AddDevice(i, d) \/ UpdateDevice(i, d) PROVE Accounted'
  BY <1>4, <1>i, <1>k DEF AddDevice, UpdateDevice, Begin, Ready
<1>6. ASSUME NEW i \in Ids, RemoveDevice(i) PROVE Accounted'
  BY <1>6, <1>k DEF RemoveDevice
<1>7. CASE CreateRoot
  <2>1. Len(StoredIds(job.doc)) >= 1 /\ Role = 1 /\ Working
    BY <1>0, <1>7, Structures DEF CreateRoot, Registering, Jobs, Role, Indexes, Working
  <2> QED
    BY <1>7, <2>1, TakeKeepsAccounted DEF CreateRoot
<1>8. CASE CreatePart
  <2>1. Role <= Len(StoredIds(job.doc)) /\ Working
    BY <1>0, <1>8, Structures DEF CreatePart, PartsLeft, Registering, Jobs, Role, Indexes, Working
  <2> QED
    BY <1>8, <2>1, TakeKeepsAccounted DEF CreatePart
<1>9. CASE RootFails
  BY <1>0, <1>9, <1>n, <1>k DEF RootFails, Registering
<1>10. CASE PartFails
  <2>1. job'.eps = Append(job.eps, None) /\ UNCHANGED <<live, m_devices>>
    BY <1>0, <1>10 DEF PartFails, Registering, Jobs
  <2>2. /\ DOMAIN job'.eps = DOMAIN job.eps \cup {Role} /\ job'.eps[Role] = None
        /\ \A r \in DOMAIN job.eps : job'.eps[r] = job.eps[r]
    BY <1>0, <2>1 DEF Role
  <2>3. \A e : InJob(e)' <=> InJob(e)
    BY <2>2 DEF InJob
  <2> QED
    BY <2>1, <2>3, SameAccounts
<1>11. CASE Enable
  BY <1>11, <1>k DEF Enable
<1>12. CASE Complete
  <2>1. /\ m_devices' = Append(m_devices, [id |-> job.id, eps |-> job.eps])
        /\ live' = live /\ job' = NoJob
    BY <1>12 DEF Complete, Published, Listed
  <2>l. PICK last \in Nat : last = Len(m_devices) + 1
    BY <1>0 DEF TypeOK
  <2>2. /\ DOMAIN m_devices' = DOMAIN m_devices \cup {last} /\ last \notin DOMAIN m_devices
        /\ m_devices'[last] = [id |-> job.id, eps |-> job.eps]
        /\ \A n \in DOMAIN m_devices : m_devices'[n] = m_devices[n]
    BY <1>0, <2>l, <2>1 DEF TypeOK
  <2>3. /\ \A e : At(e, last)' <=> InJob(e)
        /\ \A n \in DOMAIN m_devices : \A e : At(e, n)' <=> At(e, n)
    BY <2>2 DEF At, InJob
  <2>4. \A e : ~InJob(e)'
    BY <1>n, <2>1 DEF InJob
  <2>5. \A e \in live' : \E n \in DOMAIN m_devices' : At(e, n)'
    BY <2>1, <2>2, <2>3 DEF Accounted
  <2>6. \A m, n \in DOMAIN m_devices' : \A e \in Eps : At(e, n)' /\ At(e, m)' => m = n
    BY <2>2, <2>3 DEF Accounted
  <2> QED
    BY <2>4, <2>5, <2>6 DEF Accounted
<1>13. CASE ClearMatter
  <2>1. job.eps = <<>> /\ job' = job /\ m_devices' = <<>> /\ live' = live \ ListedEndpoints
    BY <1>i, <1>13 DEF ClearMatter, Ready
  <2>2. ASSUME NEW e \in live PROVE e \in ListedEndpoints
    <3>1. PICK n \in DOMAIN m_devices : At(e, n)
      BY <2>1 DEF Accounted, InJob
    <3>2. e \in Endpoints(m_devices[n])
      BY <3>1 DEF At, Endpoints, Range
    <3> QED
      BY <3>2 DEF ListedEndpoints, Range
  <2> QED
    BY <2>1, <2>2 DEF Accounted
<1>14. CASE ClearStore
  BY <1>14, <1>k DEF ClearStore
<1>15. CASE Restart
  BY <1>15 DEF Restart, Accounted
<1> QED
  BY <1>1, <1>2, <1>3, <1>4, <1>6, <1>7, <1>8, <1>9, <1>10, <1>11, <1>12, <1>13,
     <1>14, <1>15 DEF Next

-----------------------------------------------------------------------------
(* A device whose ids are safe.                                            *)

LEMMA InitRecoverable == Init => Recoverable
  BY NoJobShape DEF Init, Recoverable, Working

LEMMA LongerRange ==
  ASSUME NEW m \in Nat, NEW n \in Nat, m <= n
  PROVE  \A z \in 1..(m - 1) : z \in 1..(n - 1)
  OBVIOUS

LEMMA TakeKeepsRecoverable ==
  ASSUME Shape, Shape', Owned, Owned', Accounted, Recoverable,
         Working, pc # "off", Resume \/ Create, Role <= Len(StoredIds(job.doc)), Working',
         UNCHANGED <<store, file, m_devices, boot, seen>>
  PROVE  Recoverable'
<1>1. PICK e \in Eps : Taken(e)
  BY TakeShape
<1>2. /\ Role \in Indexes /\ job.id \in Ids
      /\ live' = live \cup {e} /\ owner'[e] = <<job.id, Role>>
      /\ nextEp <= nextEp' /\ e < nextEp'
  BY <1>1, TakeOwned DEF Taken
<1>3. /\ nextEp \in Nat /\ nextEp' \in Nat /\ e \in Nat \ {0} /\ e # None /\ e \notin live
      /\ job.eps \in Seq(MaybeEp) /\ job.doc \in Document \cup {Broken}
      /\ job.doc = file[job.id] /\ job.doc # Vacant
  BY SMTT(30), <1>1, TakenIsNew, Structures, MatterAssumptions
     DEF Shape, TypeOK, Eps, Registering, Jobs, MatterAssumptions
<1>4. /\ job'.id = job.id /\ job'.doc = job.doc /\ job'.eps = Append(job.eps, e)
      /\ DOMAIN job'.eps = DOMAIN job.eps \cup {Role} /\ job'.eps[Role] = e
      /\ Role \notin DOMAIN job.eps
      /\ \A r \in DOMAIN job.eps : job'.eps[r] = job.eps[r]
  BY <1>1, <1>3 DEF Taken, Role
<1>5. /\ bridged \subseteq bridged' /\ job.fresh \subseteq job'.fresh /\ safe' \subseteq safe
      /\ Role = 1 => e \in bridged'
      /\ Role \in job'.fresh \/ e = StoredId
  <2>0. job \in Jobs
    BY DEF Shape, Registering
  <2>1. CASE Resume /\ e = StoredId
    <3>1. job' = [job EXCEPT !.eps = Append(@, StoredId)]
      BY <2>1 DEF Resume
    <3>2. job'.fresh = job.fresh
      BY <2>0, <3>1 DEF Jobs
    <3> QED
      BY <2>1, <3>2 DEF Resume, Resumable
  <2>2. CASE Create /\ e = nextEp
    <3>1. job' = [job EXCEPT !.eps = Append(@, nextEp), !.fresh = @ \cup {Role}]
      BY <2>2 DEF Create
    <3>2. job'.fresh = job.fresh \cup {Role}
      BY <2>0, <3>1 DEF Jobs
    <3>3. safe' \subseteq safe
      BY <2>2 DEF Create
    <3>4. bridged \subseteq bridged' /\ (Role = 1 => e \in bridged')
      BY <2>2 DEF Create
    <3> QED
      BY <3>2, <3>3, <3>4
  <2> QED
    BY <1>1, <2>1, <2>2 DEF Taken
<1>k. PICK k \in Indexes : k = Role
  BY <1>2
<1>6. ASSUME NEW x, NEW r, Resumed(x, r) PROVE x \in 1..(nextEp' - 1) /\ (r = 1 => x \in bridged')
  <2>1. \A z \in 1..(nextEp - 1) : z \in 1..(nextEp' - 1)
    <3>1. nextEp \in Nat /\ nextEp' \in Nat /\ nextEp <= nextEp'
      BY <1>2, <1>3, Zenon
    <3> QED
      BY <3>1, LongerRange
  <2>2. \A z \in bridged : z \in bridged'
    BY <1>5
  <2> QED
    BY <1>6, <2>1, <2>2, Zenon DEF Resumed
<1>7. StoredId = IF Role \in DOMAIN StoredIds(job.doc) THEN StoredIds(job.doc)[Role] ELSE None
  BY DEF StoredId
<1>8. \A r \in DOMAIN job'.eps : job'.eps[r] # None =>
        /\ Resumed(job.eps[r], r)'
        /\ r \in job'.fresh \/ job'.eps[r] = StoredIds(job'.doc)[r]
  <2>1. ASSUME NEW r \in DOMAIN job.eps, job.eps[r] # None
        PROVE  /\ Resumed(job.eps[r], r)'
               /\ r \in job'.fresh \/ job'.eps[r] = StoredIds(job'.doc)[r]
    <3>1. Resumed(job.eps[r], r) /\ (r \in job.fresh \/ job.eps[r] = StoredIds(job.doc)[r])
      BY <2>1 DEF Recoverable
    <3> QED
      BY <1>4, <1>5, <1>6, <2>1, <3>1 DEF Resumed
  <2>2. k = 1 => e \in bridged'
    BY <1>k, <1>5
  <2>3. e \in 1..(nextEp' - 1)
    BY <1>2, <1>3
  <2>4. job'.eps[k] = e /\ (k \in job'.fresh \/ e = StoredIds(job'.doc)[k])
    BY <1>k, <1>3, <1>4, <1>5, <1>7
  <2>5. Resumed(job.eps[k], k)'
    BY <2>2, <2>3, <2>4 DEF Resumed
  <2>6. DOMAIN job'.eps = DOMAIN job.eps \cup {k} /\ \A r \in DOMAIN job.eps : job'.eps[r] = job.eps[r]
    BY <1>k, <1>4
  <2> QED
    BY <2>1, <2>4, <2>5, <2>6
<1>9. ASSUME NEW i \in safe', file'[i] # Vacant, NEW r \in Indexes, seen'[i][r] # None
      PROVE  OnFlash(i, r)'
  <2>1. OnFlash(i, r) /\ file'[i] = file[i] /\ seen'[i][r] = seen[i][r]
    BY <1>5, <1>9 DEF Recoverable
  <2> QED
    BY <1>6, <2>1 DEF OnFlash, Resumed
<1>10. ASSUME job.id \in safe', NEW r \in Indexes, seen[job.id][r] # None
       PROVE  ComesBack(r)'
  <2>0. /\ OnFlash(job.id, r) /\ ComesBack(r) /\ job.id \in safe
        /\ seen' = seen /\ seen[job.id][r] \in Eps
    BY <1>2, <1>3, <1>5, <1>10 DEF Recoverable, Shape, TypeOK
  <2>1. CASE r \in DOMAIN job.eps
    BY <1>4, <2>0, <2>1 DEF ComesBack
  <2>2. CASE r = k
    <3>1. StoredId = seen[job.id][r]
      BY <1>k, <1>3, <1>7, <2>0, <2>2 DEF OnFlash
    <3>2. seen[job.id][r] \notin live
      BY <1>k, <1>4, <2>0, <2>2 DEF ComesBack
    <3>3. Resumable(StoredId)
      BY <1>k, <2>0, <2>2, <3>1, <3>2 DEF OnFlash, Resumed, Resumable
    <3>4. ~Create
      BY <1>10, <3>3 DEF Create
    <3>5. e = StoredId
      BY <1>1, <3>4 DEF Taken
    <3> QED
      BY <1>k, <1>4, <2>0, <2>2, <3>1, <3>5 DEF ComesBack
  <2>3. CASE r # k /\ r \notin DOMAIN job.eps
    <3>1. seen[job.id][r] \notin live
      BY <2>0, <2>3 DEF ComesBack
    <3>2. owner'[seen[job.id][r]] = <<job.id, r>>
      BY ZenonT(60), <1>2, <1>10, <2>0 DEF Owned, Owns
    <3>3. seen[job.id][r] # e
      BY <1>k, <1>2, <2>3, <3>2
    <3>4. r \notin DOMAIN job'.eps /\ seen'[job'.id][r] \notin live'
      BY <1>k, <1>2, <1>4, <2>0, <2>3, <3>1, <3>3
    <3> QED
      BY <3>4 DEF ComesBack
  <2> QED
    BY <2>1, <2>2, <2>3
<1>11. \A n \in DOMAIN m_devices' : m_devices'[n].id \notin boot'
  BY DEF Recoverable
<1>12. \A i \in safe' : store'[i] = file'[i]
  BY <1>5 DEF Recoverable
<1> QED
  BY <1>4, <1>8, <1>9, <1>10, <1>11, <1>12 DEF Recoverable

\* Saving one structure leaves the others as they are.
LEMMA SaveKeepsOthers ==
  ASSUME Shape, Recoverable, Ready, NEW i \in Ids, NEW d \in Document \cup {Broken, Vacant}, Save(i, d)
  PROVE  /\ store'[i] = d /\ file'[i] = d /\ file' = store'
         /\ \A k \in safe \ {i} : store'[k] = file'[k] /\ file'[k] = file[k]
         /\ UNCHANGED <<nextEp, bridged>>
<1>1. /\ store' = [store EXCEPT ![i] = d] /\ file' = store' /\ UNCHANGED <<nextEp, bridged>>
      /\ store \in [Ids -> Document \cup {Broken, Vacant}] /\ safe \subseteq Ids
  BY DEF Save, Shape, TypeOK
<1>2. \A k \in safe : store[k] = file[k]
  BY DEF Recoverable, Ready
<1> QED
  BY <1>1, <1>2

LEMMA StepRecoverable ==
  Shape /\ Shape' /\ Owned /\ Owned' /\ Accounted /\ Recoverable /\ [Next]_vars => Recoverable'
<1> SUFFICES ASSUME Shape, Shape', Owned, Owned', Accounted, Recoverable, [Next]_vars PROVE Recoverable'
  OBVIOUS
<1>0. TypeOK /\ Registering /\ job \in Jobs
  BY DEF Shape, Registering
<1>n. NoJob.eps = <<>> /\ DOMAIN NoJob.eps = {}
  BY NoJobShape
<1>i. pc = "idle" => DOMAIN job.eps = {}
  BY <1>0, <1>n DEF Registering, Working
<1> USE DEF flash, history
<1>1. CASE UNCHANGED vars
  BY <1>1 DEF vars, Recoverable, OnFlash, ComesBack, Resumed, Working
<1>2. CASE Boot
  <2>1. m_devices = <<>> /\ job' = NoJob
    BY <1>0, <1>2 DEF Boot, Registering, Working
  <2> QED
    BY <1>2, <1>n, <2>1 DEF Boot, Recoverable, OnFlash, Resumed, Working
<1>3. ASSUME NEW i \in Ids, Restore(i) PROVE Recoverable'
  <2>1. /\ job'.id = i /\ job'.eps = <<>> /\ boot' = boot \ {i} /\ i \in boot /\ pc = "idle"
        /\ UNCHANGED <<store, file, nextEp, bridged, live, m_devices, seen, safe>>
    BY <1>3 DEF Restore, Begin
  <2>2. ASSUME NEW r \in Indexes, seen[i][r] # None, seen[i][r] \in live PROVE FALSE
    <3>1. owner[seen[i][r]] = <<i, r>>
      BY <2>2 DEF Owned, Owns
    <3>2. PICK n \in DOMAIN m_devices : \E q \in Indexes : owner[seen[i][r]] = <<m_devices[n].id, q>>
      BY <1>i, <2>1, <2>2, LiveIsOwned
    <3> QED
      BY <2>1, <3>1, <3>2 DEF Recoverable
  <2>3. \A r \in Indexes : seen'[job'.id][r] # None => ComesBack(r)'
    BY <2>1, <2>2 DEF ComesBack
  <2>4. \A k \in safe', r \in Indexes : OnFlash(k, r)' <=> OnFlash(k, r)
    BY <2>1 DEF OnFlash, Resumed
  <2> QED
    BY <2>1, <2>3, <2>4 DEF Recoverable
<1>4. ASSUME NEW i \in Ids, NEW d \in Document \cup {Broken}, Ready, Save(i, d), Begin(i, d),
             UNCHANGED <<live, m_devices, boot>>, safe' \subseteq safe,
             \A k \in safe' : seen'[k] = seen[k],
             i \in safe' => \A r \in Indexes : seen'[i][r] = None
      PROVE  Recoverable'
  <2>1. /\ job'.id = i /\ job'.eps = <<>>
    BY <1>4 DEF Begin
  <2>2. /\ file' = store' /\ \A k \in safe \ {i} : file'[k] = file[k]
        /\ UNCHANGED <<nextEp, bridged>>
    BY <1>4, SaveKeepsOthers
  <2>3. ASSUME NEW k \in safe', file'[k] # Vacant, NEW r \in Indexes, seen'[k][r] # None
        PROVE  OnFlash(k, r)'
    <3>1. k # i /\ file'[k] = file[k] /\ seen'[k] = seen[k] /\ k \in safe
      BY <1>4, <2>2, <2>3
    <3>2. OnFlash(k, r)
      BY <2>3, <3>1 DEF Recoverable
    <3> QED
      BY <2>2, <3>1, <3>2 DEF OnFlash, Resumed
  <2> QED
    BY <1>4, <2>1, <2>2, <2>3 DEF Recoverable
<1>5. ASSUME NEW i \in Ids, NEW d \in Inputs, AddDevice(i, d) PROVE Recoverable'
  <2>1. d \in Document
    BY InputsAreDocuments
  <2>2. ASSUME NEW r \in Indexes, seen[i][r] # None PROVE FALSE
    <3>1. seen[i][r] \in Eps /\ owner[seen[i][r]] = <<i, r>> /\ DOMAIN owner = Eps
      BY <1>0, <2>2 DEF TypeOK, Owned, Owns
    <3> QED
      BY <1>5, <3>1 DEF AddDevice, Fresh, Range
  <2> QED
    BY <1>4, <1>5, <2>1, <2>2 DEF AddDevice
<1>6. ASSUME NEW i \in Ids, NEW d \in Inputs \cup ({store[i]} \ {Broken}), UpdateDevice(i, d) PROVE Recoverable'
  <2>1. d \in Document
    <3>1. store[i] # Vacant /\ store[i] \in Document \cup {Broken, Vacant}
      BY <1>0, <1>6 DEF UpdateDevice, Stored, TypeOK
    <3> QED
      BY <3>1, InputsAreDocuments
  <2>2. safe' = safe \ {i} /\ \A k \in safe' : seen'[k] = seen[k]
    BY <1>0, <1>6 DEF UpdateDevice, TypeOK
  <2> QED
    BY <1>4, <1>6, <2>1, <2>2 DEF UpdateDevice
<1>7. ASSUME NEW i \in Ids, RemoveDevice(i) PROVE Recoverable'
  <2>1. /\ file' = store' /\ file'[i] = Vacant
        /\ \A k \in safe \ {i} : file'[k] = file[k]
        /\ UNCHANGED <<nextEp, bridged, live, m_devices, pc, boot, job, seen, safe>>
    BY <1>7, SaveKeepsOthers DEF RemoveDevice
  <2>2. pc = "idle" /\ DOMAIN job.eps = {}
    BY <1>7, <1>i DEF RemoveDevice, Ready
  <2>3. \A k \in safe \ {i}, r \in Indexes : OnFlash(k, r)' <=> OnFlash(k, r)
    BY <2>1 DEF OnFlash, Resumed
  <2> QED
    BY <2>1, <2>2, <2>3 DEF Recoverable, Working
<1>8. CASE CreateRoot
  <2>1. Len(StoredIds(job.doc)) >= 1 /\ Role = 1 /\ Working /\ Working'
    BY <1>0, <1>8, Structures DEF CreateRoot, Registering, Jobs, Role, Indexes, Working
  <2> QED
    BY <1>8, <2>1, TakeKeepsRecoverable DEF CreateRoot
<1>9. CASE CreatePart
  <2>1. Role <= Len(StoredIds(job.doc)) /\ Working /\ Working'
    BY <1>0, <1>9, Structures DEF CreatePart, PartsLeft, Registering, Jobs, Role, Indexes, Working
  <2> QED
    BY <1>9, <2>1, TakeKeepsRecoverable DEF CreatePart
<1>10. CASE RootFails
  <2>1. \A k \in safe', r \in Indexes : OnFlash(k, r)' <=> OnFlash(k, r)
    BY <1>10 DEF RootFails, OnFlash, Resumed
  <2> QED
    BY <1>10, <1>n, <2>1 DEF RootFails, Recoverable, Working
<1>11. CASE PartFails
  <2>1. /\ job' = [job EXCEPT !.eps = Append(@, None)] /\ safe' = safe \ {job.id} /\ pc = "parts"
        /\ UNCHANGED <<store, file, nextEp, bridged, live, m_devices, pc, boot, seen>>
    BY <1>11 DEF PartFails
  <2>2. /\ job'.eps = Append(job.eps, None) /\ job'.id = job.id /\ job'.doc = job.doc
        /\ job'.fresh = job.fresh /\ job.eps \in Seq(MaybeEp)
    BY <1>0, <2>1 DEF Jobs
  <2>3. \A r \in DOMAIN job'.eps : job'.eps[r] = None \/ (r \in DOMAIN job.eps /\ job'.eps[r] = job.eps[r])
    BY <2>2
  <2>4. \A r \in DOMAIN job'.eps : job'.eps[r] # None =>
          /\ Resumed(job.eps[r], r)'
          /\ r \in job'.fresh \/ job'.eps[r] = StoredIds(job'.doc)[r]
    BY <2>1, <2>2, <2>3 DEF Recoverable, Resumed
  <2>5. \A k \in safe', r \in Indexes : OnFlash(k, r)' <=> OnFlash(k, r)
    BY <2>1 DEF OnFlash, Resumed
  <2> QED
    BY <2>1, <2>2, <2>4, <2>5 DEF Recoverable
<1>12. CASE Enable
  BY <1>12 DEF Enable, Recoverable, OnFlash, ComesBack, Resumed, Working
<1>13. CASE Complete
  <2>1. /\ m_devices' = Append(m_devices, [id |-> job.id, eps |-> job.eps])
        /\ job' = NoJob /\ pc = "save" /\ pc' = "idle" /\ job.id \in Ids \ boot
        /\ job.doc = store[job.id] /\ job.doc = file[job.id] /\ job.doc # Vacant
        /\ UNCHANGED <<nextEp, bridged, live, boot>>
    BY <1>0, <1>13, Structures DEF Complete, Published, Listed, Registering, Working, Jobs
  <2>2. \A n \in DOMAIN m_devices' : m_devices'[n].id \notin boot'
    <3>1. \A n \in DOMAIN m_devices' : m_devices'[n] = [id |-> job.id, eps |-> job.eps] \/
            (n \in DOMAIN m_devices /\ m_devices'[n] = m_devices[n])
      BY <1>0, <2>1 DEF TypeOK
    <3> QED
      BY <2>1, <3>1 DEF Recoverable
  <2>3. /\ \A k \in Ids \ {job.id} : seen'[k] = seen[k]
        /\ \A r \in Indexes : seen'[job.id][r] = IF r \in DOMAIN job.eps THEN job.eps[r] ELSE None
    BY <1>0, <1>13, <2>1 DEF Complete, Published, TypeOK
  <2>4. safe' \subseteq safe \cup {job.id} /\ safe \subseteq Ids
    BY <1>0, <1>13 DEF Complete, NothingToSave, SaveIds, TypeOK
  <2>5. \A k \in safe' \ {job.id} : store'[k] = file'[k] /\ file'[k] = file[k]
    <3>1. \A k \in safe : store[k] = file[k]
      BY <2>1 DEF Recoverable
    <3>2. \A k \in Ids \ {job.id} : store'[k] = store[k] /\ file'[k] \in {file[k], store[k]}
      BY <1>0, <1>13, <2>1 DEF Complete, NothingToSave, SaveIds, TypeOK
    <3> QED
      BY <2>4, <3>1, <3>2
  <2>6. ASSUME NEW k \in safe' \ {job.id}, file'[k] # Vacant, NEW r \in Indexes, seen'[k][r] # None
        PROVE  OnFlash(k, r)'
    <3>1. OnFlash(k, r) /\ file'[k] = file[k] /\ seen'[k] = seen[k]
      BY <2>3, <2>4, <2>5, <2>6 DEF Recoverable
    <3> QED
      BY <2>1, <3>1 DEF OnFlash, Resumed
  <2>7. ASSUME job.id \in safe'
        PROVE  /\ store'[job.id] = file'[job.id]
               /\ \A r \in DOMAIN job.eps : job.eps[r] # None =>
                    r \in DOMAIN StoredIds(file'[job.id]) /\ StoredIds(file'[job.id])[r] = job.eps[r]
    <3>1. /\ DOMAIN job.eps = DOMAIN StoredIds(job.doc)
          /\ \A r \in DOMAIN job.eps : job.eps[r] # None =>
               r \in job.fresh \/ job.eps[r] = StoredIds(job.doc)[r]
      <4>1. job.eps \in Seq(MaybeEp) /\ Len(job.eps) = Len(StoredIds(job.doc))
        BY <1>0, <2>1 DEF Registering, Jobs
      <4>2. DOMAIN StoredIds(job.doc) = 1..Len(StoredIds(job.doc))
        BY <1>0, Structures DEF Jobs
      <4> QED
        BY <4>1, <4>2 DEF Recoverable
    <3>2. CASE NothingToSave
      <4>1. job.fresh = {} /\ store' = store /\ file' = file
        BY <2>7, <3>2 DEF NothingToSave, AnyNew
      <4> QED
        BY <2>1, <3>1, <4>1
    <3>3. CASE SaveIds
      <4>1. /\ store' = [store EXCEPT ![job.id] = WithIds(job.doc)] /\ file' = store'
            /\ ~job.doc.long /\ job.doc # Broken
        BY <2>7, <3>3 DEF SaveIds
      <4>2. store'[job.id] = WithIds(job.doc) /\ file'[job.id] = WithIds(job.doc)
        BY <1>0, <2>1, <4>1 DEF TypeOK
      <4>3. /\ DOMAIN StoredIds(WithIds(job.doc)) = DOMAIN StoredIds(job.doc)
            /\ \A r \in DOMAIN StoredIds(job.doc) :
                 StoredIds(WithIds(job.doc))[r] =
                   IF r \in job.fresh THEN job.eps[r] ELSE StoredIds(job.doc)[r]
        BY <2>1, <4>1, WrittenIds
      <4> QED
        BY <3>1, <4>2, <4>3
    <3> QED
      BY <1>13, <3>2, <3>3 DEF Complete
  <2> PICK i \in Ids : i = job.id
    BY <2>1
  <2>8. ASSUME i \in safe', NEW r \in Indexes, seen'[i][r] # None
        PROVE  OnFlash(i, r)'
    <3>1. r \in DOMAIN job.eps /\ seen'[i][r] = job.eps[r] /\ job.eps[r] # None
      BY <2>3, <2>8
    <3>2. Resumed(job.eps[r], r)
      BY <3>1 DEF Recoverable
    <3> QED
      BY <2>1, <2>7, <2>8, <3>1, <3>2 DEF OnFlash, Resumed
  <2> QED
    BY <1>n, <2>1, <2>2, <2>5, <2>6, <2>7, <2>8 DEF Recoverable, Working
<1>14. CASE ClearMatter
  <2>1. DOMAIN job.eps = {}
    BY <1>i, <1>14 DEF ClearMatter, Ready
  <2> QED
    BY <1>14, <2>1 DEF ClearMatter, Recoverable
<1>15. CASE ClearStore
  <2>1. \A k \in safe : store'[k] = Vacant /\ file'[k] = Vacant
    BY <1>0, <1>15 DEF ClearStore, TypeOK
  <2>2. DOMAIN job'.eps = {}
    BY <1>0, <1>15, <1>n DEF ClearStore, Registering, Working
  <2> QED
    BY <1>15, <2>1, <2>2 DEF ClearStore, Recoverable, Working
<1>16. CASE Restart
  <2>1. \A k \in safe, r \in Indexes : OnFlash(k, r)' <=> OnFlash(k, r)
    BY <1>16 DEF Restart, OnFlash, Resumed
  <2> QED
    BY <1>16, <1>n, <2>1 DEF Restart, Recoverable, Working
<1> QED
  BY <1>1, <1>2, <1>3, <1>5, <1>6, <1>7, <1>8, <1>9, <1>10, <1>11, <1>12, <1>13,
     <1>14, <1>15, <1>16 DEF Next

-----------------------------------------------------------------------------
(* The theorems.                                                           *)

LEMMA Invariance == Spec => []IInv
<1>1. Init => IInv
  BY InitShape, InitOwned, InitAccounted, InitRecoverable DEF IInv
<1>2. IInv /\ [Next]_vars => IInv'
  BY StepShape, StepOwned, StepAccounted, StepRecoverable DEF IInv
<1> QED
  BY <1>1, <1>2, PTL DEF Spec

\* Every variable keeps its type: ids, structures and lists of endpoints.
THEOREM TypeCorrect == Spec => []TypeOK
<1>1. IInv => TypeOK
  BY DEF IInv, Shape
<1> QED
  BY <1>1, Invariance, PTL

\* on_readings only ever routes a value to a live endpoint that was created
\* for the part of the device that the value was mapped to.
THEOREM ReadingsAreRouted == Spec => []ReadingsReachTheirEndpoint
<1>1. ASSUME IInv, NEW i \in Ids, NEW x \in Reached(i) PROVE x[1] \in live /\ owner[x[1]] = <<i, x[2]>>
  <2>1. With(i) # {}
    BY <1>1 DEF Reached
  <2>2. First(i) \in With(i)
    <3>1. \E n \in With(i) : \A k \in With(i) : n <= k
      <4>1. With(i) \subseteq Nat
        BY <1>1, Domains DEF IInv, With
      <4> QED
        BY <2>1, <4>1, Least
    <3> QED
      BY <3>1 DEF First
  <2>3. PICK n \in DOMAIN m_devices : n = First(i) /\ m_devices[n].id = i
    BY <2>2 DEF With
  <2>4. PICK r \in DOMAIN m_devices[n].eps : m_devices[n].eps[r] # None /\ x = <<m_devices[n].eps[r], r>>
    BY <1>1, <2>1, <2>3 DEF Reached
  <2>5. Belongs(m_devices[n].eps[r], i, r)
    BY <1>1, <2>3 DEF IInv, Owned
  <2> QED
    BY <2>4, <2>5 DEF Belongs
<1>2. IInv => ReadingsReachTheirEndpoint
  BY <1>1 DEF ReadingsReachTheirEndpoint
<1> QED
  BY <1>2, Invariance, PTL

\* At any moment the live endpoints are those of the listed devices and of
\* the registration under way, and none serves two devices or two parts.
THEOREM NoEndpointAstray == Spec => []EndpointsAreListed
<1>1. ASSUME IInv PROVE live = ListedEndpoints \cup (Range(job.eps) \ {None})
  <2>1. ASSUME NEW e \in live PROVE e \in ListedEndpoints \cup (Range(job.eps) \ {None})
    <3>1. CASE InJob(e)
      BY <3>1 DEF InJob, Range
    <3>2. ASSUME NEW n \in DOMAIN m_devices, At(e, n) PROVE e \in ListedEndpoints
      <4>1. e \in Endpoints(m_devices[n])
        BY <3>2 DEF At, Endpoints, Range
      <4> QED
        BY <4>1 DEF ListedEndpoints, Range
    <3> QED
      BY <1>1, <3>1, <3>2 DEF IInv, Accounted
  <2>2. ASSUME NEW e \in ListedEndpoints PROVE e \in live
    <3>1. PICK n \in DOMAIN m_devices : e \in Endpoints(m_devices[n])
      BY DEF ListedEndpoints, Range
    <3> QED
      BY <1>1, <3>1 DEF Endpoints, Range, IInv, Owned, Belongs
  <2>3. ASSUME NEW e \in Range(job.eps), e # None PROVE e \in live
    BY <1>1, <2>3 DEF IInv, Owned, Belongs, Range
  <2> QED
    BY <2>1, <2>2, <2>3
<1>4. ASSUME IInv, NEW e \in ListedEndpoints, e \in Range(job.eps) PROVE FALSE
  <2>1. PICK n \in DOMAIN m_devices : e \in Endpoints(m_devices[n])
    BY DEF ListedEndpoints, Range
  <2>2. e # None /\ At(e, n)
    BY <2>1 DEF Endpoints, At, Range
  <2>3. e \in Eps
    BY <1>4, <2>2, Domains DEF IInv, At, MaybeEp
  <2>4. InJob(e)
    BY <1>4, <2>2 DEF InJob, Range
  <2> QED
    BY <1>4, <2>2, <2>3, <2>4 DEF IInv, Accounted
<1>2. ASSUME IInv, NEW m \in DOMAIN m_devices, NEW n \in DOMAIN m_devices,
             NEW r \in DOMAIN m_devices[m].eps, NEW s \in DOMAIN m_devices[n].eps,
             m_devices[m].eps[r] = m_devices[n].eps[s], m_devices[m].eps[r] # None
      PROVE  m = n /\ r = s
  <2> DEFINE e == m_devices[m].eps[r]
  <2>1. e \in Eps /\ At(e, m) /\ At(e, n)
    BY <1>2, Domains DEF IInv, At, MaybeEp
  <2>2. m = n
    BY <1>2, <2>1 DEF IInv, Accounted
  <2>3. owner[e] = <<m_devices[m].id, r>> /\ owner[e] = <<m_devices[n].id, s>>
    BY <1>2 DEF IInv, Owned, Belongs
  <2> QED
    BY <2>2, <2>3
<1>3. IInv => EndpointsAreListed
  BY <1>1, <1>2, <1>4 DEF EndpointsAreListed
<1> QED
  BY <1>3, Invariance, PTL

\* A device whose ids were saved gets the endpoints back that it had, after
\* any number of restarts, also restarts in the middle of a registration.
THEOREM EndpointsComeBack == Spec => SavedIdsComeBack
<1>1. ASSUME IInv, IInv', [Next]_vars, Completing, job.id \in safe, NEW r \in Indexes PROVE Kept(r)
  <2>1. Complete
    BY <1>1 DEF Completing, Next, vars, Boot, Restore, AddDevice, UpdateDevice, RemoveDevice, Begin,
                Ready, CreateRoot, RootFails, CreatePart, PartFails, Enable, ClearMatter, ClearStore, Restart
  <2>2. job.id \in Ids /\ Working
    BY <1>1 DEF IInv, Shape, Registering, Completing, Working
  <2>3. seen'[job.id][r] = IF r \in DOMAIN job.eps THEN job.eps[r] ELSE None
    BY <1>1, <2>1, <2>2 DEF Complete, Published, IInv, Shape, TypeOK
  <2>4. ASSUME seen[job.id][r] # None PROVE r \in DOMAIN job.eps /\ job.eps[r] = seen[job.id][r]
    <3>1. ComesBack(r) /\ OnFlash(job.id, r) /\ job.doc = file[job.id]
      BY <1>1, <2>2, <2>4, Structures DEF IInv, Recoverable, Shape, Registering, Jobs
    <3>2. r \in DOMAIN StoredIds(job.doc)
      BY <3>1 DEF OnFlash
    <3>3. DOMAIN job.eps = DOMAIN StoredIds(job.doc)
      BY <1>1, Structures DEF IInv, Shape, Registering, Jobs, Completing
    <3> QED
      BY <3>1, <3>2, <3>3 DEF ComesBack
  <2> QED
    BY <2>3, <2>4 DEF Kept
<1>2. IInv /\ IInv' /\ [Next]_vars =>
        [Completing /\ job.id \in safe => \A r \in Indexes : Kept(r)]_vars
  BY <1>1
<1> QED
  BY <1>2, Invariance, PTL DEF Spec, SavedIdsComeBack
=============================================================================
