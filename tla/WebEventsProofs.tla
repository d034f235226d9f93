-------------------------- MODULE WebEventsProofs --------------------------
(***************************************************************************)
(* Proofs about WebEvents, for any number of clients, descriptors and      *)
(* slots and windows of any length.  Three invariants do the work:         *)
(*                                                                         *)
(*   SlotInv    a slot that the notify has still to visit holds what the   *)
(*              copy says, and a slot whose descriptor has been without    *)
(*              WebSocket since the notify began has still to be visited;  *)
(*   ClientInv  a client that holds a slot has one that the notify is not  *)
(*              about to clear, and one that has still to be told is       *)
(*              ahead of it in the copy;                                   *)
(*   WindowInv  an opening time that was ever read is not later than the   *)
(*              window that is open, but for the delay with which it was   *)
(*              read; and one that a GET may load is not later than what   *)
(*              that GET has noted, or the window was opened meanwhile.    *)
(***************************************************************************)
EXTENDS WebEvents, WellFoundedInduction, TLAPS

SlotInv ==
  /\ \A i \in Slots : fds[i] # None => s_ws_fds[i] = fds[i]
  /\ \A i \in Slots : s_ws_fds[i] \in quiet => fds[i] = s_ws_fds[i]
  /\ \A f \in quiet : ~IsWebSocket(f)

\* Slot k of descriptor f is not the one that is cleared next.
Spared(k, f) == dead => \A i \in Slots : At(i) /\ fds[i] = f => ~IsFirst(k, f)

ClientInv ==
  /\ \A c \in held : \E f \in Fds, k \in Slots :
       sess[f] = c /\ s_ws_fds[k] = f /\ Spared(k, f)
  /\ \A c \in due : \E i \in Slots :
       fds[i] # None /\ sess[fds[i]] = c /\ (dead => ~At(i))

\* The GET being answered has found the window open.
Counting == reading = TRUE

Stamped(end) == \A t \in stamps : t + Window <= end

WindowInv ==
  /\ \A t \in stamps : t <= now
  /\ lambda # "opened" /\ closes # None => Stamped(closes + lag)
  /\ reading = None => clock = None
  /\ reading # None => since <= now
  /\ Counting /\ lambda # "no" => most >= Window
  /\ Counting => most >= Window \/ Stamped(since + most + lag)
  /\ Counting /\ clock # None => since <= clock /\ clock <= now

slots == <<sess, s_ws_fds, fds, dead, held, due, quiet>>

-----------------------------------------------------------------------------
(* Type correctness.                                                       *)

\* TypeOK in three parts: the window and what is noted of it, the sessions and
\* slots, and the page.
WindowOK ==
  /\ scope \in Scopes /\ now \in Nat
  /\ closes \in Nat \cup {None} /\ (lambda # "no" => closes # None)
  /\ lambda \in {"no", "opened", "half"}
  /\ stamp \in Nat /\ s_window_open_time_us \in Nat
  /\ opening \in BOOLEAN /\ closed \in Nat /\ opens \in 0..MaxOpens
  /\ most \in Nat /\ since \in Nat /\ stamps \subseteq Nat /\ lag \in Int

TableOK ==
  /\ sess \in [Fds -> Clients \cup {None, Http, Ghost}]
  /\ s_ws_fds \in [Slots -> Fds \cup {None}]
  /\ fds \in [Slots -> Fds \cup {None}]
  /\ dead \in BOOLEAN /\ (dead => ~Told)
  /\ held \subseteq Clients /\ due \subseteq Clients /\ quiet \subseteq Fds

GetOK ==
  /\ reading \in BOOLEAN \cup {None} /\ tested \in BOOLEAN
  /\ half \in Nat \cup {None}
  /\ value \in Nat \cup {None} /\ clock \in Nat \cup {None}

PageOK == asked \in BOOLEAN /\ answers \subseteq BOOLEAN /\ shown \in BOOLEAN /\ sure \in BOOLEAN

LEMMA Parts == TypeOK <=> WindowOK /\ TableOK /\ GetOK /\ PageOK
  BY Zenon DEF TypeOK, WindowOK, TableOK, GetOK, PageOK

LEMMA PartsNext == TypeOK' <=> WindowOK' /\ TableOK' /\ GetOK' /\ PageOK'
  BY Zenon DEF TypeOK, WindowOK, TableOK, GetOK, PageOK

LEMMA Kept ==
  /\ WindowOK /\ UNCHANGED <<window, record>> => WindowOK'
  /\ TableOK /\ UNCHANGED slots => TableOK'
  /\ GetOK /\ UNCHANGED get => GetOK'
  /\ PageOK /\ UNCHANGED <<asked, answers, shown, sure>> => PageOK'
  BY DEF window, time, mark, record, slots, get, WindowOK, TableOK, GetOK, PageOK, Told

LEMMA InitType == Init => TypeOK
<1> SUFFICES ASSUME Init PROVE TypeOK
  OBVIOUS
<1>1. /\ now \in Nat /\ stamp \in Nat /\ s_window_open_time_us \in Nat
      /\ most \in Nat /\ since \in Nat /\ stamps \subseteq Nat /\ lag \in Int
      /\ opens \in 0..MaxOpens /\ closed \in Nat
  BY WebAssumptions DEF Init, WebAssumptions
<1>2. /\ sess \in [Fds -> Clients \cup {None, Http, Ghost}]
      /\ s_ws_fds \in [Slots -> Fds \cup {None}]
      /\ fds \in [Slots -> Fds \cup {None}]
      /\ closes \in Nat \cup {None} /\ reading \in BOOLEAN \cup {None}
      /\ half \in Nat \cup {None} /\ value \in Nat \cup {None} /\ clock \in Nat \cup {None}
      /\ tested \in BOOLEAN /\ scope \in Scopes
  BY DEF Init
<1>3. lambda \in {"no", "opened", "half"} /\ ~(lambda # "no")
  BY DEF Init
<1> QED
  BY <1>1, <1>2, <1>3, Zenon DEF Init, TypeOK

\* The steps of the window and of the page leave the table alone.
WindowStep == Tick \/ LambdaStep \/ OpenElsewhere \/ Close
PageStep == GetWindow \/ GetStep \/ PostOpen \/ Expire \/ \E a \in BOOLEAN : Show(a) \/ Lose(a)
SessionStep ==
  \/ \E f \in Fds : Accept(f) \/ Vanish(f) \/ CloseSession(f)
  \/ \E c \in Clients, f \in Fds : Register(c, f)

LEMMA Steps ==
  ASSUME Next
  PROVE  WindowStep \/ NotifyStep \/ SessionStep \/ PageStep
<1>1. CASE Tick \/ LambdaStep \/ OpenElsewhere \/ Close
  BY <1>1 DEF WindowStep
<1>2. CASE \/ \E f \in Fds : Accept(f) \/ Vanish(f) \/ CloseSession(f)
           \/ \E c \in Clients, f \in Fds : Register(c, f)
  BY <1>2, Zenon DEF SessionStep
<1>3. CASE GetWindow \/ GetStep \/ PostOpen \/ Expire \/ \E a \in BOOLEAN : Show(a) \/ Lose(a)
  BY <1>3, Zenon DEF PageStep
<1> QED
  BY <1>1, <1>2, <1>3, Zenon DEF Next

\* What Euclid's division leaves out.
LEMMA Rounding ==
  ASSUME NEW n \in Nat
  PROVE  n \div Second \in Nat /\ Second * (n \div Second) <= n /\ n < Second * (n \div Second) + Second
  BY WebAssumptions, SMTT(30) DEF WebAssumptions

LEMMA SecondsType == ASSUME NEW n \in Int PROVE Seconds(n) \in Int
<1>1. CASE n >= 0
  BY <1>1, Rounding DEF Seconds
<1>2. CASE ~(n >= 0)
  <2>1. -n \in Nat
    BY <1>2
  <2> QED
    BY <1>2, <2>1, Rounding DEF Seconds
<1> QED
  BY <1>1, <1>2

LEMMA RemainingType ==
  ASSUME GetOK, reading = FALSE \/ (value # None /\ clock # None)
  PROVE  Remaining \in Nat
<1>1. CASE reading = FALSE
  BY <1>1 DEF Remaining
<1>2. CASE value # None /\ clock # None
  <2>1. clock - value \in Int
    BY <1>2 DEF GetOK
  <2> QED
    BY <2>1, SecondsType, WebAssumptions DEF Remaining, WebAssumptions
<1> QED
  BY <1>1, <1>2

LEMMA WindowIsTime == Window \in Nat /\ Window > 0
  BY WebAssumptions DEF Window, WebAssumptions

\* Both halves are natural numbers, and so is what they make.
LEMMA JoinedType ==
  ASSUME NEW u \in Nat, NEW v \in Nat, NEW first
  PROVE  Joined(first, u, v) \in Nat
<1>1. ASSUME NEW x \in Nat, NEW y \in Nat PROVE Mixed(x, y) \in Nat
  <2>1. x \div Word \in Nat /\ y % Word \in Nat
    BY WebAssumptions, SMTT(30) DEF WebAssumptions
  <2>2. \A p \in Nat : Word * p \in Nat
    BY WebAssumptions DEF WebAssumptions
  <2> QED
    BY <2>1, <2>2 DEF Mixed, Whole
<1> QED
  BY <1>1 DEF Joined

LEMMA WindowType == TypeOK /\ WindowStep => TypeOK'
<1> SUFFICES ASSUME WindowOK, TableOK, GetOK, PageOK, WindowStep
             PROVE  WindowOK' /\ TableOK' /\ GetOK' /\ PageOK'
  BY Parts, PartsNext
<1>1. UNCHANGED slots /\ UNCHANGED get /\ UNCHANGED <<asked, answers, shown>>
  BY DEF WindowStep, LambdaStep, Open, StoreHalf, StoreRest, OpenElsewhere, Close, Tick,
         slots, notify, page, history
<1>2. sure' \in BOOLEAN
  <2>1. Open => sure' \in BOOLEAN
    BY Zenon DEF Open, PageOK
  <2>2. StoreHalf \/ StoreRest \/ OpenElsewhere \/ Close \/ Tick => sure' = sure
    BY DEF StoreHalf, StoreRest, OpenElsewhere, Close, Tick, history
  <2> QED
    BY <2>1, <2>2 DEF WindowStep, LambdaStep, PageOK
<1>3. WindowOK'
  <2> USE WebAssumptions, WindowIsTime
      DEF WebAssumptions, WindowOK, window, time, mark, record, history
  <2>1. CASE Tick
    BY <2>1 DEF Tick
  <2>2. CASE Open
    <3>1. /\ closes' \in Nat \cup {None} /\ (lambda' # "no" => closes' # None)
          /\ lambda' \in {"no", "opened", "half"}
      BY <2>2 DEF Open, Opens, Idle
    <3>2. most' \in Nat /\ lag' \in Int
      BY <2>2 DEF Open, Opens
    <3> QED
      BY <2>2, <3>1, <3>2 DEF Open
  <2>3. CASE StoreHalf
    <3>1. s_window_open_time_us' \in Nat
      BY <2>3, JoinedType DEF StoreHalf
    <3>2. lag' \in Int
      BY <2>3 DEF StoreHalf
    <3> QED
      BY <2>3, <3>1, <3>2 DEF StoreHalf
  <2>4. CASE StoreRest
    BY <2>4 DEF StoreRest
  <2>5. CASE OpenElsewhere
    BY <2>5 DEF OpenElsewhere, Opens, Idle
  <2>6. CASE Close
    BY <2>6 DEF Close, Idle
  <2> QED
    BY <2>1, <2>2, <2>3, <2>4, <2>5, <2>6 DEF WindowStep, LambdaStep
<1> QED
  BY <1>1, <1>2, <1>3, Kept DEF PageOK

LEMMA NotifyType == TypeOK /\ NotifyStep => TypeOK'
<1> SUFFICES ASSUME WindowOK, TableOK, GetOK, PageOK, NotifyStep
             PROVE  WindowOK' /\ TableOK' /\ GetOK' /\ PageOK'
  BY Parts, PartsNext
<1>1. UNCHANGED get
  BY DEF NotifyStep, NotifyStart, Send, Skip, SendFails, ClearSlot, page
<1>2. WindowOK'
  <2>1. NotifyStart => WindowOK'
    BY DEF NotifyStart, WindowOK, time, mark, record
  <2>2. ASSUME NEW i \in Slots, Send(i) \/ Skip(i) \/ SendFails(i) \/ ClearSlot(i)
        PROVE  UNCHANGED <<window, record>>
    BY <2>2 DEF Send, Skip, SendFails, ClearSlot, history
  <2> QED
    BY <2>1, <2>2, Kept DEF NotifyStep
<1>3. PageOK'
  <2>1. NotifyStart => UNCHANGED <<asked, answers, shown, sure>>
    BY DEF NotifyStart, page
  <2>2. ASSUME NEW i \in Slots, Send(i) \/ Skip(i) \/ SendFails(i) \/ ClearSlot(i)
        PROVE  asked' \in BOOLEAN /\ sure' \in BOOLEAN /\ UNCHANGED <<answers, shown>>
    BY <2>2, Zenon DEF Send, Ask, Skip, SendFails, ClearSlot, page, history, PageOK
  <2> QED
    BY <2>1, <2>2, Kept DEF NotifyStep, PageOK
<1>4. TableOK'
  <2> USE WebAssumptions DEF WebAssumptions, TableOK, notify, history, Told
  <2>1. CASE NotifyStart
    BY <2>1 DEF NotifyStart, Registered, Idle
  <2>2. ASSUME NEW i \in Slots, Send(i) PROVE TableOK'
    BY <2>2 DEF Send, Done, At
  <2>3. ASSUME NEW i \in Slots, Skip(i) PROVE TableOK'
    BY <2>3 DEF Skip, At
  <2>4. ASSUME NEW i \in Slots, SendFails(i) PROVE TableOK'
    BY <2>4 DEF SendFails, At
  <2>5. ASSUME NEW i \in Slots, ClearSlot(i) PROVE TableOK'
    BY <2>5 DEF ClearSlot, Done, At
  <2> QED
    BY <2>1, <2>2, <2>3, <2>4, <2>5 DEF NotifyStep
<1> QED
  BY <1>1, <1>2, <1>3, <1>4, Kept

LEMMA SessionType == TypeOK /\ SessionStep => TypeOK'
<1> SUFFICES ASSUME WindowOK, TableOK, GetOK, PageOK, SessionStep
             PROVE  WindowOK' /\ TableOK' /\ GetOK' /\ PageOK'
  BY Parts, PartsNext
<1>1. UNCHANGED get /\ UNCHANGED <<window, record>> /\ UNCHANGED <<asked, answers, shown>>
  BY DEF SessionStep, Accept, Vanish, CloseSession, Register, page, history
<1>2. sure' \in BOOLEAN
  BY Zenon DEF SessionStep, Accept, Vanish, CloseSession, Register, history, PageOK
<1>3. TableOK'
  <2> USE WebAssumptions DEF WebAssumptions, TableOK, notify, history, Told
  <2>1. ASSUME NEW f \in Fds, Accept(f) PROVE TableOK'
    BY <2>1 DEF Accept
  <2>2. ASSUME NEW f \in Fds, Vanish(f) PROVE TableOK'
    BY <2>2 DEF Vanish
  <2>3. ASSUME NEW f \in Fds, CloseSession(f) PROVE TableOK'
    BY <2>3 DEF CloseSession
  <2>4. ASSUME NEW c \in Clients, NEW f \in Fds, Register(c, f) PROVE TableOK'
    BY <2>4 DEF Register
  <2> QED
    BY <2>1, <2>2, <2>3, <2>4 DEF SessionStep
<1> QED
  BY <1>1, <1>2, <1>3, Kept DEF PageOK

LEMMA PageType == TypeOK /\ PageStep => TypeOK'
<1> SUFFICES ASSUME WindowOK, TableOK, GetOK, PageOK, PageStep
             PROVE  WindowOK' /\ TableOK' /\ GetOK' /\ PageOK'
  BY Parts, PartsNext
<1>1. UNCHANGED slots
  BY DEF PageStep, GetStep, GetWindow, LoadHalf, LoadRest, ReadClock, Answer, PostOpen,
         Expire, Show, Lose, slots, notify, history
<1>2. WindowOK'
  <2>1. ASSUME GetWindow PROVE WindowOK'
    <3>1. Left \in Nat
      BY DEF Left, WindowOK
    <3> QED
      BY <2>1, <3>1 DEF GetWindow, WindowOK, window, time, mark
  <2>2. LoadHalf \/ LoadRest \/ ReadClock \/ Expire \/ (\E a \in BOOLEAN : Show(a) \/ Lose(a))
          => UNCHANGED <<window, record>>
    BY DEF LoadHalf, LoadRest, ReadClock, Expire, Show, Lose, history
  <2>3. Answer => WindowOK'
    BY DEF Answer, WindowOK, window, time, mark
  <2>4. PostOpen => WindowOK'
    BY WebAssumptions DEF PostOpen, WindowOK, time, mark, record, WebAssumptions
  <2> QED
    BY <2>1, <2>2, <2>3, <2>4, Kept DEF PageStep, GetStep
<1>3. GetOK'
  <2>1. GetWindow => GetOK'
    BY DEF GetWindow, GetOK
  <2>2. LoadHalf => GetOK'
    BY DEF LoadHalf, GetOK, WindowOK
  <2>3. ASSUME LoadRest PROVE GetOK'
    <3>1. Loaded \in Nat
      BY <2>3, JoinedType DEF LoadRest, Loaded, GetOK, WindowOK
    <3>2. reading' \in BOOLEAN \cup {None} /\ tested' \in BOOLEAN
      <4>1. CASE tested
        BY <2>3, <4>1 DEF LoadRest, GetOK
      <4>2. CASE ~tested
        <5>1. (Loaded > 0) \in BOOLEAN
          BY <3>1
        <5> QED
          BY <2>3, <4>2, <5>1, Zenon DEF LoadRest
      <4> QED
        BY <4>1, <4>2
    <3>3. value' \in Nat \cup {None}
      BY <2>3, <3>1 DEF LoadRest, GetOK
    <3> QED
      BY <2>3, <3>2, <3>3 DEF LoadRest, GetOK
  <2>4. ReadClock => GetOK'
    BY DEF ReadClock, GetOK, WindowOK
  <2>5. Answer => GetOK'
    BY DEF Answer, GetOK
  <2>6. PostOpen \/ Expire \/ (\E a \in BOOLEAN : Show(a) \/ Lose(a)) => UNCHANGED get
    BY DEF PostOpen, Expire, Show, Lose
  <2> QED
    BY <2>1, <2>2, <2>3, <2>4, <2>5, <2>6, Kept DEF PageStep, GetStep
<1>4. PageOK'
  <2>1. LoadHalf \/ LoadRest \/ ReadClock => UNCHANGED <<asked, answers, shown, sure>>
    BY DEF LoadHalf, LoadRest, ReadClock, history
  <2>2. ASSUME Answer PROVE PageOK'
    <3>1. (Remaining > 0) \in BOOLEAN
      BY <2>2, RemainingType DEF Answer
    <3>2. answers' \subseteq BOOLEAN
      BY <2>2, <3>1, Zenon DEF Answer, PageOK
    <3>3. sure' \in BOOLEAN
      BY <2>2, Zenon DEF Answer
    <3> QED
      BY <2>2, <3>2, <3>3 DEF Answer, PageOK
  <2>3. ASSUME PostOpen PROVE PageOK'
    <3>1. answers' \subseteq BOOLEAN /\ sure' \in BOOLEAN
      BY <2>3, Zenon DEF PostOpen, PageOK
    <3> QED
      BY <2>3, <3>1 DEF PostOpen, PageOK
  <2>4. GetWindow \/ Expire => PageOK'
    BY DEF GetWindow, Expire, history, PageOK
  <2>5. ASSUME NEW a \in BOOLEAN, Show(a) \/ Lose(a) PROVE PageOK'
    BY <2>5 DEF Show, Lose, history, PageOK
  <2> QED
    BY <2>1, <2>2, <2>3, <2>4, <2>5, Kept DEF PageStep, GetStep
<1> QED
  BY <1>1, <1>2, <1>3, <1>4, Kept

LEMMA NextType == TypeOK /\ [Next]_vars => TypeOK'
<1>1. TypeOK /\ UNCHANGED vars => TypeOK'
  BY Parts, PartsNext, Kept DEF vars, slots, notify, page, history
<1> QED
  BY <1>1, Steps, WindowType, NotifyType, SessionType, PageType

\* The slots, their copy and what the page has asked for stay well formed.
THEOREM TypeCorrect == Spec => []TypeOK
  BY InitType, NextType, PTL DEF Spec

-----------------------------------------------------------------------------
(* The copy of the slots, and the slots.                                   *)

LEMMA Frame == WindowStep \/ PageStep \/ UNCHANGED vars => UNCHANGED slots
<1> USE DEF slots, window, notify, page, history
<1>1. WindowStep => UNCHANGED slots
  BY DEF WindowStep, LambdaStep, Open, StoreHalf, StoreRest, OpenElsewhere, Close, Tick
<1>2. PageStep => UNCHANGED slots
  BY DEF PageStep, GetWindow, GetStep, LoadHalf, LoadRest, ReadClock, Answer, PostOpen,
         Expire, Show, Lose
<1>3. UNCHANGED vars => UNCHANGED slots
  BY DEF vars
<1> QED
  BY <1>1, <1>2, <1>3

LEMMA NextAt ==
  ASSUME NEW i \in Slots, NEW j \in Slots, At(i), fds[j] # None, i # j
  PROVE  i < j /\ ~At(j)
  BY WebAssumptions DEF WebAssumptions, Slots, At

LEMMA SlotNotify == TableOK /\ SlotInv /\ NotifyStep => SlotInv'
<1> SUFFICES ASSUME TableOK, SlotInv, NotifyStep PROVE SlotInv'
  OBVIOUS
<1> USE WebAssumptions DEF WebAssumptions, TableOK, SlotInv, window, notify, page, history, IsWebSocket, Told
<1>1. CASE NotifyStart
  BY <1>1 DEF NotifyStart
<1>2. ASSUME NEW i \in Slots, Send(i) PROVE SlotInv'
  <2>1. fds[i] \notin quiet /\ s_ws_fds[i] = fds[i]
    BY <1>2 DEF Send, At
  <2> QED
    BY <1>2, <2>1 DEF Send, Done
<1>3. ASSUME NEW i \in Slots, Skip(i) PROVE SlotInv'
  BY <1>3 DEF Skip
<1>4. ASSUME NEW i \in Slots, SendFails(i) PROVE SlotInv'
  BY <1>4 DEF SendFails
<1>5. ASSUME NEW i \in Slots, ClearSlot(i) PROVE SlotInv'
  <2>1. At(i) /\ s_ws_fds[i] = fds[i] /\ fds[i] # None
    BY <1>5 DEF ClearSlot, At
  <2>2. ASSUME NEW k \in Slots, IsFirst(k, fds[i]) PROVE k <= i
    BY <2>1, <2>2 DEF IsFirst, Slots
  <2>3. ASSUME NEW k \in Slots, fds'[k] # None PROVE s_ws_fds'[k] = fds'[k]
    <3>1. k # i /\ fds[k] # None /\ fds'[k] = fds[k]
      BY <1>5, <2>3 DEF ClearSlot, Done
    <3>2. ~IsFirst(k, fds[i])
      BY <2>1, <2>2, <3>1, NextAt DEF Slots
    <3> QED
      BY <1>5, <3>1, <3>2 DEF ClearSlot
  <2>4. ASSUME NEW k \in Slots, s_ws_fds'[k] \in quiet' PROVE fds'[k] = s_ws_fds'[k]
    <3>1. quiet' = quiet /\ s_ws_fds'[k] = s_ws_fds[k] /\ ~IsFirst(k, fds[i])
      BY <1>5, <2>4 DEF ClearSlot
    <3>2. fds[k] = s_ws_fds[k]
      BY <2>4, <3>1
    <3>3. CASE k = i
      <4>1. PICK j \in 1..(i - 1) : s_ws_fds[j] = fds[i]
        BY <2>1, <3>1, <3>3 DEF IsFirst
      <4>2. j \in Slots /\ fds[j] = fds[i]
        BY <2>4, <3>1, <3>2, <3>3, <4>1 DEF Slots
      <4> QED
        BY <2>1, <4>1, <4>2 DEF At
    <3>4. CASE k # i
      BY <1>5, <3>1, <3>2, <3>4 DEF ClearSlot, Done
    <3> QED
      BY <3>3, <3>4
  <2>5. \A f \in quiet' : ~IsWebSocket(f)'
    BY <1>5 DEF ClearSlot
  <2> QED
    BY <2>3, <2>4, <2>5
<1> QED
  BY <1>1, <1>2, <1>3, <1>4, <1>5 DEF NotifyStep

LEMMA SlotSession == TableOK /\ SlotInv /\ SessionStep => SlotInv'
<1> SUFFICES ASSUME TableOK, SlotInv, SessionStep PROVE SlotInv'
  OBVIOUS
<1> USE WebAssumptions DEF WebAssumptions, TableOK, SlotInv, Clients, window, notify, page, history, IsWebSocket, Told
<1>1. ASSUME NEW f \in Fds, Accept(f) PROVE SlotInv'
  BY <1>1 DEF Accept
<1>2. ASSUME NEW f \in Fds, Vanish(f) PROVE SlotInv'
  BY <1>2 DEF Vanish
<1>3. ASSUME NEW f \in Fds, CloseSession(f) PROVE SlotInv'
  BY <1>3 DEF CloseSession
<1>4. ASSUME NEW c \in Clients, NEW f \in Fds, Register(c, f) PROVE SlotInv'
  BY <1>4 DEF Register, IsFirst
<1> QED
  BY <1>1, <1>2, <1>3, <1>4 DEF SessionStep

LEMMA SlotNext == TypeOK /\ SlotInv /\ [Next]_vars => SlotInv'
<1>1. SlotInv /\ UNCHANGED slots => SlotInv'
  BY DEF SlotInv, slots, IsWebSocket
<1> QED
  BY <1>1, Frame, Steps, Parts, SlotNotify, SlotSession

-----------------------------------------------------------------------------
(* Clients that hold a slot, and clients that have still to be told.       *)

\* A held client is connected on a descriptor that has a spared slot.
HasSlot(c, f, k) == sess[f] = c /\ s_ws_fds[k] = f /\ Spared(k, f)

LEMMA HeldInvariant ==
  ClientInv <=> /\ \A c \in held : \E f \in Fds, k \in Slots : HasSlot(c, f, k)
                /\ \A c \in due : \E i \in Slots :
                     fds[i] # None /\ sess[fds[i]] = c /\ (dead => ~At(i))
  BY DEF ClientInv, HasSlot

LEMMA ClientNotify == TableOK /\ SlotInv /\ ClientInv /\ NotifyStep => ClientInv'
<1> SUFFICES ASSUME TableOK, SlotInv, ClientInv, NotifyStep PROVE ClientInv'
  OBVIOUS
<1> USE WebAssumptions DEF WebAssumptions, TableOK, window, notify, page, history, IsWebSocket, Told
<1>1. CASE NotifyStart
  <2>1. dead' = FALSE
    BY <1>1 DEF NotifyStart, Idle
  <2>2. \A c \in due' : \E i \in Slots : fds'[i] # None /\ sess'[fds'[i]] = c
    BY <1>1 DEF NotifyStart, Registered
  <2> QED
    BY <1>1, <2>1, <2>2 DEF NotifyStart, ClientInv, Spared
<1>2. ASSUME NEW i \in Slots, Send(i) PROVE ClientInv'
  <2>1. dead' = FALSE
    BY <1>2 DEF Send
  <2>2. ASSUME NEW c \in due' PROVE \E j \in Slots : fds'[j] # None /\ sess'[fds'[j]] = c
    <3>1. PICK j \in Slots : fds[j] # None /\ sess[fds[j]] = c
      BY <1>2, <2>2 DEF Send, ClientInv
    <3>2. j # i /\ fds'[j] = fds[j]
      BY <1>2, <2>2, <3>1 DEF Send, Done
    <3> QED
      BY <1>2, <3>1, <3>2 DEF Send
  <2> QED
    BY <1>2, <2>1, <2>2 DEF Send, ClientInv, Spared
<1>3. ASSUME NEW i \in Slots, Skip(i) PROVE ClientInv'
  <2>1. At(i) /\ \A j \in Slots : At(j)' => j = i
    BY <1>3, NextAt DEF Skip, At
  <2>2. ASSUME NEW c \in held' PROVE \E f \in Fds, k \in Slots : HasSlot(c, f, k)'
    <3>1. PICK f \in Fds, k \in Slots : HasSlot(c, f, k)
      BY <1>3, <2>2, HeldInvariant DEF Skip
    <3>2. f # fds[i]
      BY <1>3, <2>2, <3>1 DEF Skip, HasSlot
    <3> QED
      BY <1>3, <2>1, <3>1, <3>2 DEF Skip, HasSlot, Spared
  <2>3. ASSUME NEW c \in due'
        PROVE  \E j \in Slots : fds'[j] # None /\ sess'[fds'[j]] = c /\ ~At(j)'
    <3>1. PICK j \in Slots : fds[j] # None /\ sess[fds[j]] = c
      BY <1>3, <2>3 DEF Skip, ClientInv
    <3>2. j # i
      BY <1>3, <2>3, <3>1 DEF Skip
    <3> QED
      BY <1>3, <2>1, <3>1, <3>2 DEF Skip
  <2> QED
    BY <2>2, <2>3 DEF ClientInv, HasSlot
<1>4. ASSUME NEW i \in Slots, SendFails(i) PROVE ClientInv'
  <2>1. At(i) /\ \A j \in Slots : At(j)' => j = i
    BY <1>4, NextAt DEF SendFails, At
  <2>2. ASSUME NEW c \in held' PROVE \E f \in Fds, k \in Slots : HasSlot(c, f, k)'
    <3>1. PICK f \in Fds, k \in Slots : HasSlot(c, f, k)
      BY <1>4, <2>2, HeldInvariant DEF SendFails
    <3>2. f # fds[i]
      BY <1>4, <2>2, <3>1 DEF SendFails, HasSlot
    <3> QED
      BY <1>4, <2>1, <3>1, <3>2 DEF SendFails, HasSlot, Spared
  <2>3. ASSUME NEW c \in due'
        PROVE  \E j \in Slots : fds'[j] # None /\ sess'[fds'[j]] = c /\ ~At(j)'
    <3>1. PICK j \in Slots : fds[j] # None /\ sess[fds[j]] = c
      BY <1>4, <2>3 DEF SendFails, ClientInv
    <3>2. j # i
      BY <1>4, <2>3, <3>1 DEF SendFails
    <3> QED
      BY <1>4, <2>1, <3>1, <3>2 DEF SendFails
  <2> QED
    BY <2>2, <2>3 DEF ClientInv, HasSlot
<1>5. ASSUME NEW i \in Slots, ClearSlot(i) PROVE ClientInv'
  <2>1. dead /\ At(i) /\ dead' = FALSE
    BY <1>5 DEF ClearSlot
  <2>2. ASSUME NEW c \in held' PROVE \E f \in Fds, k \in Slots : HasSlot(c, f, k)'
    <3>1. PICK f \in Fds, k \in Slots : HasSlot(c, f, k)
      BY <1>5, <2>2, HeldInvariant DEF ClearSlot
    <3>2. ~IsFirst(k, fds[i])
      BY <2>1, <3>1 DEF HasSlot, Spared, IsFirst
    <3> QED
      BY <1>5, <2>1, <3>1, <3>2 DEF ClearSlot, HasSlot, Spared
  <2>3. ASSUME NEW c \in due' PROVE \E j \in Slots : fds'[j] # None /\ sess'[fds'[j]] = c
    <3>1. PICK j \in Slots : fds[j] # None /\ sess[fds[j]] = c /\ ~At(j)
      BY <1>5, <2>1, <2>3 DEF ClearSlot, ClientInv
    <3>2. fds'[j] = fds[j]
      BY <1>5, <2>1, <3>1 DEF ClearSlot, Done
    <3> QED
      BY <1>5, <3>1, <3>2 DEF ClearSlot
  <2> QED
    BY <2>1, <2>2, <2>3 DEF ClientInv, HasSlot
<1> QED
  BY <1>1, <1>2, <1>3, <1>4, <1>5 DEF NotifyStep

LEMMA Least ==
  ASSUME NEW T, T \subseteq Nat, T # {}
  PROVE  \E m \in T : \A k \in T : m <= k
<1> DEFINE R == OpToRel(<, Nat)
<1>1. IsWellFoundedOn(R, Nat)
  BY NatLessThanWellFounded
<1> HIDE DEF R
<1>2. PICK m \in T : \A k \in T : ~(<<k, m>> \in R)
  BY <1>1, WFMin
<1> USE DEF R
<1>3. \A k \in T : ~(k < m)
  BY <1>2 DEF OpToRel
<1> HIDE DEF R
<1> QED
  BY <1>2, <1>3

LEMMA FirstExists ==
  ASSUME NEW x, \E k \in Slots : s_ws_fds[k] = x
  PROVE  \E k \in Slots : IsFirst(k, x)
<1> DEFINE T == {k \in Slots : s_ws_fds[k] = x}
<1>1. T \subseteq Nat /\ T # {}
  BY DEF Slots
<1>2. PICK m \in T : \A k \in T : m <= k
  BY <1>1, Least
<1>3. ASSUME NEW j \in 1..(m - 1) PROVE s_ws_fds[j] # x
  BY <1>2, WebAssumptions DEF Slots, WebAssumptions
<1> QED
  BY <1>2, <1>3 DEF IsFirst

\* Another session that begins or ends takes no slot from a client.
LEMMA ClientOther ==
  ASSUME TableOK, ClientInv, NEW f \in Fds, NEW s,
         sess' = [sess EXCEPT ![f] = s],
         held' = held \ {sess[f]}, due' = due \ {sess[f]},
         UNCHANGED <<s_ws_fds, fds, dead>>
  PROVE  ClientInv'
<1>1. \A i : At(i)' <=> At(i)
  BY DEF At
<1>2. ASSUME NEW c \in held' PROVE \E g \in Fds, k \in Slots : HasSlot(c, g, k)'
  <2>1. PICK g \in Fds, k \in Slots : HasSlot(c, g, k)
    BY <1>2, HeldInvariant
  <2>2. g # f
    BY <1>2, <2>1 DEF HasSlot
  <2> QED
    BY <1>1, <2>1, <2>2 DEF TableOK, HasSlot, Spared, IsFirst
<1>3. ASSUME NEW c \in due'
      PROVE  \E j \in Slots : fds'[j] # None /\ sess'[fds'[j]] = c /\ (dead' => ~At(j)')
  <2>1. PICK j \in Slots : fds[j] # None /\ sess[fds[j]] = c /\ (dead => ~At(j))
    BY <1>3 DEF ClientInv
  <2>2. fds[j] # f /\ fds[j] \in Fds
    BY <1>3, <2>1 DEF TableOK
  <2> QED
    BY <1>1, <2>1, <2>2 DEF TableOK
<1> QED
  BY <1>2, <1>3 DEF ClientInv, HasSlot

LEMMA ClientRegister ==
  ASSUME TableOK, SlotInv, ClientInv, NEW c \in Clients, NEW f \in Fds, Register(c, f)
  PROVE  ClientInv'
<1> USE WebAssumptions DEF WebAssumptions, TableOK, notify
<1>1. /\ sess[f] = Http /\ sess' = [sess EXCEPT ![f] = c]
      /\ fds' = fds /\ dead' = dead /\ due' = due
      /\ s_ws_fds' = [k \in Slots |-> IF IsFirst(k, None) THEN f ELSE s_ws_fds[k]]
      /\ held' = IF \E k \in Slots : s_ws_fds[k] = None THEN held \cup {c} ELSE held
  BY DEF Register
<1>2. \A i : At(i)' <=> At(i)
  BY <1>1 DEF At
<1>3. ASSUME NEW b \in held' PROVE \E g \in Fds, k \in Slots : HasSlot(b, g, k)'
  <2>1. CASE b \in held
    <3>1. PICK g \in Fds, k \in Slots : HasSlot(b, g, k)
      BY <2>1, HeldInvariant
    <3>2. g # f /\ g # None
      BY <1>1, <2>1, <3>1 DEF HasSlot, Clients
    <3>3. s_ws_fds'[k] = g /\ sess'[g] = b
      BY <1>1, <3>1, <3>2 DEF HasSlot, IsFirst
    <3>4. ASSUME NEW j \in Slots, s_ws_fds[j] = g PROVE s_ws_fds'[j] = g
      BY <1>1, <3>2, <3>4 DEF IsFirst
    <3>5. ASSUME ~IsFirst(k, g) PROVE ~IsFirst(k, g)'
      <4>1. PICK j \in 1..(k - 1) : s_ws_fds[j] = g
        BY <3>1, <3>5 DEF HasSlot, IsFirst
      <4> QED
        BY <3>4, <4>1 DEF IsFirst, Slots
    <3> QED
      BY <1>1, <1>2, <3>1, <3>3, <3>5 DEF HasSlot, Spared
  <2>2. CASE b \notin held
    <3>1. b = c /\ \E k \in Slots : s_ws_fds[k] = None
      BY <1>1, <1>3, <2>2
    <3>2. PICK k \in Slots : IsFirst(k, None)
      BY <3>1, FirstExists
    <3>3. s_ws_fds'[k] = f /\ s_ws_fds[k] = None /\ sess'[f] = b
      BY <1>1, <3>1, <3>2 DEF IsFirst
    <3>4. CASE \E i \in Slots : dead /\ At(i) /\ fds[i] = f
      <4>1. PICK i \in Slots : dead /\ At(i) /\ fds[i] = f
        BY <3>4
      <4>2. s_ws_fds[i] = f /\ s_ws_fds'[i] = f /\ i # k
        BY <1>1, <3>3, <4>1 DEF SlotInv, IsFirst
      <4>3. ASSUME NEW m \in Slots, NEW n \in Slots, m < n,
                   s_ws_fds'[m] = f, s_ws_fds'[n] = f
            PROVE  HasSlot(b, f, n)'
        <5>1. ~IsFirst(n, f)'
          BY <4>3 DEF IsFirst, Slots
        <5> QED
          BY <3>3, <4>3, <5>1 DEF HasSlot, Spared
      <4>4. i < k \/ k < i
        BY <4>2 DEF Slots
      <4> QED
        BY <3>3, <4>2, <4>3, <4>4
    <3>5. CASE ~\E i \in Slots : dead /\ At(i) /\ fds[i] = f
      BY <1>1, <1>2, <3>3, <3>5 DEF HasSlot, Spared
    <3> QED
      BY <3>4, <3>5
  <2> QED
    BY <2>1, <2>2
<1>4. ASSUME NEW b \in due'
      PROVE  \E j \in Slots : fds'[j] # None /\ sess'[fds'[j]] = b /\ (dead' => ~At(j)')
  <2>1. PICK j \in Slots : fds[j] # None /\ sess[fds[j]] = b /\ (dead => ~At(j))
    BY <1>1, <1>4 DEF ClientInv
  <2>2. fds[j] # f
    BY <1>1, <1>4, <2>1 DEF Clients
  <2> QED
    BY <1>1, <1>2, <2>1, <2>2
<1> QED
  BY <1>3, <1>4 DEF ClientInv, HasSlot

LEMMA ClientSession == TableOK /\ SlotInv /\ ClientInv /\ SessionStep => ClientInv'
<1> SUFFICES ASSUME TableOK, SlotInv, ClientInv, SessionStep PROVE ClientInv'
  OBVIOUS
<1>1. ASSUME NEW f \in Fds, Accept(f) PROVE ClientInv'
  <2>1. held \ {sess[f]} = held /\ due \ {sess[f]} = due
    BY <1>1, WebAssumptions DEF Accept, TableOK, WebAssumptions
  <2> QED
    BY <1>1, <2>1, ClientOther DEF Accept, notify, history
<1>2. ASSUME NEW f \in Fds, Vanish(f) PROVE ClientInv'
  BY <1>2, ClientOther DEF Vanish, notify
<1>3. ASSUME NEW f \in Fds, CloseSession(f) PROVE ClientInv'
  BY <1>3, ClientOther DEF CloseSession, notify
<1> QED
  BY <1>1, <1>2, <1>3, ClientRegister DEF SessionStep

LEMMA ClientNext == TypeOK /\ SlotInv /\ ClientInv /\ [Next]_vars => ClientInv'
<1>1. ClientInv /\ UNCHANGED slots => ClientInv'
  BY DEF ClientInv, Spared, At, IsFirst, slots
<1> QED
  BY <1>1, Frame, Steps, Parts, ClientNotify, ClientSession

LEMMA InitTable == Init => SlotInv /\ ClientInv
  BY DEF Init, SlotInv, ClientInv

LEMMA TableInvariant == Spec => [](TypeOK /\ SlotInv /\ ClientInv)
  BY InitType, InitTable, NextType, SlotNext, ClientNext, PTL DEF Spec

\* web_server_notify_ws_event and ws_events_handler share s_ws_fds without a
\* lock around the walk: a connected client keeps its slot all the same.
THEOREM RegistrationsAreKept == Spec => []RegistrationsSurvive
<1>1. TypeOK /\ ClientInv => RegistrationsSurvive
  BY WebAssumptions
     DEF TypeOK, ClientInv, RegistrationsSurvive, Registered, WebAssumptions
<1> QED
  BY <1>1, TableInvariant, PTL

\* At the end of a notify nobody who was registered at its beginning is left.
THEOREM EveryoneIsTold == Spec => []RegisteredClientsAreTold
<1>1. ClientInv => RegisteredClientsAreTold
  BY DEF ClientInv, RegisteredClientsAreTold, Told
<1> QED
  BY <1>1, TableInvariant, PTL

\* A notify frees every slot whose descriptor has had no WebSocket since it
\* began; a session whose client is gone, but to which the send succeeds,
\* keeps its slot.
THEOREM DeadSlotsComeBack == Spec => SlotsComeBack
<1>1. TypeOK' /\ SlotInv' => (Ending => \A i \in Slots : s_ws_fds'[i] \notin quiet')
  <2> SUFFICES ASSUME TypeOK', SlotInv', Ending, NEW i \in Slots, s_ws_fds'[i] \in quiet'
               PROVE  FALSE
    OBVIOUS
  <2>1. fds'[i] = None
    BY DEF Ending, Told
  <2> QED
    BY <2>1, WebAssumptions DEF SlotInv, TypeOK, WebAssumptions
<1> QED
  BY <1>1, TableInvariant, PTL DEF SlotsComeBack

-----------------------------------------------------------------------------
(* The countdown.                                                          *)

quiescent == <<now, closes, lambda, reading, clock, most, since, stamps, lag>>

LEMMA QuiescentSteps ==
  ASSUME NotifyStep \/ SessionStep \/ PostOpen \/ Expire \/ LoadHalf
           \/ (\E a \in BOOLEAN : Show(a) \/ Lose(a)) \/ UNCHANGED vars
  PROVE  UNCHANGED quiescent
<1> USE DEF quiescent, window, time, mark, page, get, history, record
<1>1. NotifyStep => UNCHANGED quiescent
  BY DEF NotifyStep, NotifyStart, Send, Skip, SendFails, ClearSlot, Ask
<1>2. SessionStep => UNCHANGED quiescent
  BY DEF SessionStep, Accept, Vanish, CloseSession, Register
<1>3. PostOpen \/ Expire \/ LoadHalf \/ (\E a \in BOOLEAN : Show(a) \/ Lose(a))
        => UNCHANGED quiescent
  BY DEF PostOpen, Expire, LoadHalf, Show, Lose
<1>4. UNCHANGED vars => UNCHANGED quiescent
  BY DEF vars
<1> QED
  BY <1>1, <1>2, <1>3, <1>4

LEMMA LoadingGoesOn == TypeOK /\ LoadRest => reading' # None
<1> SUFFICES ASSUME TypeOK, LoadRest PROVE reading' # None
  OBVIOUS
<1>1. (Loaded > 0) \in BOOLEAN
  BY Parts, JoinedType DEF LoadRest, Loaded, GetOK, WindowOK
<1>2. reading # None /\ (reading' = reading \/ reading' = (Loaded > 0))
  BY WebAssumptions, Zenon DEF LoadRest, WebAssumptions
<1> QED
  BY <1>1, <1>2, WebAssumptions, Zenon DEF WebAssumptions

LEMMA WindowNext == TypeOK /\ WindowInv /\ [Next]_vars => WindowInv'
<1> SUFFICES ASSUME TypeOK, WindowInv, [Next]_vars PROVE WindowInv'
  OBVIOUS
<1>0. WindowOK /\ clock \in Nat \cup {None}
  BY Parts DEF GetOK
<1>a. ASSUME UNCHANGED reading
      PROVE  Counting' = Counting /\ (reading' # None <=> reading # None)
  BY <1>a DEF Counting
<1> USE WebAssumptions, WindowIsTime, <1>0
    DEF WebAssumptions, WindowOK, WindowInv, Stamped, time, mark, record
<1>1. CASE Tick
  <2>1. now' \in Nat /\ now <= now'
    BY <1>1 DEF Tick
  <2>2. UNCHANGED <<closes, lambda, reading, clock, most, since, stamps, lag>>
    BY <1>1 DEF Tick, page, get, history
  <2> QED
    BY <1>a, <2>1, <2>2
<1>2. CASE Open
  <2>1. UNCHANGED <<now, reading, clock, since, stamps>>
    BY <1>2 DEF Open, page, get
  <2>2. CASE Opens(Window) /\ lambda' = "opened"
    <3>1. reading # None => most' >= Window
      BY <2>2 DEF Opens
    <3>2. Counting => most' >= Window
      BY <3>1 DEF Counting
    <3> QED
      BY <1>a, <2>1, <2>2, <3>2
  <2>3. CASE UNCHANGED <<closes, most, lag, lambda>>
    BY <1>a, <2>1, <2>3
  <2> QED
    BY <1>2, <2>2, <2>3 DEF Open
<1>3. CASE StoreHalf
  <2>1. UNCHANGED <<now, reading, clock, most, since, closes>> /\ lambda' = "half"
        /\ stamps' = stamps \cup {now} /\ lambda = "opened"
        /\ lag' = now - (closes - Window)
    BY <1>3 DEF StoreHalf, page, get
  <2>2. closes' + lag' = now + Window
    BY <2>1
  <2>3. Stamped(closes + lag)'
    BY <2>1, <2>2
  <2> QED
    BY <1>a, <2>1, <2>3
<1>4. CASE StoreRest
  <2>1. UNCHANGED <<now, reading, clock, most, since, closes, stamps, lag>> /\ lambda = "half"
        /\ lambda' = "no"
    BY <1>4 DEF StoreRest, page, get, history
  <2> QED
    BY <1>a, <2>1
<1>5. CASE OpenElsewhere
  <2>1. PICK ticks \in Window..Longest : Opens(ticks)
    BY <1>5 DEF OpenElsewhere
  <2>2. UNCHANGED <<now, reading, clock, since, stamps, lambda>>
    BY <1>5 DEF OpenElsewhere, page, get
  <2>3. reading # None => most' >= Window
    BY <2>1 DEF Opens
  <2>4. Counting => most' >= Window
    BY <2>3 DEF Counting
  <2>5. closes' = now + ticks /\ lag' = 0
    BY <2>1 DEF Opens
  <2>6. Stamped(closes' + lag')
    BY <2>5
  <2> QED
    BY <1>a, <2>2, <2>4, <2>6
<1>6. CASE Close
  <2>1. UNCHANGED <<now, reading, clock, most, since, stamps, lag, lambda>> /\ closes' = None
    BY <1>6 DEF Close, page, get, history
  <2> QED
    BY <1>a, <2>1
<1>7. CASE GetWindow
  <2>1. lambda = "no" /\ reading' = (closes # None) /\ since' = now /\ most' = Left
        /\ UNCHANGED <<now, closes, lambda, clock, stamps, lag>>
    BY <1>7 DEF GetWindow, Idle, window
  <2>2. Counting' <=> closes # None
    BY <2>1 DEF Counting
  <2>3. ASSUME closes # None PROVE Stamped(now + Left + lag)
    <3>1. closes \in Nat /\ Left \in Nat /\ closes <= now + Left
      BY <2>3 DEF Left
    <3> QED
      BY <2>1, <2>3, <3>1
  <2>4. clock = None
    BY <1>7 DEF GetWindow, Free
  <2> QED
    BY <2>1, <2>2, <2>3, <2>4
<1>8. CASE LoadRest
  <2>1. Counting /\ reading # None
        /\ UNCHANGED <<now, closes, lambda, clock, most, since, stamps, lag>>
    BY <1>8 DEF LoadRest, Counting, window, history
  <2>2. reading' # None
    BY <1>8, LoadingGoesOn
  <2> QED
    BY <2>1, <2>2
<1>9. CASE ReadClock
  <2>1. UNCHANGED <<now, closes, lambda, reading, most, since, stamps, lag>> /\ clock' = now
        /\ reading # None
    BY <1>9 DEF ReadClock, window, history
  <2> QED
    BY <1>a, <2>1
<1>10. CASE Answer
  <2>1. UNCHANGED <<now, closes, lambda, stamps, lag>> /\ reading' = None
    BY <1>10 DEF Answer, window
  <2>3. clock' = None
    BY <1>10 DEF Answer
  <2>2. ~Counting'
    BY <2>1 DEF Counting
  <2> QED
    BY <2>1, <2>2, <2>3
<1>11. ASSUME UNCHANGED quiescent PROVE WindowInv'
  BY <1>11, <1>a DEF quiescent
<1> QED
  BY <1>1, <1>2, <1>3, <1>4, <1>5, <1>6, <1>7, <1>8, <1>9, <1>10, <1>11, Steps,
     QuiescentSteps
     DEF WindowStep, LambdaStep, PageStep, GetStep

\* The rounding of Seconds, whichever the sign of the difference.
LEMMA Elapsed ==
  ASSUME NEW n \in Int
  PROVE  /\ Second * Seconds(n) \in Int
         /\ n >= 0 => n - Second < Second * Seconds(n)
         /\ n < 0 => n <= Second * Seconds(n)
<1>1. CASE n >= 0
  <2>1. n \in Nat /\ Seconds(n) = n \div Second
    BY <1>1 DEF Seconds
  <2>2. Second * (n \div Second) \in Nat /\ n < Second * (n \div Second) + Second
    BY <2>1, Rounding, WebAssumptions DEF WebAssumptions
  <2> QED
    BY <1>1, <2>1, <2>2, WebAssumptions DEF WebAssumptions
<1>2. CASE ~(n >= 0)
  <2> DEFINE q == (-n) \div Second
  <2>1. -n \in Nat /\ Seconds(n) = -q
    BY <1>2 DEF Seconds
  <2>2. q \in Nat /\ Second * q <= -n
    BY <2>1, Rounding
  <2> HIDE DEF q
  <2>3. Second * q \in Nat /\ Second * (-q) = -(Second * q)
    BY <2>2, WebAssumptions, SMTT(30) DEF WebAssumptions
  <2> QED
    BY <1>2, <2>1, <2>2, <2>3
<1> QED
  BY <1>1, <1>2

LEMMA Promise ==
  ASSUME TypeOK, WindowInv, reading # None, reading = FALSE \/ (value # None /\ clock # None), ~Torn
  PROVE  \E delay \in {lag, now - since} : Remaining * Second < most + Second + delay
<1> USE WebAssumptions, WindowIsTime DEF WebAssumptions, TypeOK
<1>1. now - since \in Nat
  BY DEF WindowInv
<1>2. CASE Remaining = 0
  BY <1>1, <1>2
<1>3. CASE Remaining # 0
  <2>1. reading = TRUE /\ value # None /\ clock # None /\ value \in stamps
    BY <1>3 DEF Remaining, Torn
  <2>a. Counting
    BY <2>1 DEF Counting
  <2>2. value \in Nat /\ clock \in Nat /\ clock - value \in Int /\ value <= now
        /\ since <= clock /\ clock <= now
    BY <2>1, <2>a DEF WindowInv
  <2> DEFINE elapsed == Seconds(clock - value)
  <2>3. elapsed \in Int
    BY <2>2, SecondsType
  <2>4. Remaining = WindowSeconds - elapsed
    BY <1>3, <2>1 DEF Remaining
  <2>5. /\ Second * elapsed \in Int
        /\ clock - value - Second < Second * elapsed
    BY <2>2, Elapsed
  <2> HIDE DEF elapsed
  <2>6. Remaining * Second = Window - Second * elapsed
    BY <2>3, <2>4, SMTT(30) DEF Window
  <2>7. Remaining * Second < Window + value - clock + Second
    BY <2>2, <2>5, <2>6
  <2>8. CASE most >= Window
    BY <1>1, <2>2, <2>5, <2>6, <2>7, <2>8
  <2>9. CASE ~(most >= Window)
    <3>1. value + Window <= since + most + lag
      BY <2>1, <2>a, <2>9 DEF WindowInv, Stamped
    <3> QED
      BY <2>2, <2>5, <2>6, <2>7, <3>1
  <2> QED
    BY <2>8, <2>9
<1> QED
  BY <1>2, <1>3

\* matter_pairing_handler, without the CHIP lock: what it answers is never more
\* than CHIP's timer had left, but for the rounding, the delay of the opening
\* time or its own, and an opening time made of two halves.
THEOREM NoOverpromise == Spec => CountdownNeverOverpromises
<1>1. Init => WindowInv
  <2>1. Init => ~Counting
    BY WebAssumptions DEF Init, Counting, WebAssumptions
  <2> QED
    BY <2>1 DEF Init, WindowInv
<1>2. TypeOK /\ [Next]_vars /\ reading # None /\ reading' = None
        => reading = FALSE \/ (value # None /\ clock # None)
  <2> SUFFICES ASSUME TypeOK, [Next]_vars, reading # None, reading' = None
               PROVE  reading = FALSE \/ (value # None /\ clock # None)
    OBVIOUS
  <2>1. ASSUME UNCHANGED reading PROVE FALSE
    BY <2>1
  <2>2. WindowStep => UNCHANGED reading
    BY DEF WindowStep, LambdaStep, Tick, Open, StoreHalf, StoreRest, OpenElsewhere, Close,
           page, get
  <2>3. NotifyStep \/ SessionStep \/ PostOpen \/ Expire \/ LoadHalf
          \/ (\E a \in BOOLEAN : Show(a) \/ Lose(a)) \/ UNCHANGED vars => UNCHANGED reading
    BY QuiescentSteps DEF quiescent
  <2>4. ReadClock => UNCHANGED reading
    BY DEF ReadClock
  <2>5. ~GetWindow
    BY DEF GetWindow, Free
  <2>6. CASE LoadRest
    BY <2>6, LoadingGoesOn
  <2>7. CASE Answer
    BY <2>7 DEF Answer
  <2> QED
    BY <2>1, <2>2, <2>3, <2>4, <2>5, <2>6, <2>7, Steps DEF PageStep, GetStep
<1>3. TypeOK /\ WindowInv /\ [Next]_vars
        => (reading # None /\ reading' = None /\ ~Torn
              => \E delay \in {lag, now - since} : Remaining * Second < most + Second + delay)
  BY <1>2, Promise
<1> QED
  BY <1>1, <1>3, InitType, NextType, WindowNext, PTL DEF Spec, CountdownNeverOverpromises
=============================================================================
