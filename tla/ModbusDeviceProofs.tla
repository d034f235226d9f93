------------------------- MODULE ModbusDeviceProofs -------------------------
(***************************************************************************)
(* Proofs about ModbusDevice, for any number of poll tasks, descriptors    *)
(* and link events.                                                        *)
(*                                                                         *)
(* The one idea: for as long as no two actors have met inside the          *)
(* connection code (overlap = {}), at most one actor may touch m_sock or the   *)
(* descriptor of a pending connect (Alone), so what it read about them is  *)
(* still true when it acts on it (Pending, Connection).                    *)
(*                                                                         *)
(* And where start_polling was called once (Solo), whoever else meets the  *)
(* poll task: only that task opens connections, so a connection that it    *)
(* sends on is one it has read every answer from (Lonely).                 *)
(***************************************************************************)
EXTENDS ModbusDevice, SequenceTheorems, FiniteSetTheorems, TLAPS

Alone == \A a, b \in Actors : pc[a] \in Busy /\ pc[b] \in Busy => a = b

\* A pending connect is the only way to a connection.
Pending ==
  \A t \in Tasks : pc[t] = "connecting" => fd[sock[t]] = "device" /\ m_sock = None

\* m_sock is an open descriptor of the device, except between close and clear.
Clearing == \E a \in Actors : pc[a] = "clear"
Connection == m_sock # None => (fd[m_sock] = "device" <=> ~Clearing)

Accounted ==
  \A f \in Fds : fd[f] = "device" =>
    f = m_sock \/ \E t \in Tasks : pc[t] = "connecting" /\ sock[t] = f

Settled == Alone /\ Pending /\ Connection /\ Accounted

Places ==
  /\ pc[Event] \in {"idle", "close", "clear"}
  /\ pc[Http] \in {"idle", "close", "clear", "freed"}
  /\ \A t \in Tasks :
       /\ pc[t] \in Polling \cup {"unborn", "dead"}
       /\ pc[t] = "connecting" => sock[t] \in Fds

Shape == TypeOK /\ Places

Discipline == overlap = {} => Settled /\ ~foreign

-----------------------------------------------------------------------------
(* Types and program points.                                               *)

LEMMA InitShape == Init => Shape
<1> SUFFICES ASSUME Init PROVE Shape
  OBVIOUS
<1>1. pc \in [Actors -> {"unborn", "idle"}] /\ Places
  BY DeviceAssumptions DEF Init, Places, Actors
<1>2. wire \in [Fds -> Seq(Tasks)]
  BY EmptySeq DEF Init
<1>3. /\ group \in [Tasks -> {"input", "holding"}]
      /\ attempt \in [Tasks -> 0..1]
      /\ sock \in [Tasks -> Fds \cup {None}]
      /\ fd \in [Fds -> {"free", "device", "other"}]
  BY DEF Init
<1>4. got \in [Tasks -> SUBSET {"input", "holding"}]
  BY Zenon DEF Init
<1>5. links \in 0..MaxLinkEvents
  BY DeviceAssumptions DEF Init
<1>6. pc \in [Actors -> Polling \cup {"unborn", "dead", "idle", "freed"}]
  BY <1>1
<1> QED
  BY <1>1, <1>2, <1>3, <1>4, <1>5, <1>6 DEF Init, Shape, TypeOK

LEMMA HistoryType ==
  /\ \A a : Enters(a) /\ overlap \subseteq {"met", "cut"} => overlap' \subseteq {"met", "cut"}
  /\ \A t : EndsTask(t) /\ overlap \subseteq {"met", "cut"} => overlap' \subseteq {"met", "cut"}
  /\ \A f : Touches(f) => foreign' \in BOOLEAN
  BY DEF Enters, EndsTask, Touches

\* The part of the state that ReadDone and Broken write.
LEMMA ReadDoneShape ==
  ASSUME Shape, NEW t \in Tasks, NEW g \in SUBSET {"input", "holding"},
         ReadDone(t, g)
  PROVE  /\ got' \in [Tasks -> SUBSET {"input", "holding"}]
         /\ group' \in [Tasks -> {"input", "holding"}]
         /\ attempt' \in [Tasks -> 0..1]
         /\ \E p \in {"connect", "delay", "deliver"} : Goto(t, p)
<1>1. got' = [got EXCEPT ![t] = g]
  BY DEF ReadDone
<1>2. CASE group[t] = "input" /\ "holding" \in Readable
  <2>1. /\ group' = [group EXCEPT ![t] = "holding"] /\ attempt' = [attempt EXCEPT ![t] = 0]
        /\ Goto(t, "connect")
    BY <1>2 DEF ReadDone
  <2>2. /\ got \in [Tasks -> SUBSET {"input", "holding"}]
        /\ group \in [Tasks -> {"input", "holding"}] /\ attempt \in [Tasks -> 0..1]
    BY DEF Shape, TypeOK
  <2> QED
    BY <1>1, <2>1, <2>2
<1>3. CASE ~(group[t] = "input" /\ "holding" \in Readable)
  <2>1. UNCHANGED <<group, attempt>> /\ \E p \in {"delay", "deliver"} : Goto(t, p)
    BY <1>3 DEF ReadDone
  <2> QED
    BY <1>1, <2>1 DEF Shape, TypeOK
<1> QED
  BY <1>2, <1>3

\* Moving one actor between its own program points keeps both.
LEMMA GotoShape ==
  ASSUME Shape, NEW a \in Actors, NEW p, Goto(a, p),
         a \in Tasks => p \in Polling,
         a = Event => p \in {"idle", "close", "clear"},
         a = Http => p \in {"idle", "close", "clear", "freed"},
         p # "connecting", UNCHANGED sock \/ \E t \in Tasks : a = t /\ sock' = [sock EXCEPT ![t] = None]
  PROVE  pc' \in [Actors -> Polling \cup {"unborn", "dead", "idle", "freed"}] /\ Places'
  BY DeviceAssumptions DEF Shape, TypeOK, Places, Goto, Actors, Polling, Busy

LEMMA CloseType ==
  ASSUME Shape, NEW a, Close(a)
  PROVE  fd' \in [Fds -> {"free", "device", "other"}] /\ wire' \in [Fds -> Seq(Tasks)]
<1>1. fd \in [Fds -> {"free", "device", "other"}] /\ wire \in [Fds -> Seq(Tasks)]
  BY DEF Shape, TypeOK
<1>2. <<>> \in Seq(Tasks)
  BY EmptySeq
<1> QED
  BY <1>1, <1>2 DEF Close

LEMMA TaskShape ==
  ASSUME Shape, NEW t \in Tasks, TaskStep(t)
  PROVE  Shape'
<1> t \in Actors /\ t # Event /\ t # Http
  BY DeviceAssumptions DEF Actors
<1>1. CASE PollTop(t)
  <2>1. \E p \in {"delay", "connect"} : Goto(t, p)
    BY <1>1 DEF PollTop
  <2>2. pc' \in [Actors -> Polling \cup {"unborn", "dead", "idle", "freed"}] /\ Places'
    BY <1>1, <2>1, GotoShape DEF PollTop, locals, Polling, Busy
  <2>3. First \in {"input", "holding"}
    BY DEF First
  <2> QED
    <3>1. got' \in [Tasks -> SUBSET {"input", "holding"}]
      BY <1>1 DEF PollTop, Shape, TypeOK
    <3>2. overlap' \subseteq {"met", "cut"}
      BY <1>1, HistoryType DEF PollTop, Shape, TypeOK
    <3>3. /\ group' \in [Tasks -> {"input", "holding"}]
          /\ attempt' \in [Tasks -> 0..1]
      <4>1. CASE UNCHANGED <<group, attempt>>
        BY <4>1 DEF Shape, TypeOK
      <4>2. CASE /\ group' = [group EXCEPT ![t] = First]
                 /\ attempt' = [attempt EXCEPT ![t] = 0]
        BY <4>2, <2>3 DEF Shape, TypeOK
      <4> QED
        BY <1>1, <4>1, <4>2 DEF PollTop
    <3> QED
      BY <1>1, <2>2, <3>1, <3>2, <3>3 DEF PollTop, Shape, TypeOK, device
<1>2. CASE Connect(t)
  <2>1. CASE m_sock # None /\ Goto(t, "send") /\ UNCHANGED <<device, locals, fd>>
    <3>1. pc' \in [Actors -> Polling \cup {"unborn", "dead", "idle", "freed"}] /\ Places'
      BY <2>1, GotoShape DEF locals, Polling, Busy
    <3> QED
      BY <1>2, <2>1, <3>1 DEF Connect, Shape, TypeOK, device, locals
  <2>2. CASE m_state' = "Failed" /\ ReadFailed(t) /\ UNCHANGED <<m_sock, m_paused, m_poll_task, sock, fd>>
    <3>1. got[t] \in SUBSET {"input", "holding"}
      BY DEF Shape, TypeOK
    <3>2. ReadDone(t, got[t])
      BY <2>2 DEF ReadFailed
    <3>3. pc' \in [Actors -> Polling \cup {"unborn", "dead", "idle", "freed"}] /\ Places'
      BY <2>2, <3>1, <3>2, ReadDoneShape, GotoShape DEF Polling, Busy
    <3> QED
      BY <1>2, <2>2, <3>1, <3>2, <3>3, ReadDoneShape DEF Connect, Shape, TypeOK
  <2>3. ASSUME NEW f \in Fds, fd' = [fd EXCEPT ![f] = "device"], sock' = [sock EXCEPT ![t] = f],
               Goto(t, "connecting"), UNCHANGED <<device, group, attempt, got>>
        PROVE  Shape'
    <3>1. pc' = [pc EXCEPT ![t] = "connecting"] /\ sock'[t] = f
      BY <2>3 DEF Goto, Shape, TypeOK
    <3>2. Places'
      BY <2>3, <3>1, DeviceAssumptions DEF Places, Shape, TypeOK, Actors, Polling, Busy
    <3> QED
      BY <1>2, <2>3, <3>1, <3>2 DEF Connect, Shape, TypeOK, device, Polling, Busy
  <2> QED
    BY <1>2, <2>1, <2>2, <2>3 DEF Connect
<1>3. CASE Connected(t)
  <2>1. pc' \in [Actors -> Polling \cup {"unborn", "dead", "idle", "freed"}] /\ Places'
    BY <1>3, GotoShape DEF Connected, Polling, Busy
  <2>2. sock[t] \in Fds
    BY <1>3 DEF Connected, Shape, Places
  <2> QED
    BY <1>3, <2>1, <2>2 DEF Connected, Shape, TypeOK
<1>4. CASE ConnectFails(t)
  <2>1. got[t] \in SUBSET {"input", "holding"} /\ ReadDone(t, got[t])
    BY <1>4 DEF ConnectFails, ReadFailed, Shape, TypeOK
  <2>2. pc' \in [Actors -> Polling \cup {"unborn", "dead", "idle", "freed"}] /\ Places'
    BY <1>4, <2>1, ReadDoneShape, GotoShape DEF ConnectFails, Polling, Busy
  <2> QED
    BY <1>4, <2>1, <2>2, ReadDoneShape DEF ConnectFails, Shape, TypeOK
<1>5. CASE Send(t)
  <2>1. \E p \in {"recv", "close", "retry"} : Goto(t, p)
    BY <1>5 DEF Send, Broken
  <2>2. pc' \in [Actors -> Polling \cup {"unborn", "dead", "idle", "freed"}] /\ Places'
    BY <1>5, <2>1, GotoShape DEF Send, locals, Polling, Busy
  <2>3. wire' \in [Fds -> Seq(Tasks)]
    <3>1. CASE UNCHANGED wire
      BY <3>1 DEF Shape, TypeOK
    <3>2. CASE Usable(m_sock) /\ wire' = [wire EXCEPT ![m_sock] = Append(@, t)]
      <4>1. m_sock \in Fds /\ wire[m_sock] \in Seq(Tasks)
        BY <3>2 DEF Usable, Shape, TypeOK
      <4>2. Append(wire[m_sock], t) \in Seq(Tasks)
        BY <4>1, AppendProperties
      <4> QED
        BY <3>2, <4>2 DEF Shape, TypeOK
    <3> QED
      BY <1>5, <3>1, <3>2 DEF Send
  <2> QED
    BY <1>5, <2>2, <2>3, HistoryType DEF Send, Broken, Shape, TypeOK, device, locals
<1>6. CASE Recv(t)
  <2>1. CASE \E g \in {got[t], got[t] \cup {group[t]}} :
               ReadDone(t, g) /\ UNCHANGED <<device, sock>>
             /\ Usable(m_sock) /\ wire[m_sock] # <<>> /\ wire' = [wire EXCEPT ![m_sock] = Tail(@)]
    <3>1. PICK g \in {got[t], got[t] \cup {group[t]}} : ReadDone(t, g)
      BY <2>1
    <3>2. g \in SUBSET {"input", "holding"}
      <4>1. got[t] \in SUBSET {"input", "holding"} /\ group[t] \in {"input", "holding"}
        BY DEF Shape, TypeOK
      <4> QED
        BY <4>1
    <3>3. pc' \in [Actors -> Polling \cup {"unborn", "dead", "idle", "freed"}] /\ Places'
      BY <2>1, <3>1, <3>2, ReadDoneShape, GotoShape DEF Polling, Busy
    <3>4. wire' \in [Fds -> Seq(Tasks)]
      BY <2>1, HeadTailProperties DEF Usable, Shape, TypeOK
    <3> QED
      BY <1>6, <2>1, <3>1, <3>2, <3>3, <3>4, ReadDoneShape, HistoryType
         DEF Recv, Shape, TypeOK, device
  <2>2. CASE Broken(t) /\ UNCHANGED <<wire, locals>>
    <3>1. pc' \in [Actors -> Polling \cup {"unborn", "dead", "idle", "freed"}] /\ Places'
      BY <2>2, GotoShape DEF Broken, locals, Polling, Busy
    <3> QED
      BY <1>6, <2>2, <3>1, HistoryType DEF Recv, Broken, Shape, TypeOK, locals
  <2> QED
    BY <1>6, <2>1, <2>2 DEF Recv, ReadFailed
<1>7. CASE Close(t)
  <2>1. pc' \in [Actors -> Polling \cup {"unborn", "dead", "idle", "freed"}] /\ Places'
    BY <1>7, GotoShape DEF Close, locals, Polling, Busy
  <2> QED
    BY <1>7, <2>1, HistoryType, CloseType DEF Close, Shape, TypeOK, device, locals
<1>8. CASE Clear(t)
  <2>1. AfterClose(t) = "retry"
    BY DEF AfterClose
  <2>2. pc' \in [Actors -> Polling \cup {"unborn", "dead", "idle", "freed"}] /\ Places'
    BY <1>8, <2>1, GotoShape DEF Clear, locals, Polling, Busy
  <2> QED
    BY <1>8, <2>2 DEF Clear, Shape, TypeOK, locals
<1>9. CASE Retry(t)
  <2>1. CASE /\ attempt' = [attempt EXCEPT ![t] = 1]
             /\ Goto(t, "connect")
             /\ UNCHANGED <<group, got>>
    <3>1. pc' \in [Actors -> Polling \cup {"unborn", "dead", "idle", "freed"}] /\ Places'
      BY <1>9, <2>1, GotoShape DEF Retry, Polling, Busy
    <3> QED
      BY <1>9, <2>1, <3>1, HistoryType DEF Retry, Shape, TypeOK, device
  <2>2. CASE ReadFailed(t)
    <3>1. got[t] \in SUBSET {"input", "holding"} /\ ReadDone(t, got[t])
      BY <2>2 DEF ReadFailed, Shape, TypeOK
    <3>2. pc' \in [Actors -> Polling \cup {"unborn", "dead", "idle", "freed"}] /\ Places'
      BY <1>9, <3>1, ReadDoneShape, GotoShape DEF Retry, Polling, Busy
    <3> QED
      BY <1>9, <3>1, <3>2, ReadDoneShape, HistoryType DEF Retry, Shape, TypeOK, device
  <2> QED
    BY <1>9, <2>1, <2>2 DEF Retry
<1>10. CASE Deliver(t) \/ Delay(t)
  <2>1. \E p \in {"delay", "top"} : Goto(t, p)
    BY <1>10 DEF Deliver, Delay
  <2>2. pc' \in [Actors -> Polling \cup {"unborn", "dead", "idle", "freed"}] /\ Places'
    BY <1>10, <2>1, GotoShape DEF Deliver, Delay, locals, Polling, Busy
  <2> QED
    BY <1>10, <2>2 DEF Deliver, Delay, Shape, TypeOK, device, locals
<1> QED
  BY <1>1, <1>2, <1>3, <1>4, <1>5, <1>6, <1>7, <1>8, <1>9, <1>10 DEF TaskStep

LEMMA StepShape == Shape /\ [Next]_vars => Shape'
<1> SUFFICES ASSUME Shape, [Next]_vars PROVE Shape'
  OBVIOUS
<1> Event \in Actors /\ Http \in Actors /\ Event # Http /\ Event \notin Tasks /\ Http \notin Tasks
  BY DeviceAssumptions DEF Actors
<1>1. ASSUME NEW t \in Tasks, StartPolling(t) PROVE Shape'
  <2>1. t \in Actors
    BY DEF Actors
  <2>2. pc' \in [Actors -> Polling \cup {"unborn", "dead", "idle", "freed"}] /\ Places'
    BY <1>1, <2>1, GotoShape DEF StartPolling, locals, Polling, Busy
  <2> QED
    BY <1>1, <2>2 DEF StartPolling, Shape, TypeOK, locals
<1>2. ASSUME NEW t \in Tasks, TaskStep(t) PROVE Shape'
  BY <1>2, TaskShape
<1>3. CASE Pause
  <2>1. pc' \in [Actors -> Polling \cup {"unborn", "dead", "idle", "freed"}] /\ Places'
    <3>1. CASE Goto(Event, "close")
      BY <1>3, <3>1, GotoShape DEF Pause, locals, Polling, Busy
    <3>2. CASE UNCHANGED pc
      BY <1>3, <3>2 DEF Pause, locals, Shape, TypeOK, Places
    <3> QED
      BY <1>3, <3>1, <3>2 DEF Pause
  <2>2. links' \in 0..MaxLinkEvents
    BY <1>3, DeviceAssumptions DEF Pause, Shape, TypeOK
  <2>3. overlap' \subseteq {"met", "cut"}
    BY <1>3, HistoryType DEF Pause, Shape, TypeOK
  <2> QED
    BY <1>3, <2>1, <2>2, <2>3 DEF Pause, Shape, TypeOK, locals
<1>4. CASE Resume
  <2>1. links' \in 0..MaxLinkEvents
    BY <1>4, DeviceAssumptions DEF Resume, Shape, TypeOK
  <2> QED
    BY <1>4, <2>1 DEF Resume, Shape, TypeOK, Places, locals
<1>5. ASSUME NEW a \in {Event, Http}, Close(a) PROVE Shape'
  <2>1. pc' \in [Actors -> Polling \cup {"unborn", "dead", "idle", "freed"}] /\ Places'
    BY <1>5, GotoShape DEF Close, locals, Polling, Busy
  <2> QED
    BY <1>5, <2>1, HistoryType, CloseType DEF Close, Shape, TypeOK, device, locals
<1>6. ASSUME NEW a \in {Event, Http}, Clear(a) PROVE Shape'
  <2>1. AfterClose(a) = IF a = Event THEN "idle" ELSE "freed"
    BY DEF AfterClose
  <2>2. pc' \in [Actors -> Polling \cup {"unborn", "dead", "idle", "freed"}] /\ Places'
    BY <1>6, <2>1, GotoShape DEF Clear, locals, Polling, Busy
  <2> QED
    BY <1>6, <2>2 DEF Clear, Shape, TypeOK, locals
<1>7. CASE Destroy
  <2>1. pc' \in [Actors -> Polling \cup {"unborn", "dead", "idle", "freed"}] /\ Places'
    <3>1. \A a \in Actors :
            pc'[a] = IF a = m_poll_task THEN "dead"
                     ELSE IF a = Http THEN IF m_sock # None THEN "close" ELSE "freed"
                     ELSE pc[a]
      BY <1>7 DEF Destroy
    <3>2. m_poll_task \in Tasks \cup {None} /\ None # Event /\ None # Http
      BY DeviceAssumptions DEF Shape, TypeOK
    <3>3. Places'
      BY <1>7, <3>1, <3>2 DEF Destroy, locals, Shape, Places, Actors
    <3>4. \A a \in Actors : pc'[a] \in Polling \cup {"unborn", "dead", "idle", "freed"}
      BY <3>1 DEF Shape, TypeOK, Polling, Busy
    <3>5. pc' = [a \in Actors |-> pc'[a]]
      BY <1>7 DEF Destroy
    <3> QED
      BY <3>3, <3>4, <3>5
  <2> QED
    BY <1>7, <2>1, HistoryType DEF Destroy, Shape, TypeOK, locals
<1>8. ASSUME NEW f \in Fds, OtherOpens(f) \/ OtherCloses(f) PROVE Shape'
  BY ZenonT(60), <1>8 DEF OtherOpens, OtherCloses, Shape, TypeOK, Places, device, locals
<1>9. CASE Settle
  BY <1>9 DEF Settle, Shape, TypeOK, Places, device, locals
<1>10. CASE UNCHANGED vars
  BY <1>10 DEF vars, Shape, TypeOK, Places, device, locals
<1> QED
  BY <1>1, <1>2, <1>3, <1>4, <1>5, <1>6, <1>7, <1>8, <1>9, <1>10 DEF Next

\* Every variable of the device, the socket table and the tasks keeps its
\* type, whatever the number of tasks that start_polling created.
THEOREM TypeCorrect == Spec => []TypeOK
<1>1. Spec => []Shape
  BY InitShape, StepShape, PTL DEF Spec
<1>2. Shape => TypeOK
  BY DEF Shape
<1> QED
  BY <1>1, <1>2, PTL

-----------------------------------------------------------------------------
(* One actor at a time.                                                    *)

\* An actor goes on inside the connection code, or leaves it.
LEMMA StayAlone ==
  ASSUME Shape, Alone, NEW a \in Actors, NEW p, Goto(a, p),
         pc[a] \in Busy \/ p \notin Busy \/ Inside(pc) \ {a} = {}
  PROVE  Alone'
  BY DEF Shape, TypeOK, Alone, Goto, Inside

LEMMA InitDiscipline == Init => Discipline
  BY DEF Init, Discipline, Settled, Alone, Pending, Connection, Accounted,
         Busy, Actors

\* A step that moves an actor and leaves the connection as it is.
LEMMA MoveKeeps ==
  ASSUME Shape, Settled, NEW a \in Actors, NEW p, Goto(a, p), Alone',
         {pc[a], p} \cap {"connecting", "clear"} = {},
         UNCHANGED <<m_sock, sock, fd>>
  PROVE  Settled'
<1>1. \A b \in Actors : /\ pc'[b] = "connecting" <=> pc[b] = "connecting"
                        /\ pc'[b] = "clear" <=> pc[b] = "clear"
  BY DEF Goto, Shape, TypeOK
<1>2. Tasks \subseteq Actors
  BY DEF Actors
<1>3. Pending' /\ Accounted'
  BY <1>1, <1>2 DEF Settled, Pending, Accounted
<1>4. Clearing' <=> Clearing
  BY <1>1 DEF Clearing
<1>5. Connection'
  BY <1>4 DEF Settled, Connection
<1> QED
  BY <1>3, <1>5 DEF Settled

\* An actor that uses m_sock while it is alone uses a descriptor of the device.
LEMMA UseOwn ==
  ASSUME Settled, NEW a \in Actors, pc[a] \in Busy \ {"clear"}, ~foreign, Touches(m_sock)
  PROVE  ~foreign'
<1>1. ~Clearing
  BY DEF Settled, Alone, Clearing, Busy
<1> QED
  BY <1>1 DEF Settled, Connection, Touches

\* close_socket, whoever calls it.
LEMMA CloseKeeps ==
  ASSUME Shape, Settled, NEW a \in Actors, Close(a), ~foreign
  PROVE  Settled' /\ ~foreign'
<1>1. /\ pc[a] = "close" /\ pc' = [pc EXCEPT ![a] = "clear"]
      /\ UNCHANGED <<m_sock, sock>>
  BY DEF Close, Goto, device, locals
<1>2. \A b \in Actors : b # a => pc'[b] \notin Busy /\ pc[b] \notin Busy
  BY <1>1 DEF Settled, Alone, Shape, TypeOK, Busy
<1>3. pc'[a] = "clear" /\ Tasks \subseteq Actors
  BY <1>1 DEF Shape, TypeOK, Actors
<1>4. Alone' /\ Pending'
  BY <1>2, <1>3 DEF Alone, Pending, Busy
<1>5. m_sock # None => m_sock \in Fds /\ fd' = [fd EXCEPT ![m_sock] = "free"]
  BY DEF Close, Shape, TypeOK
<1>6. \A f \in Fds : fd[f] = "device" => f = m_sock
  BY <1>1, <1>2, <1>3 DEF Settled, Accounted, Busy
<1>7. ~foreign'
  <2>1. Touches(m_sock)
    BY DEF Close
  <2> QED
    BY <2>1, <1>1, UseOwn DEF Busy
<1>8. Connection' /\ Clearing'
  BY <1>1, <1>3, <1>5 DEF Connection, Clearing, Shape, TypeOK
<1>9. Accounted'
  BY <1>1, <1>5, <1>6 DEF Accounted, Close, Shape, TypeOK
<1> QED
  BY <1>4, <1>7, <1>8, <1>9 DEF Settled

LEMMA ClearKeeps ==
  ASSUME Shape, Settled, NEW a \in Actors, Clear(a)
  PROVE  Settled'
<1>1. /\ pc[a] = "clear" /\ pc' = [pc EXCEPT ![a] = AfterClose(a)]
      /\ m_sock' = None
      /\ UNCHANGED <<sock, fd>>
  BY DEF Clear, Goto, locals
<1>2. AfterClose(a) \notin Busy
  BY DeviceAssumptions DEF AfterClose, Actors, Busy
<1>3. \A b \in Actors : pc'[b] \notin Busy
  BY <1>1, <1>2 DEF Settled, Alone, Shape, TypeOK, Busy
<1>4. \A f \in Fds : fd[f] # "device"
  <2>1. Clearing /\ \A t \in Tasks : pc[t] # "connecting"
    BY <1>1 DEF Clearing, Settled, Alone, Busy, Actors
  <2> QED
    BY <2>1, DeviceAssumptions DEF Settled, Connection, Accounted
<1> QED
  BY <1>1, <1>3, <1>4 DEF Settled, Alone, Pending, Connection, Accounted,
     Busy, Actors

LEMMA TaskDiscipline ==
  ASSUME Shape, Settled, ~foreign, NEW t \in Tasks, TaskStep(t), overlap = {}, overlap' = {}
  PROVE  Settled' /\ ~foreign'
<1>1. t \in Actors /\ Tasks \subseteq Actors /\ Alone
  BY DEF Actors, Settled
<1> USE <1>1
<1>2. ASSUME NEW p, Goto(t, p), UNCHANGED <<m_sock, sock, fd>>,
             {pc[t], p} \cap {"connecting", "clear"} = {},
             pc[t] \in Busy \/ p \notin Busy \/ Inside(pc) \ {t} = {}
      PROVE  Settled'
  BY <1>2, StayAlone, MoveKeeps
<1>3. ASSUME NEW g, ReadDone(t, g)
      PROVE  \E p \in {"connect", "delay", "deliver"} : Goto(t, p)
  BY <1>3 DEF ReadDone
<1>4. Broken(t) => /\ \E p \in {"close", "retry"} : Goto(t, p)
                   /\ UNCHANGED m_sock
  BY DEF Broken
<1>5. CASE PollTop(t)
  <2>1. PICK p \in {"delay", "connect"} : Goto(t, p)
    BY <1>5 DEF PollTop
  <2>2. p = "delay" \/ Inside(pc) \ {t} = {}
    BY <1>5, <2>1 DEF PollTop, Enters, Goto, Shape, TypeOK
  <2> QED
    BY <1>5, <1>2, <2>1, <2>2 DEF PollTop, device, Busy
<1>6. CASE Connect(t)
  <2>1. CASE Goto(t, "send") /\ UNCHANGED <<device, locals, fd>>
    BY <1>6, <1>2, <2>1 DEF Connect, device, locals, Busy
  <2>2. CASE ReadFailed(t) /\ UNCHANGED <<m_sock, m_paused, m_poll_task, sock, fd>>
    BY <1>6, <1>2, <1>3, <2>2 DEF Connect, ReadFailed, Busy
  <2>3. ASSUME m_sock = None, NEW f \in Fds, fd[f] = "free",
               fd' = [fd EXCEPT ![f] = "device"], sock' = [sock EXCEPT ![t] = f],
               Goto(t, "connecting"), UNCHANGED <<device, group, attempt, got>>
        PROVE  Settled' /\ ~foreign'
    <3>1. \A b \in Actors : pc'[b] \in Busy => b = t
      BY <1>6, <2>3 DEF Connect, Goto, Shape, TypeOK, Alone, Busy
    <3>2. pc'[t] = "connecting" /\ sock'[t] = f /\ m_sock' = None /\ fd'[f] = "device"
      BY <2>3 DEF Goto, Shape, TypeOK, device
    <3>3. \A g \in Fds : fd[g] # "device"
      <4>1. \A u \in Tasks : pc[u] # "connecting"
        BY <1>6 DEF Connect, Alone, Busy
      <4> QED
        BY <2>3, <4>1, DeviceAssumptions DEF Settled, Accounted
    <3>4. Alone' /\ Pending' /\ Connection'
      BY <3>1, <3>2 DEF Alone, Pending, Connection, Busy
    <3>5. Accounted'
      BY <2>3, <3>2, <3>3 DEF Accounted, Shape, TypeOK
    <3> QED
      BY <1>6, <3>4, <3>5 DEF Connect, Settled
  <2>4. UNCHANGED foreign
    BY <1>6 DEF Connect
  <2> QED
    BY <1>6, <2>1, <2>2, <2>3, <2>4 DEF Connect
<1>7. CASE Connected(t)
  <2>1. /\ pc[t] = "connecting" /\ pc' = [pc EXCEPT ![t] = "send"]
        /\ m_sock' = sock[t] /\ UNCHANGED <<fd, foreign>>
    BY <1>7 DEF Connected, Goto
  <2>2. \A b \in Actors : pc'[b] \in Busy => b = t
    BY <2>1 DEF Shape, TypeOK, Alone, Busy
  <2>3. pc'[t] = "send" /\ sock[t] \in Fds /\ fd[sock[t]] = "device" /\ m_sock = None
    BY <2>1 DEF Shape, TypeOK, Places, Settled, Pending
  <2>4. \A f \in Fds : fd[f] = "device" => f = sock[t]
    BY <2>1, <2>3, DeviceAssumptions DEF Settled, Accounted, Alone, Busy
  <2>5. Alone' /\ Pending' /\ Connection'
    BY <2>1, <2>2, <2>3 DEF Alone, Pending, Connection, Clearing, Busy
  <2>6. Accounted'
    BY <2>1, <2>4 DEF Accounted
  <2> QED
    BY <2>1, <2>5, <2>6 DEF Settled
<1>8. CASE ConnectFails(t)
  <2>1. /\ pc[t] = "connecting" /\ fd' = [fd EXCEPT ![sock[t]] = "free"]
        /\ UNCHANGED <<m_sock, foreign>>
    BY <1>8 DEF ConnectFails
  <2>2. PICK p \in {"connect", "delay", "deliver"} : pc' = [pc EXCEPT ![t] = p]
    BY <1>8, <1>3 DEF ConnectFails, ReadFailed, Goto
  <2>3. \A b \in Actors : pc'[b] \in Busy => b = t /\ pc'[b] = "connect"
    BY <2>1, <2>2 DEF Shape, TypeOK, Alone, Busy
  <2>4. sock[t] \in Fds /\ m_sock = None
    BY <2>1 DEF Shape, Places, Settled, Pending
  <2>5. \A f \in Fds : fd'[f] # "device"
    BY <2>1, <2>4, DeviceAssumptions DEF Settled, Accounted, Alone, Busy, Shape, TypeOK
  <2> QED
    BY <2>1, <2>3, <2>4, <2>5 DEF Settled, Alone, Pending, Connection, Accounted, Busy
<1>9. CASE Send(t)
  <2>1. \E p \in {"recv", "close", "retry"} : Goto(t, p)
    BY <1>9, <1>4 DEF Send
  <2>2. pc[t] = "send" /\ UNCHANGED <<m_sock, sock, fd>> /\ Touches(m_sock)
    BY <1>9, <1>4 DEF Send, device, locals
  <2> QED
    BY <1>2, <2>1, <2>2, UseOwn DEF Busy
<1>10. CASE Recv(t)
  <2>1. \E p \in {"connect", "delay", "deliver", "close", "retry"} : Goto(t, p)
    BY <1>10, <1>3, <1>4 DEF Recv, ReadFailed
  <2>2. pc[t] = "recv" /\ UNCHANGED <<m_sock, sock, fd>> /\ Touches(m_sock)
    BY <1>10, <1>4 DEF Recv, device, locals
  <2> QED
    BY <1>2, <2>1, <2>2, UseOwn DEF Busy
<1>11. CASE Close(t)
  BY <1>11, CloseKeeps
<1>12. CASE Clear(t)
  BY <1>12, ClearKeeps DEF Clear
<1>13. CASE Retry(t)
  <2>1. \E p \in {"connect", "delay", "deliver"} : Goto(t, p)
    BY <1>13, <1>3 DEF Retry, ReadFailed
  <2>2. /\ pc[t] = "retry" /\ Inside(pc) \ {t} = {}
        /\ UNCHANGED <<m_sock, sock, fd, foreign>>
    BY <1>13 DEF Retry, Enters, device
  <2> QED
    BY <1>2, <2>1, <2>2 DEF Busy
<1>14. CASE Deliver(t) \/ Delay(t)
  <2>1. \E p \in {"delay", "top"} : Goto(t, p)
    BY <1>14 DEF Deliver, Delay
  <2>2. /\ pc[t] \in {"deliver", "delay"}
        /\ UNCHANGED <<m_sock, sock, fd, foreign>>
    BY <1>14 DEF Deliver, Delay, device, locals
  <2> QED
    BY <1>2, <2>1, <2>2 DEF Busy
<1> QED
  BY <1>5, <1>6, <1>7, <1>8, <1>9, <1>10, <1>11, <1>12, <1>13, <1>14 DEF TaskStep

LEMMA OverlapStays == [Next]_vars => overlap \subseteq overlap'
<1> SUFFICES ASSUME [Next]_vars PROVE overlap \subseteq overlap'
  OBVIOUS
<1>1. (\E a : Enters(a) \/ EndsTask(a)) => overlap \subseteq overlap'
  BY DEF Enters, EndsTask
<1>2. ASSUME NEW t \in Tasks, StartPolling(t) \/ TaskStep(t) PROVE overlap \subseteq overlap'
  BY <1>1, <1>2 DEF StartPolling, TaskStep, PollTop, Connect, Connected, ConnectFails,
     Send, Recv, Close, Clear, Retry, Deliver, Delay
<1> QED
  BY <1>1, <1>2 DEF Next, vars, Pause, Resume, Close, Clear, Destroy, OtherOpens,
     OtherCloses, Settle

LEMMA StepDiscipline == Shape /\ Discipline /\ [Next]_vars => Discipline'
<1> SUFFICES ASSUME Shape, Discipline, [Next]_vars, overlap' = {}
             PROVE  Settled' /\ ~foreign'
  BY DEF Discipline, Settled
<1>1. overlap = {} /\ Settled /\ ~foreign
  BY OverlapStays DEF Discipline, Settled
<1>2. {Event, Http} \cup Tasks \subseteq Actors /\ Alone
  BY <1>1 DEF Actors, Settled
<1>3. ASSUME NEW t \in Tasks, StartPolling(t) PROVE Settled' /\ ~foreign'
  <2>1. /\ pc[t] = "unborn" /\ Goto(t, "top")
        /\ UNCHANGED <<m_sock, sock, fd, foreign>>
    BY <1>3 DEF StartPolling, locals
  <2> QED
    BY <1>1, <1>2, <2>1, StayAlone, MoveKeeps DEF Busy
<1>4. ASSUME NEW t \in Tasks, TaskStep(t) PROVE Settled' /\ ~foreign'
  BY <1>1, <1>4, TaskDiscipline
<1>5. ASSUME NEW a \in {Event, Http}, Close(a) \/ Clear(a) PROVE Settled' /\ ~foreign'
  BY <1>1, <1>2, <1>5, CloseKeeps, ClearKeeps DEF Clear
<1>6. CASE Pause
  <2>1. UNCHANGED <<m_sock, sock, fd, foreign>> /\ pc[Event] = "idle"
    BY <1>6 DEF Pause, locals
  <2>2. CASE Goto(Event, "close") /\ Enters(Event)
    BY <1>1, <1>2, <2>1, <2>2, StayAlone, MoveKeeps DEF Enters
  <2>3. CASE UNCHANGED pc
    BY <1>1, <2>1, <2>3 DEF Settled, Alone, Pending, Connection, Clearing, Accounted
  <2> QED
    BY <1>6, <2>2, <2>3 DEF Pause
<1>7. CASE Destroy
  <2>1. UNCHANGED <<m_sock, sock, fd, foreign>>
    BY <1>7 DEF Destroy, locals
  <2>2. \A a \in Actors : a # Http => pc[a] \notin Busy /\ pc'[a] \notin Busy
    BY <1>7, <1>1, DeviceAssumptions DEF Destroy, EndsTask, Inside, Busy, Actors, Shape, TypeOK
  <2>3. pc[Http] = "idle" /\ pc'[Http] \in {"dead", "close", "freed"}
    BY <1>7, <1>2 DEF Destroy
  <2>4. Alone' /\ ~Clearing /\ ~Clearing'
    BY <2>2, <2>3 DEF Alone, Clearing, Busy
  <2>5. \A t \in Tasks : pc[t] # "connecting" /\ pc'[t] # "connecting"
    BY <2>2, DeviceAssumptions DEF Busy, Actors
  <2> QED
    BY <1>1, <2>1, <2>4, <2>5 DEF Settled, Pending, Connection, Accounted
<1>8. ASSUME NEW f \in Fds, OtherOpens(f) \/ OtherCloses(f) PROVE Settled' /\ ~foreign'
  <2>1. /\ UNCHANGED <<pc, m_sock, sock, foreign>>
        /\ fd[f] # "device"
        /\ \E owner \in {"other", "free"} : fd' = [fd EXCEPT ![f] = owner]
    BY <1>8 DEF OtherOpens, OtherCloses, device, locals
  <2>2. \A g \in Fds : fd'[g] = "device" <=> fd[g] = "device"
    BY <2>1 DEF Shape, TypeOK
  <2>3. m_sock # None => m_sock \in Fds
    BY DEF Shape, TypeOK
  <2>4. Pending'
    BY <1>1, <2>1, <2>2 DEF Settled, Pending, Shape, Places
  <2> QED
    BY <1>1, <2>1, <2>2, <2>3, <2>4 DEF Settled, Alone, Connection, Clearing, Accounted
<1>9. CASE Resume \/ Settle \/ UNCHANGED vars
  <2>1. UNCHANGED <<pc, m_sock, sock, fd, foreign>>
    BY <1>9 DEF Resume, Settle, vars, device, locals
  <2> QED
    BY <1>1, <2>1 DEF Settled, Alone, Pending, Connection, Clearing, Accounted
<1> QED
  BY <1>3, <1>4, <1>5, <1>6, <1>7, <1>8, <1>9 DEF Next

LEMMA Invariance == Spec => [](Shape /\ Discipline)
<1>1. Init => Shape /\ Discipline
  BY InitShape, InitDiscipline
<1>2. Shape /\ Discipline /\ [Next]_vars => (Shape /\ Discipline)'
  BY StepShape, StepDiscipline
<1> QED
  BY <1>1, <1>2, PTL DEF Spec

\* As long as no two actors meet inside the connection code and no task is
\* deleted there, no descriptor the device opened is ever lost, however often
\* connects fail, requests time out, the link goes down or start_polling is
\* called.
THEOREM NoDescriptorLost == Spec => []DescriptorsAccountedFor
<1>1. Discipline => DescriptorsAccountedFor
  BY DEF Discipline, Settled, Accounted, DescriptorsAccountedFor
<1> QED
  BY <1>1, Invariance, PTL

\* Under the same condition the device never sends on, reads from or closes a
\* descriptor that the socket table has given to somebody else.
THEOREM OwnDescriptors == Spec => []OwnDescriptorsOnly
<1>1. Discipline => OwnDescriptorsOnly
  BY DEF Discipline, OwnDescriptorsOnly
<1> QED
  BY <1>1, Invariance, PTL

-----------------------------------------------------------------------------
(* One poll task.                                                          *)

Solo == \A t, u \in Tasks : pc[t] # "unborn" /\ pc[u] # "unborn" => t = u

Owing(t) ==
  /\ Alive => m_poll_task = t
  /\ ~Alive => pc[t] = "dead"
  /\ pc[t] \in {"connecting", "retry"} => m_sock = None
  /\ pc[t] = "clear" /\ m_sock # None => fd[m_sock] # "device"
  /\ m_sock # None /\ fd[m_sock] = "device" =>
       /\ pc[t] \in Polling \ {"recv", "close"} => wire[m_sock] = <<>>
       /\ pc[t] = "recv" => Len(wire[m_sock]) <= 1

Lonely ==
  Solo => /\ m_sock # None => \E t \in Tasks : pc[t] # "unborn"
          /\ \A t \in Tasks : pc[t] # "unborn" => Owing(t)
          /\ pc[Http] = "freed" => m_sock = None

LEMMA OneTaskSolo ==
  ASSUME IsFiniteSet(Started), OneTask
  PROVE  Solo
<1>1. Cardinality(Started) \in {0, 1}
  BY FS_CardinalityType DEF OneTask
<1>2. ASSUME NEW t \in Started, NEW u \in Started, t # u PROVE FALSE
  <2>1. {t, u} \subseteq Started
    OBVIOUS
  <2>2. Cardinality({t, u}) = 2
    <3>1. IsFiniteSet({t}) /\ Cardinality({t}) = 1
      BY FS_Singleton, Zenon
    <3>2. Cardinality({t} \cup {u}) = 2
      <4>1. Cardinality({t} \cup {u}) = IF u \in {t} THEN Cardinality({t}) ELSE Cardinality({t}) + 1
        BY <3>1, FS_AddElement, Zenon
      <4> QED
        BY <1>2, <3>1, <4>1
    <3>3. {t} \cup {u} = {t, u}
      OBVIOUS
    <3> QED
      BY <3>2, <3>3
  <2>3. Cardinality({t, u}) <= Cardinality(Started)
    BY <2>1, FS_Subset
  <2> QED
    BY <1>1, <2>2, <2>3
<1> QED
  BY <1>2 DEF Solo, Started

LEMMA StepStarted == Shape /\ IsFiniteSet(Started) /\ [Next]_vars => IsFiniteSet(Started)'
<1> SUFFICES ASSUME Shape, IsFiniteSet(Started), [Next]_vars PROVE IsFiniteSet(Started')
  OBVIOUS
<1>1. \E t : Started' \subseteq Started \cup {t}
  <2>1. CASE UNCHANGED pc
    BY <2>1 DEF Started
  <2>2. ASSUME NEW a \in Actors, NEW p, Goto(a, p) PROVE \E t : Started' \subseteq Started \cup {t}
    <3>1. Started' \subseteq Started \cup {a}
      BY <2>2 DEF Started, Goto, Shape, TypeOK, Actors
    <3> QED
      BY <3>1
  <2>3. CASE Destroy
    <3>1. Started' \subseteq Started \cup {m_poll_task}
      BY <2>3 DEF Destroy, Started, Actors
    <3> QED
      BY <3>1
  <2>4. ASSUME NEW t \in Tasks, StartPolling(t) \/ TaskStep(t) PROVE UNCHANGED pc \/ \E p : Goto(t, p)
    <3>1. ASSUME NEW g, ReadDone(t, g) PROVE \E p : Goto(t, p)
      BY <3>1 DEF ReadDone
    <3>2. Broken(t) => \E p : Goto(t, p)
      BY DEF Broken
    <3> QED
      BY <2>4, <3>1, <3>2 DEF StartPolling, TaskStep, PollTop, Connect, Connected, ConnectFails,
         Send, Recv, Close, Clear, Retry, Deliver, Delay, ReadFailed
  <2> QED
    BY <2>1, <2>2, <2>3, <2>4 DEF Next, vars, Pause, Resume, Close, Clear, OtherOpens, OtherCloses,
       Settle, Actors
<1>2. PICK t : Started' \subseteq Started \cup {t}
  BY <1>1
<1>3. IsFiniteSet(Started \cup {t})
  BY FS_AddElement
<1> QED
  BY <1>2, <1>3, FS_Subset

LEMMA InitLonely == Init => Lonely /\ IsFiniteSet(Started)
<1> SUFFICES ASSUME Init PROVE Lonely /\ IsFiniteSet(Started)
  OBVIOUS
<1>1. Started = {}
  BY DEF Init, Started, Actors
<1> QED
  BY <1>1, FS_EmptySet DEF Init, Lonely, Started

LEMMA LastAnswer ==
  ASSUME NEW q \in Seq(Tasks), q # <<>>, Len(q) <= 1
  PROVE  Tail(q) = <<>>
<1>1. Len(q) \in Nat /\ Len(q) # 0
  <2>1. Len(q) \in Nat \ {0}
    BY EmptySeq, Zenon
  <2> QED
    BY <2>1
<1>2. Len(q) = 1
  <2>1. \A n \in Nat : n # 0 /\ n <= 1 => n = 1
    OBVIOUS
  <2> QED
    BY <1>1, <2>1, Zenon
<1>3. Tail(q) \in Seq(Tasks) /\ Len(Tail(q)) = Len(q) - 1
  BY HeadTailProperties, Zenon
<1>4. Len(Tail(q)) = 0
  BY <1>2, <1>3
<1> QED
  BY <1>3, <1>4, EmptySeq

\* Steps of the only poll task.
LEMMA TaskLonely ==
  ASSUME Shape, Shape', Solo, Lonely, NEW t \in Tasks, TaskStep(t)
  PROVE  Owing(t)' /\ pc'[t] # "unborn" /\ (pc'[Http] = "freed" => m_sock' = None)
<1>0. /\ t \in Actors /\ Http \in Actors /\ t # Http /\ t # Event
      /\ pc \in [Actors -> Polling \cup {"unborn", "dead", "idle", "freed"}]
      /\ m_sock \in Fds \cup {None} /\ None \notin Fds
      /\ wire \in [Fds -> Seq(Tasks)]
      /\ fd \in [Fds -> {"free", "device", "other"}]
  BY DeviceAssumptions DEF Actors, Shape, TypeOK
<1>1. pc[t] \in Polling
  BY DEF TaskStep, PollTop, Connect, Connected, ConnectFails, Send, Recv, Close, Clear, Retry,
         Deliver, Delay, Polling, Busy
<1>2. Owing(t) /\ Alive /\ m_poll_task = t
  BY <1>1 DEF Lonely, Owing, Polling, Busy
<1>3. ASSUME NEW p, Goto(t, p) PROVE pc'[t] = p /\ pc'[Http] = "idle" /\ Alive'
  BY <1>0, <1>2, <1>3 DEF Goto, Alive
<1>4. ASSUME NEW p \in Polling \ {"connecting", "retry", "clear", "recv"}, Goto(t, p),
             UNCHANGED <<m_sock, m_poll_task, fd, wire>>,
             pc[t] \notin {"recv", "close"} \/ p = "close"
      PROVE  Owing(t)' /\ pc'[t] # "unborn" /\ (pc'[Http] = "freed" => m_sock' = None)
  BY <1>1, <1>2, <1>3, <1>4 DEF Owing, Polling, Busy
<1>5. ASSUME NEW g, ReadDone(t, g) PROVE \E p \in {"connect", "delay", "deliver"} : Goto(t, p)
  BY <1>5 DEF ReadDone
<1>6. ASSUME Broken(t), pc[t] \in {"send", "recv"}, UNCHANGED <<fd, wire>>
      PROVE  Owing(t)' /\ pc'[t] # "unborn" /\ (pc'[Http] = "freed" => m_sock' = None)
  <2>1. PICK p \in {"close", "retry"} : Goto(t, p) /\ (p = "retry" => m_sock = None)
    BY <1>6 DEF Broken
  <2>2. UNCHANGED <<m_sock, m_poll_task>>
    BY <1>6 DEF Broken
  <2> QED
    BY <1>2, <1>3, <1>6, <2>1, <2>2 DEF Owing, Polling, Busy
<1> USE DEF device, locals
<1>7. CASE PollTop(t)
  <2>1. /\ \E p \in {"delay", "connect"} : Goto(t, p)
        /\ pc[t] = "top" /\ UNCHANGED <<m_sock, m_poll_task, fd, wire>>
    BY <1>7 DEF PollTop
  <2> QED
    BY <1>4, <2>1 DEF Polling, Busy
<1>8. CASE Connect(t)
  <2>1. CASE Goto(t, "send") /\ UNCHANGED <<m_sock, m_poll_task, fd>>
    BY <1>4, <1>8, <2>1 DEF Connect, Polling, Busy
  <2>2. CASE ReadFailed(t) /\ UNCHANGED <<m_sock, m_poll_task, fd>>
    BY <1>4, <1>5, <1>8, <2>2 DEF Connect, ReadFailed, Polling, Busy
  <2>3. CASE m_sock = None /\ Goto(t, "connecting") /\ UNCHANGED <<m_sock, m_poll_task>>
    BY <1>2, <1>3, <2>3 DEF Owing
  <2> QED
    BY <1>8, <2>1, <2>2, <2>3 DEF Connect
<1>9. CASE Connected(t)
  <2>1. /\ Goto(t, "send") /\ sock[t] \in Fds /\ m_sock' = sock[t]
        /\ wire' = [wire EXCEPT ![sock[t]] = <<>>] /\ UNCHANGED m_poll_task
    BY <1>9 DEF Connected, Shape, Places
  <2> QED
    BY <1>0, <1>2, <1>3, <2>1 DEF Owing
<1>10. CASE ConnectFails(t)
  <2>1. /\ m_sock = None /\ UNCHANGED <<m_sock, m_poll_task, wire>>
        /\ \E p \in {"connect", "delay", "deliver"} : Goto(t, p)
    BY <1>2, <1>5, <1>10 DEF ConnectFails, ReadFailed, Owing
  <2> QED
    BY <1>2, <1>3, <2>1 DEF Owing
<1>11. CASE Send(t)
  <2>1. ASSUME Usable(m_sock), wire' = [wire EXCEPT ![m_sock] = Append(@, t)], Goto(t, "recv"),
               UNCHANGED device, UNCHANGED fd, pc[t] = "send"
        PROVE  Owing(t)' /\ pc'[t] # "unborn" /\ (pc'[Http] = "freed" => m_sock' = None)
    <3>1. m_sock \in Fds
      BY <1>0, <2>1 DEF Usable
    <3>2. wire[m_sock] \in Seq(Tasks) /\ wire'[m_sock] = Append(wire[m_sock], t)
      BY <1>0, <2>1, <3>1
    <3>3. fd[m_sock] = "device" => wire[m_sock] = <<>>
      BY <1>2, <2>1, <3>1, <1>0 DEF Owing, Polling, Busy
    <3>4. fd[m_sock] = "device" => Len(wire'[m_sock]) <= 1
      BY <3>2, <3>3
    <3> QED
      BY <1>2, <1>3, <2>1, <3>4 DEF Owing
  <2> QED
    BY <1>6, <1>11, <2>1 DEF Send
<1>12. CASE Recv(t)
  <2>1. ASSUME Usable(m_sock), wire[m_sock] # <<>>, wire' = [wire EXCEPT ![m_sock] = Tail(@)],
               NEW g, ReadDone(t, g), UNCHANGED device, UNCHANGED fd, pc[t] = "recv"
        PROVE  Owing(t)' /\ pc'[t] # "unborn" /\ (pc'[Http] = "freed" => m_sock' = None)
    <3>1. m_sock \in Fds
      BY <1>0, <2>1 DEF Usable
    <3>2. wire[m_sock] \in Seq(Tasks) /\ wire'[m_sock] = Tail(wire[m_sock])
      BY <1>0, <2>1, <3>1
    <3>3. fd[m_sock] = "device" => Len(wire[m_sock]) <= 1
      BY <1>0, <1>2, <2>1, <3>1 DEF Owing
    <3>4. fd[m_sock] = "device" => wire'[m_sock] = <<>>
      BY <2>1, <3>2, <3>3, LastAnswer
    <3>5. PICK p \in {"connect", "delay", "deliver"} : Goto(t, p)
      BY <1>5, <2>1
    <3> QED
      BY <1>2, <1>3, <2>1, <3>4, <3>5 DEF Owing
  <2> QED
    BY <1>6, <1>12, <2>1 DEF Recv, ReadFailed
<1>13. CASE Close(t)
  <2>1. /\ Goto(t, "clear") /\ UNCHANGED <<m_sock, m_poll_task>>
        /\ m_sock # None => fd' = [fd EXCEPT ![m_sock] = "free"]
    BY <1>13 DEF Close
  <2>2. m_sock # None => fd'[m_sock] = "free"
    BY <1>0, <2>1
  <2> QED
    BY <1>0, <1>2, <1>3, <2>1, <2>2 DEF Owing
<1>14. CASE Clear(t)
  <2>1. Goto(t, "retry") /\ m_sock' = None /\ UNCHANGED m_poll_task
    <3>1. AfterClose(t) = "retry"
      BY <1>0 DEF AfterClose
    <3> QED
      BY <1>14, <3>1 DEF Clear
  <2> QED
    BY <1>2, <1>3, <2>1 DEF Owing
<1>15. CASE Retry(t)
  <2>1. /\ m_sock = None /\ UNCHANGED <<m_sock, m_poll_task, fd, wire>>
        /\ \E p \in {"connect", "delay", "deliver"} : Goto(t, p)
    BY <1>2, <1>5, <1>15 DEF Retry, ReadFailed, Owing
  <2> QED
    BY <1>2, <1>3, <2>1 DEF Owing
<1>16. CASE Deliver(t) \/ Delay(t)
  BY <1>4, <1>16 DEF Deliver, Delay, Polling, Busy
<1> QED
  BY <1>7, <1>8, <1>9, <1>10, <1>11, <1>12, <1>13, <1>14, <1>15, <1>16 DEF TaskStep

LEMMA StepLonely == Shape /\ Shape' /\ Lonely /\ [Next]_vars => Lonely'
<1> SUFFICES ASSUME Shape, Shape', Lonely, [Next]_vars, Solo' PROVE
      /\ m_sock' # None => \E t \in Tasks : pc'[t] # "unborn"
      /\ \A t \in Tasks : pc'[t] # "unborn" => Owing(t)'
      /\ pc'[Http] = "freed" => m_sock' = None
  BY DEF Lonely
<1>0. /\ Http \in Actors /\ Event \in Actors /\ Http # Event /\ Tasks \subseteq Actors
      /\ Http \notin Tasks /\ Event \notin Tasks
      /\ pc \in [Actors -> Polling \cup {"unborn", "dead", "idle", "freed"}]
      /\ m_sock \in Fds \cup {None} /\ None \notin Fds
      /\ fd \in [Fds -> {"free", "device", "other"}]
      /\ wire \in [Fds -> Seq(Tasks)]
  BY DeviceAssumptions DEF Actors, Shape, TypeOK
<1> USE DEF device, locals
<1>1. ASSUME NEW a \in Actors, NEW p, Goto(a, p), pc[a] # "unborn", p # "unborn", Solo
      PROVE  \A t \in Tasks : pc'[t] # "unborn" <=> pc[t] # "unborn"
  BY <1>0, <1>1 DEF Goto
<1>2. Solo => /\ m_sock # None => \E t \in Tasks : pc[t] # "unborn"
              /\ \A t \in Tasks : pc[t] # "unborn" => Owing(t)
              /\ pc[Http] = "freed" => m_sock = None
  BY DEF Lonely
<1>3. ASSUME NEW t \in Tasks, StartPolling(t)
      PROVE  /\ m_sock' # None => \E u \in Tasks : pc'[u] # "unborn"
             /\ \A u \in Tasks : pc'[u] # "unborn" => Owing(u)'
             /\ pc'[Http] = "freed" => m_sock' = None
  <2>1. /\ Alive /\ pc[t] = "unborn" /\ pc' = [pc EXCEPT ![t] = "top"] /\ m_poll_task' = t
        /\ UNCHANGED <<m_sock, fd, wire>>
    BY <1>3 DEF StartPolling, Goto
  <2>2. pc'[t] = "top" /\ \A u \in Tasks : u # t => pc'[u] = pc[u] /\ pc'[u] = "unborn"
    BY <1>0, <2>1 DEF Solo
  <2>3. \A u \in Tasks : pc[u] = "unborn"
    BY <2>1, <2>2
  <2>4. m_sock = None
    BY <1>2, <2>3 DEF Solo
  <2>5. Owing(t)'
    BY <1>0, <2>1, <2>2, <2>4 DEF Owing, Alive
  <2> QED
    BY <2>1, <2>2, <2>4, <2>5
<1>4. ASSUME NEW t \in Tasks, TaskStep(t)
      PROVE  /\ m_sock' # None => \E u \in Tasks : pc'[u] # "unborn"
             /\ \A u \in Tasks : pc'[u] # "unborn" => Owing(u)'
             /\ pc'[Http] = "freed" => m_sock' = None
  <2>1. \A u \in Tasks : pc[u] # "unborn" => pc'[u] # "unborn"
    <3>1. UNCHANGED pc \/ \E p : Goto(t, p) /\ p # "unborn"
      <4>1. ASSUME NEW g, ReadDone(t, g) PROVE \E p : Goto(t, p) /\ p # "unborn"
        BY <4>1 DEF ReadDone
      <4>2. Broken(t) => \E p : Goto(t, p) /\ p # "unborn"
        BY DEF Broken
      <4>3. AfterClose(t) = "retry"
        BY <1>0 DEF AfterClose
      <4> QED
        BY <1>4, <4>1, <4>2, <4>3 DEF TaskStep, PollTop, Connect, Connected, ConnectFails,
           Send, Recv, Close, Clear, Retry, Deliver, Delay, ReadFailed
    <3> QED
      BY <1>0, <3>1 DEF Goto
  <2>2. Solo
    BY <2>1 DEF Solo
  <2>3. Owing(t)' /\ pc'[t] # "unborn" /\ (pc'[Http] = "freed" => m_sock' = None)
    BY <1>4, <2>2, TaskLonely
  <2> QED
    BY <2>3 DEF Solo
<1>5. ASSUME NEW a \in {Event, Http}, Close(a)
      PROVE  /\ m_sock' # None => \E u \in Tasks : pc'[u] # "unborn"
             /\ \A u \in Tasks : pc'[u] # "unborn" => Owing(u)'
             /\ pc'[Http] = "freed" => m_sock' = None
  <2>1. /\ pc[a] = "close" /\ pc' = [pc EXCEPT ![a] = "clear"] /\ UNCHANGED <<m_sock, m_poll_task>>
        /\ m_sock # None => fd' = [fd EXCEPT ![m_sock] = "free"]
    BY <1>5 DEF Close, Goto
  <2>2. \A t \in Tasks : pc'[t] = pc[t]
    BY <1>0, <2>1
  <2>3. m_sock # None => fd'[m_sock] = "free"
    BY <1>0, <2>1
  <2>4. ((Alive' <=> Alive) /\ pc'[Http] # "freed") \/ pc'[Http] = pc[Http]
    BY <1>0, <2>1 DEF Alive
  <2>5. Alive' <=> Alive
    BY <1>0, <2>1 DEF Alive
  <2>6. Solo
    BY <2>2 DEF Solo
  <2> QED
    BY <1>2, <2>1, <2>2, <2>3, <2>4, <2>5, <2>6 DEF Owing
<1>6. ASSUME NEW a \in {Event, Http}, Clear(a)
      PROVE  /\ m_sock' # None => \E u \in Tasks : pc'[u] # "unborn"
             /\ \A u \in Tasks : pc'[u] # "unborn" => Owing(u)'
             /\ pc'[Http] = "freed" => m_sock' = None
  <2>1. /\ pc[a] = "clear" /\ m_sock' = None /\ UNCHANGED m_poll_task
        /\ \E p \in {"idle", "freed"} : pc' = [pc EXCEPT ![a] = p] /\ (a = Event => p = "idle") /\ (a = Http => p = "freed")
    <3>1. AfterClose(a) = IF a = Event THEN "idle" ELSE "freed"
      BY <1>0 DEF AfterClose
    <3> QED
      BY <1>0, <1>6, <3>1 DEF Clear, Goto
  <2>2. \A t \in Tasks : pc'[t] = pc[t]
    BY <1>0, <2>1
  <2>3. Alive' <=> Alive
    BY <1>0, <2>1 DEF Alive
  <2>4. Solo
    BY <2>2 DEF Solo
  <2> QED
    BY <1>2, <2>1, <2>2, <2>3, <2>4 DEF Owing
<1>7. CASE Pause
  <2>1. /\ UNCHANGED <<m_sock, m_poll_task, fd, wire>>
        /\ UNCHANGED pc \/ pc' = [pc EXCEPT ![Event] = "close"]
    BY <1>7 DEF Pause, Goto
  <2>2. pc'[Http] = pc[Http] /\ \A t \in Tasks : pc'[t] = pc[t]
    BY <1>0, <2>1
  <2>3. Solo
    BY <2>2 DEF Solo
  <2> QED
    BY <1>2, <2>1, <2>2, <2>3 DEF Owing, Alive
<1>8. CASE Destroy
  <2>1. /\ Alive /\ UNCHANGED m_sock /\ m_poll_task' = None
        /\ pc'[Http] \in {"close", "freed"} /\ (pc'[Http] = "freed" => m_sock = None)
        /\ \A t \in Tasks : pc'[t] = IF t = m_poll_task THEN "dead" ELSE pc[t]
    <3>1. Http # m_poll_task
      BY <1>0, DeviceAssumptions DEF Shape, TypeOK
    <3> QED
      BY <1>0, <1>8, <3>1 DEF Destroy, Alive
  <2>2. \A t \in Tasks : pc[t] # "unborn" => pc'[t] # "unborn"
    BY <2>1
  <2>3. Solo
    BY <2>2 DEF Solo
  <2>4. \A t \in Tasks : pc[t] # "unborn" => pc'[t] = "dead"
    BY <1>2, <2>1, <2>3 DEF Owing
  <2>5. \A t \in Tasks : pc[t] = "unborn" => pc'[t] \in {"unborn", "dead"}
    BY <2>1
  <2>6. ~Alive'
    BY <2>1 DEF Alive
  <2>7. \A t \in Tasks : pc'[t] # "unborn" => Owing(t)'
    BY <2>4, <2>5, <2>6 DEF Owing, Polling, Busy
  <2> QED
    BY <1>2, <2>1, <2>2, <2>3, <2>7
<1>9. ASSUME NEW f \in Fds, OtherOpens(f) \/ OtherCloses(f)
      PROVE  /\ m_sock' # None => \E u \in Tasks : pc'[u] # "unborn"
             /\ \A u \in Tasks : pc'[u] # "unborn" => Owing(u)'
             /\ pc'[Http] = "freed" => m_sock' = None
  <2>1. /\ UNCHANGED <<pc, m_sock, m_poll_task, wire>>
        /\ \A g \in Fds : fd'[g] = "device" => fd[g] = "device"
    BY <1>0, <1>9 DEF OtherOpens, OtherCloses
  <2>2. Solo
    BY <2>1 DEF Solo
  <2> QED
    BY <1>0, <1>2, <2>1, <2>2 DEF Owing, Alive
<1>10. CASE Resume \/ Settle \/ UNCHANGED vars
  <2>1. UNCHANGED <<pc, m_sock, m_poll_task, fd, wire>>
    BY <1>10 DEF Resume, Settle, vars
  <2>2. Solo
    BY <2>1 DEF Solo
  <2> QED
    BY <1>2, <2>1, <2>2 DEF Owing, Alive
<1> QED
  BY <1>3, <1>4, <1>5, <1>6, <1>7, <1>8, <1>9, <1>10 DEF Next

LEMMA LonelyInvariance == Spec => [](Lonely /\ IsFiniteSet(Started))
<1>1. Init => Lonely /\ IsFiniteSet(Started)
  BY InitLonely
<1>2. Shape /\ Shape' /\ Lonely /\ IsFiniteSet(Started) /\ [Next]_vars => (Lonely /\ IsFiniteSet(Started))'
  BY StepLonely, StepStarted
<1> QED
  BY <1>1, <1>2, Invariance, PTL DEF Spec

\* With one poll task, no request ever leaves on a connection that owes an
\* answer, whatever failed, timed out, was paused or closed by another task:
\* that send_request does not check the transaction id cannot matter.
THEOREM AnswersMatch == Spec => []NoStaleAnswer
<1>1. ASSUME Shape, Lonely, IsFiniteSet(Started) PROVE NoStaleAnswer
  <2> SUFFICES ASSUME OneTask, NEW t \in Tasks, pc[t] = "send", m_sock # None, fd[m_sock] = "device"
               PROVE  wire[m_sock] = <<>>
    BY DEF NoStaleAnswer
  <2>1. Solo
    BY <1>1, OneTaskSolo
  <2>2. Owing(t)
    BY <1>1, <2>1 DEF Lonely
  <2> QED
    BY <2>2 DEF Owing, Polling, Busy
<1> QED
  BY <1>1, Invariance, LonelyInvariance, PTL

\* After the destructor ended the poll task inside the connection code, and
\* met nobody else there: a descriptor that is still open is m_sock, which the
\* destructor is about to close, or the one the task was opening.
Ended ==
  Solo /\ overlap = {"cut"} =>
    /\ ~Alive
    /\ pc[Event] = "idle"
    /\ \A t \in Tasks : pc[t] \in {"unborn", "dead"}
    /\ \A f \in Fds : fd[f] = "device" =>
         (f = m_sock /\ pc[Http] = "close") \/ LeftOpening(f)

LEMMA BornStays ==
  ASSUME Shape, [Next]_vars, NEW t \in Tasks, pc[t] # "unborn"
  PROVE  pc'[t] # "unborn"
<1>0. /\ Tasks \subseteq Actors /\ Event \in Actors /\ Http \in Actors
      /\ Event \notin Tasks /\ Http \notin Tasks
  BY DeviceAssumptions DEF Actors
<1>1. ASSUME NEW a \in Actors, NEW p, Goto(a, p), p # "unborn"
      PROVE  pc'[t] # "unborn"
  BY <1>0, <1>1 DEF Goto, Shape, TypeOK
<1>2. ASSUME NEW u \in Tasks, StartPolling(u) \/ TaskStep(u)
      PROVE  \E p : Goto(u, p) /\ p # "unborn"
  <2>1. ASSUME NEW g, ReadDone(u, g) PROVE \E p : Goto(u, p) /\ p # "unborn"
    BY <2>1 DEF ReadDone
  <2>2. Broken(u) => \E p : Goto(u, p) /\ p # "unborn"
    BY DEF Broken
  <2>3. AfterClose(u) = "retry"
    BY <1>0 DEF AfterClose
  <2> QED
    BY <1>2, <2>1, <2>2, <2>3 DEF StartPolling, TaskStep, PollTop, Connect, Connected,
       ConnectFails, Send, Recv, Close, Clear, Retry, Deliver, Delay, ReadFailed
<1>3. ASSUME NEW a \in {Event, Http}, Close(a) \/ Clear(a) PROVE UNCHANGED pc[t]
  BY <1>0, <1>3 DEF Close, Clear, Goto, Shape, TypeOK
<1>4. CASE Destroy
  BY <1>0, <1>4 DEF Destroy
<1>5. CASE Pause
  BY <1>0, <1>5 DEF Pause, Goto, Shape, TypeOK
<1>6. CASE UNCHANGED pc
  BY <1>6
<1> QED
  BY <1>0, <1>1, <1>2, <1>3, <1>4, <1>5, <1>6
  DEF Next, vars, Resume, OtherOpens, OtherCloses, Settle

LEMMA StepEnded ==
  Shape /\ Discipline /\ Lonely /\ Ended /\ [Next]_vars => Ended'
<1> SUFFICES ASSUME Shape, Discipline, Lonely, Ended, [Next]_vars, Solo', overlap' = {"cut"}
             PROVE  /\ ~Alive'
                    /\ pc'[Event] = "idle"
                    /\ \A t \in Tasks : pc'[t] \in {"unborn", "dead"}
                    /\ \A f \in Fds : fd'[f] = "device" =>
                         (f = m_sock' /\ pc'[Http] = "close") \/ LeftOpening(f)'
  BY DEF Ended
<1>0. /\ Http \in Actors /\ Event \in Actors /\ Http # Event /\ Tasks \subseteq Actors
      /\ Http \notin Tasks /\ Event \notin Tasks
      /\ pc \in [Actors -> Polling \cup {"unborn", "dead", "idle", "freed"}]
      /\ m_sock \in Fds \cup {None} /\ None \notin Fds
      /\ m_poll_task \in Tasks \cup {None} /\ None \notin Actors
      /\ fd \in [Fds -> {"free", "device", "other"}]
      /\ overlap \subseteq {"met", "cut"}
  BY DeviceAssumptions DEF Actors, Shape, TypeOK
<1>1. overlap \in {{}, {"cut"}}
  <2>1. overlap \subseteq {"cut"}
    BY OverlapStays
  <2> QED
    BY <2>1
<1>2. CASE overlap = {}
  <2>1. Destroy
    <3>1. ASSUME NEW a, Enters(a) PROVE FALSE
      BY <1>2, <3>1 DEF Enters
    <3>2. ASSUME NEW t \in Tasks, StartPolling(t) \/ TaskStep(t) PROVE FALSE
      BY <1>2, <3>1, <3>2 DEF StartPolling, TaskStep, PollTop, Connect, Connected,
         ConnectFails, Send, Recv, Close, Clear, Retry, Deliver, Delay
    <3> QED
      BY <1>2, <3>1, <3>2 DEF Next, vars, Pause, Resume, Close, Clear, OtherOpens,
         OtherCloses, Settle
  <2>2. /\ Alive /\ UNCHANGED <<m_sock, sock, fd>>
        /\ pc'[Http] = IF m_sock # None THEN "close" ELSE "freed"
        /\ \A a \in Actors \ {Http} : pc'[a] = IF a = m_poll_task THEN "dead" ELSE pc[a]
    BY <1>0, <2>1 DEF Destroy, Alive, locals
  <2>3. Solo
    BY <1>0, <2>2 DEF Solo
  <2>4. \A t \in Tasks : pc[t] # "unborn" => t = m_poll_task
    BY <2>2, <2>3 DEF Lonely, Owing
  <2>5. pc[Event] \notin Busy
    BY <1>0, <1>2, <2>1 DEF Destroy, EndsTask, Inside
  <2>6. pc'[Event] = "idle" /\ \A t \in Tasks : pc'[t] \in {"unborn", "dead"}
    BY <1>0, <2>2, <2>4, <2>5 DEF Shape, Places, Busy
  <2>7. ASSUME NEW f \in Fds, fd'[f] = "device", f # m_sock PROVE LeftOpening(f)'
    <3>1. PICK t \in Tasks : pc[t] = "connecting" /\ sock[t] = f
      BY <1>2, <2>2, <2>7 DEF Discipline, Settled, Accounted
    <3> QED
      BY <1>0, <2>2, <2>4, <3>1 DEF LeftOpening
  <2> QED
    BY <1>0, <2>2, <2>6, <2>7 DEF Alive
<1>3. CASE overlap = {"cut"}
  <2>1. /\ ~Alive /\ pc[Event] = "idle"
        /\ \A t \in Tasks : pc[t] \in {"unborn", "dead"}
        /\ \A f \in Fds : fd[f] = "device" =>
             (f = m_sock /\ pc[Http] = "close") \/ LeftOpening(f)
    <3>1. Solo
      BY BornStays DEF Solo
    <3> QED
      BY <1>3, <3>1 DEF Ended
  <2>2. ASSUME NEW t \in Tasks, StartPolling(t) \/ TaskStep(t) PROVE FALSE
    BY <2>1, <2>2 DEF StartPolling, TaskStep, PollTop, Connect, Connected, ConnectFails,
       Send, Recv, Close, Clear, Retry, Deliver, Delay
  <2>3. \/ Close(Http) \/ Clear(Http)
        \/ \E f \in Fds : OtherOpens(f) \/ OtherCloses(f)
        \/ UNCHANGED <<pc, m_sock, sock, fd>>
    BY <1>0, <2>1, <2>2 DEF Next, vars, device, locals, Pause, Resume, Destroy, Close,
           Clear, Settle, Alive
  <2>4. CASE Close(Http)
    <3>1. /\ pc[Http] = "close" /\ pc' = [pc EXCEPT ![Http] = "clear"] /\ UNCHANGED <<m_sock, sock>>
          /\ m_sock # None => fd' = [fd EXCEPT ![m_sock] = "free"]
          /\ m_sock = None => fd' = fd
      BY <2>4 DEF Close, Goto, device, locals
    <3>2. \A f \in Fds : fd'[f] = "device" => fd[f] = "device" /\ f # m_sock
      BY <1>0, <3>1
    <3> QED
      BY <1>0, <2>1, <3>1, <3>2 DEF Alive, LeftOpening
  <2>5. CASE Clear(Http)
    <3>1. /\ pc[Http] = "clear" /\ pc' = [pc EXCEPT ![Http] = "freed"] /\ UNCHANGED <<sock, fd>>
      BY <1>0, <2>5 DEF Clear, Goto, AfterClose, locals
    <3> QED
      BY <1>0, <2>1, <3>1 DEF Alive, LeftOpening
  <2>6. ASSUME NEW f \in Fds, OtherOpens(f) \/ OtherCloses(f)
        PROVE  /\ UNCHANGED <<pc, m_sock, sock>>
               /\ \A g \in Fds : fd'[g] = "device" => fd[g] = "device"
    BY <1>0, <2>6 DEF OtherOpens, OtherCloses, device, locals
  <2>7. CASE \E f \in Fds : OtherOpens(f) \/ OtherCloses(f)
    BY <2>1, <2>6, <2>7 DEF Alive, LeftOpening
  <2>8. CASE UNCHANGED <<pc, m_sock, sock, fd>>
    BY <2>1, <2>8 DEF Alive, LeftOpening
  <2> QED
    BY <2>3, <2>4, <2>5, <2>7, <2>8
<1> QED
  BY <1>1, <1>2, <1>3

LEMMA EndedInvariance == Spec => []Ended
<1>1. Init => Ended
  BY DEF Init, Ended
<1> QED
  BY <1>1, StepEnded, Invariance, LonelyInvariance, PTL DEF Spec

\* Once the destructor has returned, nothing runs on the freed object; and
\* unless a pause met a request or the destructor, no descriptor is left open
\* but the one that the deleted task was waiting to see connected.
THEOREM NothingIsLeft == Spec => []NothingAfterDelete
<1>1. ASSUME Shape, Discipline, Lonely, Ended, IsFiniteSet(Started)
      PROVE  NothingAfterDelete
  <2> SUFFICES ASSUME pc[Http] = "freed", OneTask
               PROVE  /\ Running = {}
                      /\ "met" \notin overlap =>
                           \A f \in Fds : fd[f] = "device" => "cut" \in overlap /\ LeftOpening(f)
    BY DEF NothingAfterDelete
  <2>1. Solo /\ ~Alive /\ m_sock = None
    BY <1>1, OneTaskSolo DEF Lonely, Alive
  <2>2. \A t \in Tasks : pc[t] \in {"unborn", "dead"}
    BY <1>1, <2>1 DEF Lonely, Owing
  <2>3. Running = {}
    BY <2>2 DEF Running, Polling, Busy
  <2>4. ASSUME overlap = {}, NEW f \in Fds, fd[f] = "device" PROVE FALSE
    BY <1>1, <2>1, <2>2, <2>4, DeviceAssumptions DEF Discipline, Settled, Accounted
  <2>5. ASSUME overlap = {"cut"}, NEW f \in Fds, fd[f] = "device" PROVE LeftOpening(f)
    BY <1>1, <2>1, <2>5 DEF Ended
  <2>6. "met" \notin overlap => overlap \in {{}, {"cut"}}
    <3>1. overlap \subseteq {"met", "cut"}
      BY <1>1 DEF Shape, TypeOK
    <3> QED
      BY <3>1
  <2> QED
    BY <2>3, <2>4, <2>5, <2>6
<1> QED
  BY <1>1, Invariance, LonelyInvariance, EndedInvariance, PTL
=============================================================================
