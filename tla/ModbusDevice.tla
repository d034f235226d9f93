---------------------------- MODULE ModbusDevice ----------------------------
(***************************************************************************)
(* One polled Modbus TCP device, src/firmware/main/modbus_device.cpp: the  *)
(* poll task that start_polling creates, the socket it opens lazily, and   *)
(* the two other tasks that reach into the object without a lock: the      *)
(* event loop (pause and resume on an Ethernet link event) and the HTTP    *)
(* server (the destructor).                                                *)
(*                                                                         *)
(* Socket descriptors are the small numbers of the lwIP socket table; the  *)
(* HTTP server and the other devices draw from the same table, so a number *)
(* that was closed here may belong to somebody else a moment later.        *)
(***************************************************************************)
EXTENDS Naturals, FiniteSets, Sequences

CONSTANTS
  Tasks,          \* poll tasks: one for each call of start_polling
  Event,          \* the event-loop task
  Http,           \* the HTTP server task, which deletes devices
  Fds,            \* the socket table
  None,           \* m_sock = -1, a null task handle
  Readable,       \* register groups of 1..125 registers, see read_group
  MaxOthers,      \* descriptors the rest of the firmware has open at once
  MaxLinkEvents   \* bound on Ethernet link events

ASSUME DeviceAssumptions ==
  /\ Event \notin Tasks
  /\ Http \notin Tasks \cup {Event}
  /\ None \notin Fds
  /\ Readable \subseteq {"input", "holding"}
  /\ None \notin Tasks \cup {Event, Http}
  /\ MaxOthers \in Nat
  /\ MaxLinkEvents \in Nat

VARIABLES
  m_sock,         \* the connection, or None
  m_state,        \* ModbusConnectionState
  m_paused,
  m_poll_task,    \* the task the destructor will delete
  pc,             \* where each actor is
  group,          \* per poll task: the group being read
  attempt,        \* per poll task: the attempt of send_request
  sock,           \* per poll task: ensure_connected's local descriptor
  got,            \* per poll task: groups whose values are in readings
  fd,             \* the socket table: free, or who opened the descriptor
  wire,           \* per descriptor: requests that are not answered yet
  links,          \* number of link events so far
  calm,           \* environment: from now on nothing fails or interferes
  foreign,        \* history: somebody else's descriptor was used or closed
  overlap         \* history: "met" once two actors were inside the connection
                  \* at once, "cut" once the destructor ended a task there

device == <<m_sock, m_state, m_paused, m_poll_task>>
locals == <<group, attempt, sock, got>>
vars == <<device, pc, locals, fd, wire, links, calm, foreign, overlap>>

Actors == Tasks \cup {Event, Http}

\* Program points inside the connection code; the others only use locals.
Busy == {"connect", "connecting", "send", "recv", "close", "clear"}
Polling == {"top", "deliver", "delay", "retry"} \cup Busy

Inside(p) == {a \in Actors : p[a] \in Busy}
Running == {t \in Tasks : pc[t] \in Polling}
Started == {t \in Tasks : pc[t] # "unborn"}

\* The history of an actor going in while another one is there.
Enters(a) == overlap' = IF Inside(pc) \ {a} = {} THEN overlap ELSE overlap \cup {"met"}

\* The history of the destructor, which ends one of the others.
EndsTask(t) ==
  overlap' = overlap \cup (IF Inside(pc) \ {t} = {} THEN {} ELSE {"met"})
                     \cup (IF t \in Inside(pc) THEN {"cut"} ELSE {})

Goto(a, p) == pc' = [pc EXCEPT ![a] = p]

Init ==
  /\ m_sock = None
  /\ m_state = "Disconnected"
  /\ m_paused = FALSE
  /\ m_poll_task = None
  /\ pc = [a \in Actors |-> IF a \in Tasks THEN "unborn" ELSE "idle"]
  /\ group = [t \in Tasks |-> "input"]
  /\ attempt = [t \in Tasks |-> 0]
  /\ sock = [t \in Tasks |-> None]
  /\ got = [t \in Tasks |-> {}]
  /\ fd = [f \in Fds |-> "free"]
  /\ wire = [f \in Fds |-> <<>>]
  /\ links = 0
  /\ calm = FALSE
  /\ foreign = FALSE
  /\ overlap = {}

-----------------------------------------------------------------------------
(* The poll task.                                                          *)

Alive == pc[Http] = "idle"

StartPolling(t) ==
  /\ Alive
  /\ pc[t] = "unborn"
  /\ Goto(t, "top")
  /\ m_poll_task' = t
  /\ UNCHANGED <<m_sock, m_state, m_paused, locals, fd, wire, links, calm, foreign, overlap>>

First == IF "input" \in Readable THEN "input" ELSE "holding"

\* Mutant: the loop does not look at m_paused.
PollTopUnpaused(t) ==
  /\ pc[t] = "top"
  /\ IF Readable = {}
     THEN Goto(t, "delay") /\ UNCHANGED <<group, attempt, overlap>>
     ELSE /\ Goto(t, "connect")
          /\ Enters(t)
          /\ group' = [group EXCEPT ![t] = First]
          /\ attempt' = [attempt EXCEPT ![t] = 0]
  /\ got' = [got EXCEPT ![t] = {}]
  /\ UNCHANGED <<device, sock, fd, wire, links, calm, foreign>>

\* The loop head: the only place that looks at m_paused.
PollTop(t) ==
  /\ pc[t] = "top"
  /\ IF m_paused \/ Readable = {}
     THEN Goto(t, "delay") /\ UNCHANGED <<group, attempt, overlap>>
     ELSE /\ Goto(t, "connect")
          /\ Enters(t)
          /\ group' = [group EXCEPT ![t] = First]
          /\ attempt' = [attempt EXCEPT ![t] = 0]
  /\ got' = [got EXCEPT ![t] = {}]
  /\ UNCHANGED <<device, sock, fd, wire, links, calm, foreign>>

\* read_group returns: on to the holding registers, or to the callback.
ReadDone(t, groups) ==
  /\ got' = [got EXCEPT ![t] = groups]
  /\ IF group[t] = "input" /\ "holding" \in Readable
     THEN /\ group' = [group EXCEPT ![t] = "holding"]
          /\ attempt' = [attempt EXCEPT ![t] = 0]
          /\ Goto(t, "connect")
     ELSE /\ Goto(t, IF groups = {} THEN "delay" ELSE "deliver")
          /\ UNCHANGED <<group, attempt>>

ReadFailed(t) == ReadDone(t, got[t])

\* ensure_connected: reuse the socket, fail early, or open a descriptor.
Connect(t) ==
  /\ pc[t] = "connect"
  /\ \/ /\ m_sock # None
        /\ Goto(t, "send")
        /\ UNCHANGED <<device, locals, fd>>
     \/ /\ m_sock = None
        /\ calm => \A f \in Fds : fd[f] # "free"     \* DNS or socket() fails
        /\ m_state' = "Failed"
        /\ ReadFailed(t)
        /\ UNCHANGED <<m_sock, m_paused, m_poll_task, sock, fd>>
     \/ /\ m_sock = None
        /\ \E f \in Fds :
             /\ fd[f] = "free"
             /\ fd' = [fd EXCEPT ![f] = "device"]
             /\ sock' = [sock EXCEPT ![t] = f]
        /\ Goto(t, "connecting")
        /\ UNCHANGED <<device, group, attempt, got>>
  /\ UNCHANGED <<wire, links, calm, foreign, overlap>>

\* The bounded connect ends: the socket is installed, or closed again.
Connected(t) ==
  /\ pc[t] = "connecting"
  /\ m_sock' = sock[t]
  /\ m_state' = "Connected"
  /\ sock' = [sock EXCEPT ![t] = None]
  /\ wire' = [wire EXCEPT ![sock[t]] = <<>>]
  /\ Goto(t, "send")
  /\ UNCHANGED <<m_paused, m_poll_task, group, attempt, got, fd, links, calm, foreign, overlap>>

\* Mutant: a failed connect does not close the new descriptor.
ConnectFailsOpen(t) ==
  /\ pc[t] = "connecting"
  /\ ~calm
  /\ sock' = [sock EXCEPT ![t] = None]
  /\ m_state' = "Failed"
  /\ ReadFailed(t)
  /\ UNCHANGED <<m_sock, m_paused, m_poll_task, fd, wire, links, calm, foreign, overlap>>

ConnectFails(t) ==
  /\ pc[t] = "connecting"
  /\ ~calm
  /\ fd' = [fd EXCEPT ![sock[t]] = "free"]
  /\ sock' = [sock EXCEPT ![t] = None]
  /\ m_state' = "Failed"
  /\ ReadFailed(t)
  /\ UNCHANGED <<m_sock, m_paused, m_poll_task, wire, links, calm, foreign, overlap>>

\* Mutant: an error keeps the connection for the next attempt.
BrokenKeepsSocket(t) ==
  /\ Goto(t, "retry")
  /\ UNCHANGED device

\* A send or recv error: close_socket looks at m_sock first.
Broken(t) ==
  /\ Goto(t, IF m_sock # None THEN "close" ELSE "retry")
  /\ m_state' = IF m_sock # None THEN m_state ELSE "Disconnected"
  /\ UNCHANGED <<m_sock, m_paused, m_poll_task>>

Usable(f) == f # None /\ fd[f] # "free"
Answered == Usable(m_sock) /\ wire[m_sock] # <<>>
Touches(f) == foreign' = (foreign \/ (f # None /\ fd[f] = "other"))

\* send: the request leaves on whatever descriptor m_sock holds now.
Send(t) ==
  /\ pc[t] = "send"
  /\ \/ /\ Usable(m_sock)
        /\ wire' = [wire EXCEPT ![m_sock] = Append(@, t)]
        /\ Goto(t, "recv")
        /\ UNCHANGED device
     \/ /\ calm => ~Usable(m_sock)
        /\ Broken(t)
        /\ UNCHANGED wire
  /\ Touches(m_sock)
  /\ UNCHANGED <<locals, fd, links, calm, overlap>>

\* recv: the oldest answer on the connection, values or an exception; or a
\* timeout, a reset, a partial answer, which all count as an error.
Recv(t) ==
  /\ pc[t] = "recv"
  /\ \/ /\ Usable(m_sock) /\ wire[m_sock] # <<>>
        /\ wire' = [wire EXCEPT ![m_sock] = Tail(@)]
        /\ \/ ReadDone(t, got[t] \cup {group[t]})
           \/ ~calm /\ ReadFailed(t)
        /\ UNCHANGED <<device, sock>>
     \/ /\ calm => ~Answered
        /\ Broken(t)
        /\ UNCHANGED <<wire, locals>>
  /\ Touches(m_sock)
  /\ UNCHANGED <<fd, links, calm, overlap>>

\* Mutant: one attempt too many.
RetryTwice(t) ==
  /\ pc[t] = "retry"
  /\ IF attempt[t] <= 1
     THEN /\ attempt' = [attempt EXCEPT ![t] = @ + 1]
          /\ Goto(t, "connect")
          /\ UNCHANGED <<group, got>>
     ELSE ReadFailed(t)
  /\ Enters(t)
  /\ UNCHANGED <<device, sock, fd, wire, links, calm, foreign>>

\* After close_socket: one more attempt, a second later, then give up.
Retry(t) ==
  /\ pc[t] = "retry"
  /\ IF attempt[t] = 0
     THEN /\ attempt' = [attempt EXCEPT ![t] = 1]
          /\ Goto(t, "connect")
          /\ UNCHANGED <<group, got>>
     ELSE ReadFailed(t)
  /\ Enters(t)
  /\ UNCHANGED <<device, sock, fd, wire, links, calm, foreign>>

\* The readings callback returns.
Deliver(t) ==
  /\ pc[t] = "deliver"
  /\ Goto(t, "delay")
  /\ UNCHANGED <<device, locals, fd, wire, links, calm, foreign, overlap>>

\* vTaskDelay(POLL_INTERVAL_MS) elapses.
Delay(t) ==
  /\ pc[t] = "delay"
  /\ Goto(t, "top")
  /\ UNCHANGED <<device, locals, fd, wire, links, calm, foreign, overlap>>

-----------------------------------------------------------------------------
(* close_socket, by any actor: test m_sock (in the step before), close it, *)
(* clear it.  Nothing keeps the three together.                            *)

Close(a) ==
  /\ pc[a] = "close"
  /\ IF m_sock # None
     THEN /\ fd' = [fd EXCEPT ![m_sock] = "free"]
          /\ wire' = [wire EXCEPT ![m_sock] = <<>>]
     ELSE UNCHANGED <<fd, wire>>
  /\ Touches(m_sock)
  /\ Goto(a, "clear")
  /\ UNCHANGED <<device, locals, links, calm, overlap>>

AfterClose(a) ==
  CASE a \in Tasks -> "retry"
    [] a = Event   -> "idle"
    [] a = Http    -> "freed"

\* Mutant: close_socket does not forget the descriptor.
ClearKeepsNumber(a) ==
  /\ pc[a] = "clear"
  /\ m_state' = "Disconnected"
  /\ Goto(a, AfterClose(a))
  /\ UNCHANGED <<m_sock, m_paused, m_poll_task, locals, fd, wire, links, calm, foreign, overlap>>

Clear(a) ==
  /\ pc[a] = "clear"
  /\ m_sock' = None
  /\ m_state' = "Disconnected"
  /\ Goto(a, AfterClose(a))
  /\ UNCHANGED <<m_paused, m_poll_task, locals, fd, wire, links, calm, foreign, overlap>>

-----------------------------------------------------------------------------
(* The event loop: eth_event_handler calls pause or resume.                *)

Pause ==
  /\ pc[Event] = "idle" /\ Alive
  /\ ~calm /\ links < MaxLinkEvents
  /\ links' = links + 1
  /\ m_paused' = TRUE
  /\ IF m_sock # None
     THEN Goto(Event, "close") /\ Enters(Event) /\ UNCHANGED m_state
     ELSE m_state' = "Disconnected" /\ UNCHANGED <<pc, overlap>>
  /\ UNCHANGED <<m_sock, m_poll_task, locals, fd, wire, calm, foreign>>

Resume ==
  /\ pc[Event] = "idle" /\ Alive
  /\ ~calm /\ links < MaxLinkEvents
  /\ links' = links + 1
  /\ m_paused' = FALSE
  /\ UNCHANGED <<m_sock, m_state, m_poll_task, pc, locals, fd, wire, calm, foreign, overlap>>

-----------------------------------------------------------------------------
(* The HTTP server deletes the object.                                     *)

\* Mutant: the destructor only closes the socket.
DestroyKeepsTask ==
  /\ pc[Http] = "idle"
  /\ ~calm
  /\ pc' = [pc EXCEPT ![Http] = IF m_sock # None THEN "close" ELSE "freed"]
  /\ m_poll_task' = None
  /\ m_state' = IF m_sock # None THEN m_state ELSE "Disconnected"
  /\ Enters(Http)
  /\ UNCHANGED <<m_sock, m_paused, locals, fd, wire, links, calm, foreign>>

\* vTaskDelete(m_poll_task): the task that start_polling was last called for
\* disappears wherever it is; then close_socket looks at m_sock.
Destroy ==
  /\ pc[Http] = "idle"
  /\ ~calm
  /\ pc' = [a \in Actors |->
       IF a = m_poll_task THEN "dead"
       ELSE IF a = Http THEN IF m_sock # None THEN "close" ELSE "freed"
       ELSE pc[a]]
  /\ m_poll_task' = None
  /\ m_state' = IF m_sock # None THEN m_state ELSE "Disconnected"
  /\ EndsTask(m_poll_task)
  /\ UNCHANGED <<m_sock, m_paused, locals, fd, wire, links, calm, foreign>>

-----------------------------------------------------------------------------
(* The rest of the firmware and the network.                               *)

OtherOpens(f) ==
  /\ ~calm
  /\ fd[f] = "free"
  /\ Cardinality({g \in Fds : fd[g] = "other"}) < MaxOthers
  /\ fd' = [fd EXCEPT ![f] = "other"]
  /\ UNCHANGED <<device, pc, locals, wire, links, calm, foreign, overlap>>

OtherCloses(f) ==
  /\ fd[f] = "other"
  /\ fd' = [fd EXCEPT ![f] = "free"]
  /\ UNCHANGED <<device, pc, locals, wire, links, calm, foreign, overlap>>

\* The environment settles: link events, failures and rivals stop.
Settle ==
  /\ ~calm
  /\ calm' = TRUE
  /\ UNCHANGED <<device, pc, locals, fd, wire, links, foreign, overlap>>

TaskStep(t) ==
  \/ PollTop(t) \/ Connect(t) \/ Connected(t) \/ ConnectFails(t)
  \/ Send(t) \/ Recv(t) \/ Close(t) \/ Clear(t) \/ Retry(t)
  \/ Deliver(t) \/ Delay(t)

Next ==
  \/ \E t \in Tasks : StartPolling(t) \/ TaskStep(t)
  \/ Pause \/ Resume \/ Close(Event) \/ Clear(Event)
  \/ Destroy \/ Close(Http) \/ Clear(Http)
  \/ \E f \in Fds : OtherOpens(f) \/ OtherCloses(f)
  \/ Settle

Spec == Init /\ [][Next]_vars

\* The scheduler runs every task that can run; blocking calls have timeouts.
Fairness ==
  /\ \A t \in Tasks : WF_vars(TaskStep(t))
  /\ \A a \in {Event, Http} : WF_vars(Close(a) \/ Clear(a))

FairSpec == Spec /\ Fairness

-----------------------------------------------------------------------------
(* Correctness.                                                            *)

TypeOK ==
  /\ m_sock \in Fds \cup {None}
  /\ m_state \in {"Disconnected", "Connected", "Failed"}
  /\ m_paused \in BOOLEAN
  /\ m_poll_task \in Tasks \cup {None}
  /\ pc \in [Actors -> Polling \cup {"unborn", "dead", "idle", "freed"}]
  /\ group \in [Tasks -> {"input", "holding"}]
  /\ attempt \in [Tasks -> 0..1]
  /\ sock \in [Tasks -> Fds \cup {None}]
  /\ got \in [Tasks -> SUBSET {"input", "holding"}]
  /\ fd \in [Fds -> {"free", "device", "other"}]
  /\ wire \in [Fds -> Seq(Tasks)]
  /\ links \in 0..MaxLinkEvents
  /\ calm \in BOOLEAN
  /\ foreign \in BOOLEAN
  /\ overlap \subseteq {"met", "cut"}

OneTask == Cardinality(Started) <= 1

\* send_request never checks the transaction id of an answer.  With one poll
\* task it need not: whatever failed, timed out or was paused before, a
\* request only ever leaves on a connection that owes no answer.
NoStaleAnswer ==
  OneTask => \A t \in Tasks :
    pc[t] = "send" /\ m_sock # None /\ fd[m_sock] = "device" => wire[m_sock] = <<>>

\* Unless two actors met inside the connection code or the destructor ended a
\* task there, every descriptor the device has opened is still reachable: it is
\* m_sock, or the local of the ensure_connected that is waiting for it.
DescriptorsAccountedFor ==
  overlap = {} => \A f \in Fds : fd[f] = "device" =>
    f = m_sock \/ \E t \in Tasks : pc[t] = "connecting" /\ sock[t] = f

\* Under the same condition the device never reads, writes or closes a
\* descriptor that belongs to somebody else.
OwnDescriptorsOnly == overlap = {} => ~foreign

LeftOpening(f) == \E t \in Tasks : pc[t] = "dead" /\ sock[t] = f

\* Once the destructor has returned, and if start_polling was called once, no
\* poll task runs on the freed object.  Wherever the task was deleted, its
\* connection is closed, with one exception: a descriptor that it had opened
\* and was still waiting to be connected, which only the task knew, stays open
\* for ever.  (Nothing is said of descriptors where a pause ran into a request
\* or into the destructor.)
NothingAfterDelete ==
  pc[Http] = "freed" /\ OneTask =>
    /\ Running = {}
    /\ "met" \notin overlap =>
         \A f \in Fds : fd[f] = "device" => "cut" \in overlap /\ LeftOpening(f)

\* A pause that lasts stops the traffic: the poll cycle that was under way
\* ends, its retry included, and no other one starts.
PauseTakesHold ==
  \A t \in Tasks : <>[]m_paused => <>[](pc[t] \notin Busy)

\* Nothing that happened before - failed connections, timeouts, pauses -
\* keeps a device whose link is up and whose server answers from delivering
\* readings again and again.
Healthy(t) == calm /\ ~m_paused /\ overlap = {} /\ pc[t] \in Polling

ReadingsKeepFlowing ==
  \A t \in Tasks : Readable # {} /\ <>[]Healthy(t) => []<>(pc[t] = "deliver")
=============================================================================
