----------------------------- MODULE WebEvents -----------------------------
(***************************************************************************)
(* The commissioning page and the events pushed to it.  The CHIP task      *)
(* opens and closes the commissioning window; when it closes,              *)
(* web_server_notify_ws_event (web_server.cpp) walks a copy of the table   *)
(* of WebSocket clients, s_ws_fds.  The HTTP task, one request at a time,  *)
(* accepts connections, registers clients in that table and answers the    *)
(* page (Commissioning.tsx), which asks for the state of the window when   *)
(* it is told that it closed.                                              *)
(*                                                                         *)
(* Descriptors are reused: a number in the table, or in the copy of it,    *)
(* may stand for another connection by now.  The table is locked for one   *)
(* access at a time, not for the walk.                                     *)
(*                                                                         *)
(* Time passes in ticks, a fraction of a second; it is 0 at power-on.  The *)
(* web server's own note of when the window was opened is a volatile       *)
(* 64-bit integer that one task stores and the other loads as two halves,  *)
(* without a lock; which half comes first, and whether the time is read    *)
(* before it is subtracted from, is up to the build.                       *)
(***************************************************************************)
EXTENDS Integers

CONSTANTS
  Page,         \* the page that is looked at
  Others,       \* other loops of a page that keep a WebSocket open
  Fds,          \* descriptors of the HTTP server
  MaxClients,   \* WS_MAX_CLIENTS
  Second,       \* ticks in a second
  WindowSeconds,\* COMMISSIONING_WINDOW_SECONDS
  Longest,      \* ticks of the longest window somebody else opens
  Word,         \* ticks that the lower half of a time can tell apart
  MaxOpens,     \* bound on the openings of the window
  Scopes,       \* the builds, each with the descriptors in use and the last tick
  None,
  Http,         \* a session that is no WebSocket
  Ghost         \* a WebSocket session whose client is gone

Clients == {Page} \cup Others
Window == WindowSeconds * Second
Halves == {"high", "low"}

ASSUME WebAssumptions ==
  /\ {None, Http, Ghost} \cap (Clients \cup Fds) = {}
  /\ None # Http /\ None # Ghost /\ Http # Ghost
  /\ Page \notin Others
  /\ MaxClients \in Nat /\ MaxOpens \in Nat
  /\ Second \in Nat \ {0} /\ WindowSeconds \in Nat \ {0} /\ Word \in Nat \ {0}
  /\ Longest \in Nat /\ Window <= Longest
  /\ Scopes \subseteq [fds : SUBSET Fds, until : Nat,
                       stores : Halves, loads : Halves, timeFirst : BOOLEAN]
  /\ None \notin Nat /\ None \notin BOOLEAN

VARIABLES
  scope,      \* the build, and the bounds of this behaviour
  now,        \* esp_timer_get_time, from 1
  closes,     \* CHIP: when its timer closes the window, None if it is closed
  opening,    \* a POST's lambda is queued for the CHIP task
  lambda,     \* how far the lambda is that has opened the window
  stamp,      \* the time that it has read
  s_window_open_time_us,
  closed,     \* CommissioningWindowClosed events not handled yet
  opens,      \* number of openings so far
  sess,       \* the sessions of the HTTP server
  s_ws_fds,   \* the slots
  fds,        \* notify: what is left of its copy of the slots
  dead,       \* notify: it is about to clear the slot of the next of them
  asked,      \* the page waits for the answer to a GET
  reading,    \* the GET being answered: the window is open, None if there is none
  tested,     \* it has found s_window_open_time_us above 0
  half,       \* what s_window_open_time_us was when it loaded the first half of it
  value,      \* the whole of it that it subtracts
  clock,      \* the time that it subtracts from
  answers,    \* answers on their way to the page
  shown,      \* the page shows a countdown
  held,       \* history: clients that took a slot and were not failed since
  due,        \* history: clients the notify has still to tell
  quiet,      \* history: descriptors without WebSocket since it began
  sure,       \* history: the page could not have missed a closing
  most,       \* history: the most that was left since the GET began
  since,      \* history: when it began
  stamps,     \* history: all that s_window_open_time_us has been set to
  lag         \* history: from the last opening to the time read for it

time == <<scope, now>>
mark == <<lambda, stamp, s_window_open_time_us>>
window == <<time, closes, opening, mark, closed, opens>>
notify == <<fds, dead>>
get == <<reading, tested, half, value, clock>>
page == <<asked, get, answers, shown>>
record == <<most, since, stamps, lag>>
history == <<held, due, quiet, sure, record>>
vars == <<window, sess, s_ws_fds, notify, page, history>>

Slots == 1..MaxClients
IsWebSocket(f) == sess[f] \in Clients \cup {Ghost}
Connected(c) == \E f \in Fds : sess[f] = c
Registered == {c \in Clients : \E i \in Slots : s_ws_fds[i] # None /\ sess[s_ws_fds[i]] = c}

\* The page has mounted, and asks for the state of the window.
Init ==
  /\ scope \in Scopes /\ now = 1
  /\ closes = None /\ opening = FALSE /\ closed = 0 /\ opens = 0
  /\ lambda = "no" /\ stamp = 0 /\ s_window_open_time_us = 0
  /\ sess = [f \in Fds |-> None]
  /\ s_ws_fds = [i \in Slots |-> None]
  /\ fds = [i \in Slots |-> None] /\ dead = FALSE
  /\ asked = TRUE /\ answers = {} /\ shown = FALSE
  /\ reading = None /\ tested = FALSE /\ half = None /\ value = None /\ clock = None
  /\ held = {} /\ due = {} /\ quiet = {} /\ sure = FALSE
  /\ most = 0 /\ since = 0 /\ stamps = {0} /\ lag = 0

-----------------------------------------------------------------------------
(* The commissioning window, on the CHIP task.                             *)

Told == \A i \in Slots : fds[i] = None

\* The CHIP task does nothing, and the CHIP lock can be had.
Idle == lambda = "no" /\ Told

\* Up to the bound, where time stands still.
Tick ==
  /\ now' = IF now < scope.until THEN now + 1 ELSE now
  /\ UNCHANGED <<scope, closes, opening, mark, closed, opens, sess, s_ws_fds,
                 notify, page, history>>

\* The window opens for this many ticks.
Opens(ticks) ==
  /\ closes' = now + ticks
  /\ most' = IF reading # None /\ ticks > most THEN ticks ELSE most
  /\ lag' = 0

\* The lambda of POST open-commissioning-window: it opens the window, or
\* opens it again, for its full time; or it fails, and the page that has
\* started its countdown is not told.
Open ==
  /\ Idle /\ opening
  /\ opening' = FALSE
  /\ \/ Opens(Window) /\ lambda' = "opened" /\ UNCHANGED sure
     \/ sure' = FALSE /\ UNCHANGED <<closes, most, lag, lambda>>
  /\ UNCHANGED <<time, stamp, s_window_open_time_us, closed, opens, sess, s_ws_fds,
                 notify, page, held, due, quiet, since, stamps>>

Whole(high, low) == Word * high + low
Mixed(u, v) == Whole(u \div Word, v % Word)

\* A 64-bit integer whose first half, by the order of the build, is that of u.
Joined(first, u, v) == IF first = "high" THEN Mixed(u, v) ELSE Mixed(v, u)

\* ... then it reads the time and stores it, one half before the other.
StoreHalf ==
  /\ lambda = "opened" /\ lambda' = "half"
  /\ stamp' = now
  /\ s_window_open_time_us' = Joined(scope.stores, now, s_window_open_time_us)
  /\ stamps' = stamps \cup {now}
  /\ lag' = now - (closes - Window)
  /\ UNCHANGED <<time, closes, opening, closed, opens, sess, s_ws_fds, notify, page,
                 held, due, quiet, sure, most, since>>

StoreRest ==
  /\ lambda = "half" /\ lambda' = "no"
  /\ s_window_open_time_us' = stamp
  /\ stamp' = 0
  /\ UNCHANGED <<time, closes, opening, closed, opens, sess, s_ws_fds,
                 notify, page, history>>

\* The Matter stack at start-up, or an administrator; Window is the shortest
\* time that CHIP opens a window for.
OpenElsewhere ==
  /\ Idle /\ closes = None
  /\ opens < MaxOpens
  /\ opens' = opens + 1
  /\ \E ticks \in Window..Longest : Opens(ticks)
  /\ UNCHANGED <<time, opening, mark, closed, sess, s_ws_fds, notify, page,
                 held, due, quiet, sure, since, stamps>>

\* The timer of the window has run out and the CHIP task comes to it, or
\* commissioning is complete, or an administrator closes the window.
Close ==
  /\ Idle /\ closes # None
  /\ closes' = None
  /\ closed' = closed + 1
  /\ UNCHANGED <<time, opening, mark, opens, sess, s_ws_fds, notify, page, history>>

-----------------------------------------------------------------------------
(* web_server_notify_ws_event, on the CHIP task, which has the CHIP lock.  *)

NotifyStart ==
  /\ Idle /\ closed > 0
  /\ closed' = closed - 1
  /\ fds' = s_ws_fds
  /\ due' = Registered
  /\ quiet' = {f \in Fds : ~IsWebSocket(f)}
  /\ UNCHANGED <<time, closes, opening, mark, opens, sess, s_ws_fds, dead, page, held, sure, record>>

\* The copy is walked in order, without its empty slots.
At(i) == fds[i] # None /\ \A j \in 1..(i - 1) : fds[j] = None
Done(i) == fds' = [fds EXCEPT ![i] = None]

\* Mutant: the page does not know the event.
Ignore == UNCHANGED <<asked, sure>>

Ask ==
  /\ asked' = TRUE
  /\ sure' = (sure /\ reading = None /\ answers = {})

\* The frame is sent: a client that is there gets it, and the page asks.
Send(i) ==
  /\ ~dead /\ At(i)
  /\ IsWebSocket(fds[i])
  /\ due' = due \ {sess[fds[i]]}
  /\ IF sess[fds[i]] = Page THEN Ask ELSE UNCHANGED <<asked, sure>>
  /\ Done(i)
  /\ UNCHANGED <<window, sess, s_ws_fds, dead, get, answers, shown, held, quiet, record>>

\* Mutant: a client that is gone ends the walk.
SkipEnds(i) ==
  /\ ~dead /\ At(i)
  /\ ~IsWebSocket(fds[i])
  /\ dead' = TRUE
  /\ fds' = [j \in Slots |-> IF j = i THEN fds[i] ELSE None]
  /\ UNCHANGED <<window, sess, s_ws_fds, page, history>>

\* httpd_ws_get_fd_info knows no WebSocket under this descriptor.
Skip(i) ==
  /\ ~dead /\ At(i)
  /\ ~IsWebSocket(fds[i])
  /\ dead' = TRUE
  /\ UNCHANGED <<window, sess, s_ws_fds, fds, page, history>>

SendFails(i) ==
  /\ ~dead /\ At(i)
  /\ IsWebSocket(fds[i])
  /\ dead' = TRUE
  /\ held' = held \ {sess[fds[i]]}
  /\ due' = due \ {sess[fds[i]]}
  /\ sure' = (sure /\ sess[fds[i]] # Page)
  /\ UNCHANGED <<window, sess, s_ws_fds, fds, page, quiet, record>>

IsFirst(k, f) == s_ws_fds[k] = f /\ \A j \in 1..(k - 1) : s_ws_fds[j] # f

\* Mutant: every slot with this descriptor is cleared.
ClearSlots(i) ==
  /\ dead /\ At(i)
  /\ s_ws_fds' = [k \in Slots |-> IF s_ws_fds[k] = fds[i] THEN None ELSE s_ws_fds[k]]
  /\ dead' = FALSE
  /\ Done(i)
  /\ UNCHANGED <<window, sess, page, history>>

\* Mutant: no slot is cleared.
ClearNothing(i) ==
  /\ dead /\ At(i)
  /\ dead' = FALSE
  /\ Done(i)
  /\ UNCHANGED <<window, sess, s_ws_fds, page, history>>

\* The first slot with this descriptor, whoever has it now.
ClearSlot(i) ==
  /\ dead /\ At(i)
  /\ s_ws_fds' = [k \in Slots |-> IF IsFirst(k, fds[i]) THEN None ELSE s_ws_fds[k]]
  /\ dead' = FALSE
  /\ Done(i)
  /\ UNCHANGED <<window, sess, page, history>>

-----------------------------------------------------------------------------
(* The HTTP task.  While it answers a GET it does nothing else.            *)

Free == reading = None

Accept(f) ==
  /\ Free
  /\ f \in scope.fds
  /\ sess[f] = None
  /\ sess' = [sess EXCEPT ![f] = Http]
  /\ UNCHANGED <<window, s_ws_fds, notify, page, history>>

\* Mutant: the search for a free slot goes one too far.
RegisterBeyond(c, f) ==
  /\ Free
  /\ sess[f] = Http /\ ~Connected(c)
  /\ sess' = [sess EXCEPT ![f] = c]
  /\ s_ws_fds' =
       IF \E k \in Slots : s_ws_fds[k] = None
       THEN [k \in Slots |-> IF IsFirst(k, None) THEN f ELSE s_ws_fds[k]]
       ELSE [k \in 1..(MaxClients + 1) |-> IF k \in Slots THEN s_ws_fds[k] ELSE f]
  /\ held' = held \cup {c}
  /\ quiet' = quiet \ {f}
  /\ UNCHANGED <<window, notify, page, due, sure, record>>

\* ws_events_handler for the handshake: the first free slot, if there is one.
Register(c, f) ==
  /\ Free
  /\ sess[f] = Http /\ ~Connected(c)
  /\ sess' = [sess EXCEPT ![f] = c]
  /\ s_ws_fds' = [k \in Slots |-> IF IsFirst(k, None) THEN f ELSE s_ws_fds[k]]
  /\ held' = IF \E k \in Slots : s_ws_fds[k] = None THEN held \cup {c} ELSE held
  /\ quiet' = quiet \ {f}
  /\ UNCHANGED <<window, notify, page, due, sure, record>>

\* A client closes its connection or loses it.  The endpoint is registered
\* without control frames, so ws_events_handler never sees a CLOSE frame and
\* the slot stays; the page connects again three seconds later.
Vanish(f) ==
  /\ sess[f] \in Clients
  /\ sess' = [sess EXCEPT ![f] = Ghost]
  /\ held' = held \ {sess[f]}
  /\ due' = due \ {sess[f]}
  /\ sure' = (sure /\ sess[f] # Page)
  /\ UNCHANGED <<window, s_ws_fds, notify, page, quiet, record>>

\* The session is closed, by the least recently used rule at any time.
CloseSession(f) ==
  /\ Free
  /\ sess[f] # None
  /\ sess' = [sess EXCEPT ![f] = None]
  /\ held' = held \ {sess[f]}
  /\ due' = due \ {sess[f]}
  /\ sure' = (sure /\ sess[f] # Page)
  /\ UNCHANGED <<window, s_ws_fds, notify, page, quiet, record>>

\* What is left of the window by CHIP's timer, even if the timer is overdue.
Left == IF closes # None /\ closes > now THEN closes - now ELSE 0

\* matter_pairing_handler: first the window, under the CHIP lock ...
GetWindow ==
  /\ Free /\ asked
  /\ Idle
  /\ asked' = FALSE
  /\ reading' = (closes # None)
  /\ most' = Left
  /\ since' = now
  /\ UNCHANGED <<window, sess, s_ws_fds, notify, tested, half, value, clock, answers,
                 shown, held, due, quiet, sure, stamps, lag>>

\* ... then, without it and if the window was open, s_window_open_time_us is
\* loaded, one half before the other, first to see whether it is above 0 and
\* then to subtract it ...
LoadHalf ==
  /\ reading = TRUE /\ half = None /\ value = None
  /\ tested /\ scope.timeFirst => clock # None
  /\ half' = s_window_open_time_us
  /\ UNCHANGED <<window, sess, s_ws_fds, notify, asked, reading, tested, value, clock,
                 answers, shown, history>>

Loaded == Joined(scope.loads, half, s_window_open_time_us)

LoadRest ==
  /\ reading = TRUE /\ half # None
  /\ half' = None
  /\ IF tested THEN value' = Loaded /\ UNCHANGED <<tested, reading>>
     ELSE tested' = (Loaded > 0) /\ reading' = (Loaded > 0) /\ UNCHANGED value
  /\ UNCHANGED <<window, sess, s_ws_fds, notify, asked, clock, answers, shown, history>>

\* ... from the time, which is read before it or after it.
ReadClock ==
  /\ reading = TRUE /\ tested /\ half = None /\ clock = None
  /\ scope.timeFirst <=> value = None
  /\ clock' = now
  /\ UNCHANGED <<window, sess, s_ws_fds, notify, asked, reading, tested, half, value,
                 answers, shown, history>>

\* A difference of times in seconds, as C divides: towards zero.
Seconds(ticks) == IF ticks >= 0 THEN ticks \div Second ELSE -((-ticks) \div Second)

\* Mutant: whether the window is open is not asked.
RemainingByClock ==
  LET remaining == WindowSeconds - Seconds(now - s_window_open_time_us)
  IN  IF s_window_open_time_us > 0 /\ remaining > 0 THEN remaining ELSE 0

Remaining ==
  LET remaining == WindowSeconds - Seconds(clock - value)
  IN  IF reading = TRUE /\ remaining > 0 THEN remaining ELSE 0

Answer ==
  /\ reading = FALSE \/ (reading = TRUE /\ value # None /\ clock # None)
  /\ answers' = answers \cup {Remaining > 0}
  /\ reading' = None /\ tested' = FALSE /\ value' = None /\ clock' = None
  /\ sure' = (Page \in held /\ answers = {})
  /\ most' = 0 /\ since' = 0
  /\ UNCHANGED <<window, sess, s_ws_fds, notify, half, asked, shown, held, due, quiet,
                 stamps, lag>>

\* matter_open_window_handler answers before the window is opened.
PostOpen ==
  /\ Free /\ ~opening
  /\ opens < MaxOpens
  /\ opens' = opens + 1
  /\ opening' = TRUE
  /\ answers' = answers \cup {TRUE}
  /\ sure' = (Page \in held /\ answers = {} /\ ~asked)
  /\ UNCHANGED <<time, closes, mark, closed, sess, s_ws_fds, notify, asked, get, shown,
                 held, due, quiet, record>>

-----------------------------------------------------------------------------
(* The page.  Answers come over several connections, in any order.         *)

Show(a) ==
  /\ a \in answers
  /\ answers' = answers \ {a}
  /\ shown' = a
  /\ UNCHANGED <<window, sess, s_ws_fds, notify, asked, get, history>>

\* An answer is lost: the page shows an error beside what it showed before.
Lose(a) ==
  /\ a \in answers
  /\ answers' = answers \ {a}
  /\ sure' = FALSE
  /\ UNCHANGED <<window, sess, s_ws_fds, notify, asked, get, shown, held, due, quiet, record>>

\* The countdown runs out.
Expire ==
  /\ shown
  /\ shown' = FALSE
  /\ UNCHANGED <<window, sess, s_ws_fds, notify, asked, get, answers, history>>

NotifyStep ==
  \/ NotifyStart
  \/ \E i \in Slots : Send(i) \/ Skip(i) \/ SendFails(i) \/ ClearSlot(i)

LambdaStep == Open \/ StoreHalf \/ StoreRest
GetStep == LoadHalf \/ LoadRest \/ ReadClock \/ Answer

Next ==
  \/ Tick \/ LambdaStep \/ OpenElsewhere \/ Close
  \/ NotifyStep
  \/ \E f \in Fds : Accept(f) \/ Vanish(f) \/ CloseSession(f)
  \/ \E c \in Clients, f \in Fds : Register(c, f)
  \/ GetWindow \/ GetStep \/ PostOpen
  \/ \E a \in BOOLEAN : Show(a) \/ Lose(a)
  \/ Expire

Spec == Init /\ [][Next]_vars

\* Both tasks run, and requests are answered; nobody has to close, reopen or
\* look at anything, and the countdown is not what the page relies on.
Fairness ==
  /\ WF_vars(LambdaStep \/ NotifyStep)
  /\ SF_vars(GetWindow)
  /\ WF_vars(GetStep)
  /\ WF_vars(\E a \in BOOLEAN : Show(a) \/ Lose(a))

FairSpec == Spec /\ Fairness

-----------------------------------------------------------------------------
(* Correctness.                                                            *)

TypeOK ==
  /\ scope \in Scopes /\ now \in Nat
  /\ closes \in Nat \cup {None} /\ (lambda # "no" => closes # None)
  /\ lambda \in {"no", "opened", "half"}
  /\ stamp \in Nat /\ s_window_open_time_us \in Nat
  /\ opening \in BOOLEAN
  /\ closed \in Nat
  /\ opens \in 0..MaxOpens
  /\ sess \in [Fds -> Clients \cup {None, Http, Ghost}]
  /\ s_ws_fds \in [Slots -> Fds \cup {None}]
  /\ fds \in [Slots -> Fds \cup {None}]
  /\ dead \in BOOLEAN /\ (dead => ~Told)
  /\ asked \in BOOLEAN
  /\ reading \in BOOLEAN \cup {None} /\ tested \in BOOLEAN
  /\ half \in Nat \cup {None}
  /\ value \in Nat \cup {None} /\ clock \in Nat \cup {None}
  /\ answers \subseteq BOOLEAN
  /\ shown \in BOOLEAN
  /\ held \subseteq Clients
  /\ due \subseteq Clients
  /\ quiet \subseteq Fds
  /\ sure \in BOOLEAN
  /\ most \in Nat /\ since \in Nat /\ stamps \subseteq Nat /\ lag \in Int

\* A client that took a slot keeps one for as long as it is connected and no
\* send to it has failed, although slots are cleared by a descriptor number
\* that was read earlier and may have come to mean this client since.
RegistrationsSurvive == held \subseteq Registered

\* Every client that was registered when the notify began is told, or its
\* connection failed meanwhile: whatever dead slots come before its own.
RegisteredClientsAreTold == Told => due = {}

Ending == ~Told /\ Told'

\* The only way a slot comes back: a notify clears those whose descriptor had
\* no WebSocket since it began.  The slot of a session whose client is gone
\* stays for as long as sending to it succeeds.
SlotsComeBack ==
  [][Ending => \A i \in Slots : s_ws_fds'[i] \notin quiet']_vars

\* Halves of two different opening times make the one that is subtracted.
Torn == value # None /\ value \notin stamps

\* A page is never promised more time than was left at some moment while its
\* GET was answered, but for the second to which the elapsed time is rounded
\* down and for one of two delays: from the opening to the time that is read
\* for it, or that of the GET itself.  So it is although the opening time is
\* loaded after the lock was released, is not reset by a close, and is not set
\* when somebody else opens; only a torn one may promise any time.
CountdownNeverOverpromises ==
  [][reading # None /\ reading' = None /\ ~Torn =>
       \E delay \in {lag, now - since} : Remaining * Second < most + Second + delay]_vars

\* A window that closes early is shown closed, without waiting for the
\* countdown, to a page that had its slot when its last answer was made, kept
\* its connection and had no other request under way.
ClosedWindowIsShownClosed == <>[](sure /\ closes = None) => <>[]~shown
=============================================================================
