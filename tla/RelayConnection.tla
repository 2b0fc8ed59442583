--------------------------- MODULE RelayConnection ---------------------------
(***************************************************************************)
(* One RelayConnection: the sockets it opens one after another, the promise  *)
(* its calls wait for, and the publishes, queries and live subscriptions      *)
(* that outlive a socket.                                                    *)
(*                                                                         *)
(* An action is one task of the event loop: a call by the owner, a socket    *)
(* event or a timer, with the continuations it releases (they run before the *)
(* next task).  `error' and `close' of a socket that never opened are        *)
(* dispatched together.  The owner uses the connection, closes it, and at    *)
(* most once publishes a courtesy event afterwards (Nip46Client).            *)
(***************************************************************************)
EXTENDS Naturals, FiniteSets

CONSTANTS
  Publish,     \* calls of publish(), each of an event of its own
  Query,       \* calls of queryOnce()
  Live,        \* calls of subscribeLive()
  Courtesy,    \* the publishes made after close()
  MaxSocket    \* bound: sockets one connection opens

Call   == Publish \cup Query \cup Live
Socket == 1..MaxSocket
None   == 0

\* An open socket, to a relay that answers or to one that never says a word.
Up == {"open", "silent"}

ASSUME CallAssumption ==
  /\ MaxSocket \in Nat
  /\ Courtesy \subseteq Publish
  /\ Publish \cap Query = {}
  /\ Live \cap (Publish \cup Query) = {}

VARIABLES
  sock,      \* the state of each socket; "unused" until it is created
  heard,     \* heard[s]: the calls whose EVENT or open REQ the relay has from s
  ws,        \* this.ws
  promise,   \* this.connectPromise: the socket it belongs to
  settled,   \* how the promise of each socket was settled; "pending" while its timer runs
  subs,      \* this.subs
  pending,   \* this.pendingPublishes
  alarm,     \* the calls whose own timer runs
  call,      \* how far each call is
  on,        \* on[c]: the socket whose promise c awaits
  outcome,   \* how a call ended
  owner      \* "using", "closed", "courtesy" or "finished"

wire  == <<sock, heard, settled>>
calls == <<call, on, outcome>>
vars  == <<sock, heard, ws, promise, settled, subs, pending, alarm, call, on, outcome, owner>>

TypeOK ==
  /\ sock \in [Socket -> {"unused", "connecting", "closing", "closed"} \cup Up]
  /\ heard \in [Socket -> SUBSET Call]
  /\ ws \in Socket \cup {None}
  /\ promise \in Socket \cup {None}
  /\ settled \in [Socket -> {"pending", "opened", "failed"}]
  /\ subs \subseteq Query \cup Live
  /\ pending \subseteq Publish
  /\ alarm \subseteq Publish \cup Query
  /\ call \in [Call -> {"idle", "connecting", "waiting", "live", "done"}]
  /\ on \in [Call -> Socket \cup {None}]
  /\ outcome \in [Call -> {"none", "answered", "timeout", "failed"}]
  /\ owner \in {"using", "closed", "courtesy", "finished"}

Init ==
  /\ sock = [s \in Socket |-> "unused"]
  /\ heard = [s \in Socket |-> {}]
  /\ ws = None
  /\ promise = None
  /\ settled = [s \in Socket |-> "pending"]
  /\ subs = {}
  /\ pending = {}
  /\ alarm = {}
  /\ call = [c \in Call |-> "idle"]
  /\ on = [c \in Call |-> None]
  /\ outcome = [c \in Call |-> "none"]
  /\ owner = "using"

-----------------------------------------------------------------------------
(* Mutants: every call opens a socket; a reopened socket starts afresh; a     *)
(* silent relay has answered; every call has a timer; a settled query stays    *)
(* registered; a dead socket keeps a query from settling.                     *)

NeverReuse == FALSE
ReissueNothing == {}
SilenceAnswers == "answered"
TimedAll(C) == C

\* The socket a new connection gets: they are numbered as they are created.
IsNext(s) == /\ sock[s] = "unused"
             /\ \A t \in Socket : sock[t] = "unused" => s <= t

\* connect() joins the connection it already has, or is making, whatever became
\* of it.
HasConnection == promise # None

\* What an opened socket sends before anything else.
Reissued == subs

\* How a query ends that the relay left without EOSE.
Unanswered == "timeout"

\* The calls that set a timer of their own once they sent their frame.
Timed(C) == C \ Live

Awaiting(s) == {c \in Call : call[c] = "connecting" /\ on[c] = s}

End(C, how) ==
  /\ call' = [c \in Call |-> IF c \in C THEN "done" ELSE call[c]]
  /\ outcome' = [c \in Call |-> IF c \in C THEN how ELSE outcome[c]]
  /\ UNCHANGED on

\* The calls in C go on once socket s is open: they register, and send.
Proceed(C) ==
  /\ call' = [c \in Call |-> IF c \notin C THEN call[c]
                             ELSE IF c \in Live THEN "live" ELSE "waiting"]
  /\ subs' = subs \cup (C \ Publish)
  /\ pending' = pending \cup (C \cap Publish)
  /\ alarm' = alarm \cup Timed(C)
  /\ UNCHANGED <<on, outcome>>

\* What the relay has from socket s once the frames of C were sent on it: a
\* socket that is closing drops them.
Sent(s, C) == IF sock[s] \in Up THEN [heard EXCEPT ![s] = @ \cup C] ELSE heard

\* What the relays have once CLOSE for c was sent, or could not be.
Unsubscribed(c) ==
  IF ws # None /\ sock[ws] \in Up THEN [heard EXCEPT ![ws] = @ \ {c}] ELSE heard

-----------------------------------------------------------------------------
(* The owner.                                                                *)

MayCall(c) == IF c \in Courtesy THEN owner = "closed" ELSE owner = "using"

Begin(c) ==
  /\ call[c] = "idle"
  /\ MayCall(c)
  /\ owner' = IF c \in Courtesy THEN "courtesy" ELSE owner

\* The connection is being made, is there, failed and has not closed yet, or
\* there is none.
Join(c) ==
  /\ Begin(c)
  /\ HasConnection
  /\ settled[promise] = "pending"
  /\ call' = [call EXCEPT ![c] = "connecting"]
  /\ on' = [on EXCEPT ![c] = promise]
  /\ UNCHANGED <<wire, ws, promise, subs, pending, alarm, outcome>>

UseOpen(c) ==
  /\ Begin(c)
  /\ HasConnection
  /\ settled[promise] = "opened"
  /\ Proceed({c})
  /\ heard' = Sent(ws, {c})
  /\ UNCHANGED <<sock, ws, promise, settled>>

UseFailed(c) ==
  /\ Begin(c)
  /\ HasConnection
  /\ settled[promise] = "failed"
  /\ End({c}, "failed")
  /\ UNCHANGED <<wire, ws, promise, subs, pending, alarm>>

Connect(c, s) ==
  /\ Begin(c)
  /\ ~ HasConnection
  /\ IsNext(s)
  /\ sock' = [sock EXCEPT ![s] = "connecting"]
  /\ ws' = s
  /\ promise' = s
  /\ call' = [call EXCEPT ![c] = "connecting"]
  /\ on' = [on EXCEPT ![c] = s]
  /\ UNCHANGED <<heard, settled, subs, pending, alarm, outcome>>

\* The handle of a live subscription is closed.
CloseHandle(c) ==
  /\ call[c] = "live"
  /\ End({c}, "answered")
  /\ subs' = subs \ {c}
  /\ heard' = IF c \in subs THEN Unsubscribed(c) ELSE heard
  /\ UNCHANGED <<sock, ws, promise, settled, pending, alarm, owner>>

Closing == IF ws # None /\ sock[ws] \in Up \cup {"connecting"}
           THEN [sock EXCEPT ![ws] = "closing"]
           ELSE sock

\* close(), by an owner who is done, and by publishCourtesy when it is.
Close ==
  /\ owner \in {"using", "courtesy"}
  /\ owner' = IF owner = "using" THEN "closed" ELSE "finished"
  /\ sock' = Closing
  /\ ws' = None
  /\ promise' = None
  /\ subs' = {}
  /\ pending' = {}
  /\ UNCHANGED <<heard, settled, alarm, calls>>

-----------------------------------------------------------------------------
(* Socket events.                                                            *)

Open(s, how) ==
  /\ sock[s] = "connecting"
  /\ sock' = [sock EXCEPT ![s] = how]
  /\ settled' = [settled EXCEPT ![s] = IF @ = "pending" THEN "opened" ELSE @]
  /\ heard' = [heard EXCEPT ![s] = Reissued \cup Awaiting(s)]
  /\ Proceed(Awaiting(s))
  /\ UNCHANGED <<ws, promise, owner>>

\* The relay or the network ends the socket, or refuses it.
Drop(s) ==
  /\ sock[s] \in Up \cup {"connecting"}
  /\ sock' = [sock EXCEPT ![s] = "closing"]
  /\ UNCHANGED <<heard, settled, ws, promise, subs, pending, alarm, calls, owner>>

\* The close event, after the error event when the socket never opened.  It
\* clears the promise of whichever socket is current.
CloseEvent(s) ==
  /\ sock[s] = "closing"
  /\ sock' = [sock EXCEPT ![s] = "closed"]
  /\ settled' = [settled EXCEPT ![s] = IF @ = "pending" THEN "failed" ELSE @]
  /\ promise' = None
  /\ End(Awaiting(s), "failed")
  /\ UNCHANGED <<heard, ws, subs, pending, alarm, owner>>

\* OK for the event of c.
AnswerOk(s, c) ==
  /\ sock[s] = "open"
  /\ c \in heard[s] \cap pending
  /\ End({c}, "answered")
  /\ pending' = pending \ {c}
  /\ alarm' = alarm \ {c}
  /\ UNCHANGED <<wire, ws, promise, subs, owner>>

SettleAndStay(c, how) ==
  /\ End({c}, how)
  /\ alarm' = alarm \ {c}
  /\ heard' = Unsubscribed(c)
  /\ UNCHANGED <<sock, ws, promise, settled, subs, pending, owner>>

Settle(c, how) ==
  /\ End({c}, how)
  /\ alarm' = alarm \ {c}
  /\ subs' = subs \ {c}
  /\ heard' = Unsubscribed(c)
  /\ UNCHANGED <<sock, ws, promise, settled, pending, owner>>

\* EOSE for query c.  A live subscription takes no notice of it.
AnswerEose(s, c) ==
  /\ sock[s] = "open"
  /\ c \in heard[s] \cap subs
  /\ Settle(c, "answered")

-----------------------------------------------------------------------------
(* Timers.                                                                   *)

\* The connection took too long.  The socket is left to itself.
ConnectTimeout(s) ==
  /\ sock[s] \in {"connecting", "closing"}
  /\ settled[s] = "pending"
  /\ settled' = [settled EXCEPT ![s] = "failed"]
  /\ End(Awaiting(s), "failed")
  /\ UNCHANGED <<sock, heard, ws, promise, subs, pending, alarm, owner>>

PublishTimeout(c) ==
  /\ c \in alarm
  /\ End({c}, "timeout")
  /\ pending' = pending \ {c}
  /\ alarm' = alarm \ {c}
  /\ UNCHANGED <<wire, ws, promise, subs, owner>>

\* Mutant: the settle that sends CLOSE first, and dies when it cannot.
QueryTimeoutIfSent(c) ==
  /\ c \in alarm
  /\ ws # None
  /\ Settle(c, Unanswered)

QueryTimeout(c) ==
  /\ c \in alarm
  /\ Settle(c, Unanswered)

-----------------------------------------------------------------------------
SocketStep ==
  \E s \in Socket : \/ \E how \in Up : Open(s, how)
                    \/ Drop(s)
                    \/ CloseEvent(s)
                    \/ \E c \in Publish : AnswerOk(s, c)
                    \/ \E c \in Query : AnswerEose(s, c)

TimerStep ==
  \/ \E s \in Socket : ConnectTimeout(s)
  \/ \E c \in Publish : PublishTimeout(c)
  \/ \E c \in Query : QueryTimeout(c)

OwnerStep ==
  \/ \E c \in Call : Join(c) \/ UseOpen(c) \/ UseFailed(c) \/ \E s \in Socket : Connect(c, s)
  \/ \E c \in Live : CloseHandle(c)
  \/ Close

Next == OwnerStep \/ SocketStep \/ TimerStep

(***************************************************************************)
(* Timers fire, and a socket that closes says so.  Nothing obliges a relay   *)
(* to answer, or the owner to do anything.                                   *)
(***************************************************************************)
Fairness ==
  /\ \A s \in Socket : WF_vars(ConnectTimeout(s)) /\ WF_vars(CloseEvent(s))
  /\ \A c \in Publish : WF_vars(PublishTimeout(c))
  /\ \A c \in Query : WF_vars(QueryTimeout(c))

Spec == Init /\ [][Next]_vars /\ Fairness

-----------------------------------------------------------------------------
\* At most one socket is alive, and it is the one the connection sends on: a
\* late close event of an older socket, a courtesy publish after close() or a
\* connect that timed out leaves no socket behind that nobody will close.
OneLiveSocket ==
  \A s \in Socket : sock[s] \in Up \cup {"connecting"} => s = ws

\* On an open socket the relay serves exactly the subscriptions the client
\* believes it has, whatever sockets they were opened on, and none that ended.
SubscriptionsAgree ==
  ws # None /\ sock[ws] \in Up => heard[ws] \ Publish = subs

\* Every registered subscription belongs to a query that is waiting or to a
\* handle somebody can close; every publish that can still be answered has a
\* caller and a running timer.
RegistrationsHaveOwners ==
  /\ \A c \in subs \cap Query : call[c] = "waiting" /\ c \in alarm
  /\ \A c \in subs \cap Live : call[c] = "live"
  /\ \A c \in pending : call[c] = "waiting" /\ c \in alarm

\* A relay that took the connection and said nothing has not answered: a query
\* ends as answered only while a relay that answers has its REQ on an open
\* socket.  The quorum guards of every flow count answers, not connections.
SilenceIsNoAnswer ==
  [][\A c \in Query :
       outcome[c] # "answered" /\ outcome'[c] = "answered" =>
         \E s \in Socket : sock[s] = "open" /\ c \in heard[s]]_vars

\* A call always ends (a live subscription: is handed to its caller), whatever
\* the relay, the network and close() do in the meantime.
EveryCallEnds ==
  \A c \in Call : call[c] \in {"connecting", "waiting"} ~> call[c] \in {"live", "done"}
=============================================================================
