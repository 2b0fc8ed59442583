----------------------------- MODULE RelayProofs -----------------------------
(***************************************************************************)
(* Proofs about RelayConnection, for any calls and any number of sockets.    *)
(***************************************************************************)
EXTENDS RelayConnection, TLAPS

Alive(s) == sock[s] \in Up \cup {"connecting"}

\* While the connection is in use, the socket that has not closed yet is the one
\* the promise belongs to, and the one calls are sent on.  This is what lets a
\* close event clear the promise without looking whose it is.
PromiseIsCurrent ==
  owner = "using" =>
    /\ promise # None => ws = promise
    /\ \A s \in Socket : Alive(s) \/ sock[s] = "closing" => promise = s

\* close() leaves nothing alive.
ClosedIsClosed == owner \in {"closed", "finished"} => \A s \in Socket : ~ Alive(s)

Inv ==
  /\ TypeOK
  /\ PromiseIsCurrent
  /\ ClosedIsClosed
  /\ OneLiveSocket
  /\ SubscriptionsAgree
  /\ RegistrationsHaveOwners

LEMMA InitInv == Init => Inv
BY CallAssumption DEF Init, Inv, TypeOK, PromiseIsCurrent, ClosedIsClosed, OneLiveSocket,
   SubscriptionsAgree, RegistrationsHaveOwners, Alive, Up, Socket, None, Call

-----------------------------------------------------------------------------
(* Steps of the owner.                                                       *)

LEMMA JoinInv ==
  ASSUME Inv, NEW c \in Call, Join(c)
  PROVE  Inv'
<1> USE CallAssumption DEF Inv, Join, Begin, MayCall, HasConnection, wire
<1>1. TypeOK'
  BY DEF TypeOK
<1>2. PromiseIsCurrent' /\ ClosedIsClosed' /\ OneLiveSocket' /\ SubscriptionsAgree'
  BY DEF TypeOK, PromiseIsCurrent, ClosedIsClosed, OneLiveSocket, SubscriptionsAgree, Alive
<1>3. RegistrationsHaveOwners'
  BY DEF TypeOK, RegistrationsHaveOwners
<1> QED BY <1>1, <1>2, <1>3

LEMMA UseOpenInv ==
  ASSUME Inv, NEW c \in Call, UseOpen(c)
  PROVE  Inv'
<1> USE CallAssumption DEF Inv, UseOpen, Begin, MayCall, HasConnection, Proceed, Timed, Sent
<1>1. TypeOK'
  BY DEF TypeOK, Call, Up
<1>2. PromiseIsCurrent' /\ ClosedIsClosed'
  BY DEF TypeOK, PromiseIsCurrent, ClosedIsClosed, OneLiveSocket, Alive, Up, Socket, None
<1>3. OneLiveSocket'
  BY DEF TypeOK, PromiseIsCurrent, ClosedIsClosed, OneLiveSocket, Alive, Up, Socket, None
<1>4. SubscriptionsAgree'
  BY DEF TypeOK, OneLiveSocket, SubscriptionsAgree, RegistrationsHaveOwners, Call, Up, Socket, None
<1>5. RegistrationsHaveOwners'
  BY DEF TypeOK, RegistrationsHaveOwners, Call
<1> QED BY <1>1, <1>2, <1>3, <1>4, <1>5

LEMMA UseFailedInv ==
  ASSUME Inv, NEW c \in Call, UseFailed(c)
  PROVE  Inv'
<1> USE CallAssumption DEF Inv, UseFailed, Begin, MayCall, HasConnection, End, wire
<1>1. TypeOK'
  BY DEF TypeOK, Call, Up
<1>2. PromiseIsCurrent' /\ ClosedIsClosed'
  BY DEF TypeOK, PromiseIsCurrent, ClosedIsClosed, OneLiveSocket, Alive, Up, Socket, None
<1>3. OneLiveSocket'
  BY DEF TypeOK, PromiseIsCurrent, ClosedIsClosed, OneLiveSocket, Alive, Up, Socket, None
<1>4. SubscriptionsAgree'
  BY DEF TypeOK, OneLiveSocket, SubscriptionsAgree, RegistrationsHaveOwners, Call, Up, Socket, None
<1>5. RegistrationsHaveOwners'
  BY DEF TypeOK, RegistrationsHaveOwners, Call
<1> QED BY <1>1, <1>2, <1>3, <1>4, <1>5

LEMMA ConnectInv ==
  ASSUME Inv, NEW c \in Call, NEW s \in Socket, Connect(c, s)
  PROVE  Inv'
<1> USE CallAssumption DEF Inv, Connect, Begin, MayCall, HasConnection, IsNext
<1>1. TypeOK'
  BY DEF TypeOK, Call, Up
<1>2. PromiseIsCurrent' /\ ClosedIsClosed'
  BY DEF TypeOK, PromiseIsCurrent, ClosedIsClosed, OneLiveSocket, Alive, Up, Socket, None
<1>3. OneLiveSocket'
  BY DEF TypeOK, PromiseIsCurrent, ClosedIsClosed, OneLiveSocket, Alive, Up, Socket, None
<1>4. SubscriptionsAgree'
  BY DEF TypeOK, OneLiveSocket, SubscriptionsAgree, RegistrationsHaveOwners, Call, Up, Socket, None
<1>5. RegistrationsHaveOwners'
  BY DEF TypeOK, RegistrationsHaveOwners, Call
<1> QED BY <1>1, <1>2, <1>3, <1>4, <1>5

LEMMA CloseHandleInv ==
  ASSUME Inv, NEW c \in Live, CloseHandle(c)
  PROVE  Inv'
<1> USE CallAssumption DEF Inv, CloseHandle, End, Unsubscribed
<1>1. TypeOK'
  BY DEF TypeOK, Call, Up
<1>2. PromiseIsCurrent' /\ ClosedIsClosed'
  BY DEF TypeOK, PromiseIsCurrent, ClosedIsClosed, OneLiveSocket, Alive, Up, Socket, None
<1>3. OneLiveSocket'
  BY DEF TypeOK, PromiseIsCurrent, ClosedIsClosed, OneLiveSocket, Alive, Up, Socket, None
<1>4. SubscriptionsAgree'
  BY DEF TypeOK, OneLiveSocket, SubscriptionsAgree, RegistrationsHaveOwners, Call, Up, Socket, None
<1>5. RegistrationsHaveOwners'
  BY DEF TypeOK, RegistrationsHaveOwners, Call
<1> QED BY <1>1, <1>2, <1>3, <1>4, <1>5

LEMMA CloseInv ==
  ASSUME Inv, Close
  PROVE  Inv'
<1> USE CallAssumption DEF Inv, Close, Closing, calls
<1>1. TypeOK'
  BY DEF TypeOK, Call, Up
<1>2. PromiseIsCurrent' /\ ClosedIsClosed'
  BY DEF TypeOK, PromiseIsCurrent, ClosedIsClosed, OneLiveSocket, Alive, Up, Socket, None
<1>3. OneLiveSocket'
  BY DEF TypeOK, PromiseIsCurrent, ClosedIsClosed, OneLiveSocket, Alive, Up, Socket, None
<1>4. SubscriptionsAgree'
  BY DEF TypeOK, OneLiveSocket, SubscriptionsAgree, RegistrationsHaveOwners, Call, Up, Socket, None
<1>5. RegistrationsHaveOwners'
  BY DEF TypeOK, RegistrationsHaveOwners, Call
<1> QED BY <1>1, <1>2, <1>3, <1>4, <1>5

-----------------------------------------------------------------------------
(* Socket events and timers.                                                 *)

LEMMA OpenInv ==
  ASSUME Inv, NEW s \in Socket, NEW how \in Up, Open(s, how)
  PROVE  Inv'
<1> USE CallAssumption DEF Inv, Open, Proceed, Timed, Reissued, Awaiting
<1>1. TypeOK'
  BY DEF TypeOK, Call, Up
<1>2. PromiseIsCurrent' /\ ClosedIsClosed'
  BY DEF TypeOK, PromiseIsCurrent, ClosedIsClosed, OneLiveSocket, Alive, Up, Socket, None
<1>3. OneLiveSocket'
  BY DEF TypeOK, PromiseIsCurrent, ClosedIsClosed, OneLiveSocket, Alive, Up, Socket, None
<1>4. SubscriptionsAgree'
  BY DEF TypeOK, OneLiveSocket, SubscriptionsAgree, RegistrationsHaveOwners, Call, Up, Socket, None
<1>5. RegistrationsHaveOwners'
  BY DEF TypeOK, RegistrationsHaveOwners, Call
<1> QED BY <1>1, <1>2, <1>3, <1>4, <1>5

LEMMA DropInv ==
  ASSUME Inv, NEW s \in Socket, Drop(s)
  PROVE  Inv'
<1> USE CallAssumption DEF Inv, Drop, calls
<1>1. TypeOK'
  BY DEF TypeOK, Call, Up
<1>2. PromiseIsCurrent' /\ ClosedIsClosed'
  BY DEF TypeOK, PromiseIsCurrent, ClosedIsClosed, OneLiveSocket, Alive, Up, Socket, None
<1>3. OneLiveSocket'
  BY DEF TypeOK, PromiseIsCurrent, ClosedIsClosed, OneLiveSocket, Alive, Up, Socket, None
<1>4. SubscriptionsAgree'
  BY DEF TypeOK, OneLiveSocket, SubscriptionsAgree, RegistrationsHaveOwners, Call, Up, Socket, None
<1>5. RegistrationsHaveOwners'
  BY DEF TypeOK, RegistrationsHaveOwners, Call
<1> QED BY <1>1, <1>2, <1>3, <1>4, <1>5

LEMMA CloseEventInv ==
  ASSUME Inv, NEW s \in Socket, CloseEvent(s)
  PROVE  Inv'
<1> USE CallAssumption DEF Inv, CloseEvent, End, Awaiting
<1>1. TypeOK'
  BY DEF TypeOK, Call, Up
<1>2. PromiseIsCurrent' /\ ClosedIsClosed'
  BY DEF TypeOK, PromiseIsCurrent, ClosedIsClosed, OneLiveSocket, Alive, Up, Socket, None
<1>3. OneLiveSocket'
  BY DEF TypeOK, PromiseIsCurrent, ClosedIsClosed, OneLiveSocket, Alive, Up, Socket, None
<1>4. SubscriptionsAgree'
  BY DEF TypeOK, OneLiveSocket, SubscriptionsAgree, RegistrationsHaveOwners, Call, Up, Socket, None
<1>5. RegistrationsHaveOwners'
  BY DEF TypeOK, RegistrationsHaveOwners, Call
<1> QED BY <1>1, <1>2, <1>3, <1>4, <1>5

LEMMA ConnectTimeoutInv ==
  ASSUME Inv, NEW s \in Socket, ConnectTimeout(s)
  PROVE  Inv'
<1> USE CallAssumption DEF Inv, ConnectTimeout, End, Awaiting
<1>1. TypeOK'
  BY DEF TypeOK, Call, Up
<1>2. PromiseIsCurrent' /\ ClosedIsClosed'
  BY DEF TypeOK, PromiseIsCurrent, ClosedIsClosed, OneLiveSocket, Alive, Up, Socket, None
<1>3. OneLiveSocket'
  BY DEF TypeOK, PromiseIsCurrent, ClosedIsClosed, OneLiveSocket, Alive, Up, Socket, None
<1>4. SubscriptionsAgree'
  BY DEF TypeOK, OneLiveSocket, SubscriptionsAgree, RegistrationsHaveOwners, Call, Up, Socket, None
<1>5. RegistrationsHaveOwners'
  BY DEF TypeOK, RegistrationsHaveOwners, Call
<1> QED BY <1>1, <1>2, <1>3, <1>4, <1>5

LEMMA AnswerOkInv ==
  ASSUME Inv, NEW s \in Socket, NEW c \in Publish, AnswerOk(s, c)
  PROVE  Inv'
<1> USE CallAssumption DEF Inv, AnswerOk, End, wire
<1>1. TypeOK'
  BY DEF TypeOK, Call, Up
<1>2. PromiseIsCurrent' /\ ClosedIsClosed'
  BY DEF TypeOK, PromiseIsCurrent, ClosedIsClosed, OneLiveSocket, Alive, Up, Socket, None
<1>3. OneLiveSocket'
  BY DEF TypeOK, PromiseIsCurrent, ClosedIsClosed, OneLiveSocket, Alive, Up, Socket, None
<1>4. SubscriptionsAgree'
  BY DEF TypeOK, OneLiveSocket, SubscriptionsAgree, RegistrationsHaveOwners, Call, Up, Socket, None
<1>5. RegistrationsHaveOwners'
  BY DEF TypeOK, RegistrationsHaveOwners, Call
<1> QED BY <1>1, <1>2, <1>3, <1>4, <1>5

LEMMA PublishTimeoutInv ==
  ASSUME Inv, NEW c \in Publish, PublishTimeout(c)
  PROVE  Inv'
<1> USE CallAssumption DEF Inv, PublishTimeout, End, wire
<1>1. TypeOK'
  BY DEF TypeOK, Call, Up
<1>2. PromiseIsCurrent' /\ ClosedIsClosed'
  BY DEF TypeOK, PromiseIsCurrent, ClosedIsClosed, OneLiveSocket, Alive, Up, Socket, None
<1>3. OneLiveSocket'
  BY DEF TypeOK, PromiseIsCurrent, ClosedIsClosed, OneLiveSocket, Alive, Up, Socket, None
<1>4. SubscriptionsAgree'
  BY DEF TypeOK, OneLiveSocket, SubscriptionsAgree, RegistrationsHaveOwners, Call, Up, Socket, None
<1>5. RegistrationsHaveOwners'
  BY DEF TypeOK, RegistrationsHaveOwners, Call
<1> QED BY <1>1, <1>2, <1>3, <1>4, <1>5

LEMMA AnswerEoseInv ==
  ASSUME Inv, NEW s \in Socket, NEW c \in Query, AnswerEose(s, c)
  PROVE  Inv'
<1> USE CallAssumption DEF Inv, AnswerEose, Settle, End, Unsubscribed
<1>1. TypeOK'
  BY DEF TypeOK, Call, Up
<1>2. PromiseIsCurrent' /\ ClosedIsClosed'
  BY DEF TypeOK, PromiseIsCurrent, ClosedIsClosed, OneLiveSocket, Alive, Up, Socket, None
<1>3. OneLiveSocket'
  BY DEF TypeOK, PromiseIsCurrent, ClosedIsClosed, OneLiveSocket, Alive, Up, Socket, None
<1>4. SubscriptionsAgree'
  BY DEF TypeOK, OneLiveSocket, SubscriptionsAgree, RegistrationsHaveOwners, Call, Up, Socket, None
<1>5. RegistrationsHaveOwners'
  BY DEF TypeOK, RegistrationsHaveOwners, Call
<1> QED BY <1>1, <1>2, <1>3, <1>4, <1>5

LEMMA QueryTimeoutInv ==
  ASSUME Inv, NEW c \in Query, QueryTimeout(c)
  PROVE  Inv'
<1> USE CallAssumption DEF Inv, QueryTimeout, Settle, End, Unsubscribed, Unanswered
<1>1. TypeOK'
  BY DEF TypeOK, Call, Up
<1>2. PromiseIsCurrent' /\ ClosedIsClosed'
  BY DEF TypeOK, PromiseIsCurrent, ClosedIsClosed, OneLiveSocket, Alive, Up, Socket, None
<1>3. OneLiveSocket'
  BY DEF TypeOK, PromiseIsCurrent, ClosedIsClosed, OneLiveSocket, Alive, Up, Socket, None
<1>4. SubscriptionsAgree'
  BY DEF TypeOK, OneLiveSocket, SubscriptionsAgree, RegistrationsHaveOwners, Call, Up, Socket, None
<1>5. RegistrationsHaveOwners'
  BY DEF TypeOK, RegistrationsHaveOwners, Call
<1> QED BY <1>1, <1>2, <1>3, <1>4, <1>5

-----------------------------------------------------------------------------
LEMMA StepInv == Inv /\ [Next]_vars => Inv'
<1> SUFFICES ASSUME Inv, [Next]_vars PROVE Inv'
  OBVIOUS
<1>1. CASE OwnerStep
  BY <1>1, JoinInv, UseOpenInv, UseFailedInv, ConnectInv, CloseHandleInv, CloseInv DEF OwnerStep
<1>2. CASE SocketStep
  BY <1>2, OpenInv, DropInv, CloseEventInv, AnswerOkInv, AnswerEoseInv DEF SocketStep
<1>3. CASE TimerStep
  BY <1>3, ConnectTimeoutInv, PublishTimeoutInv, QueryTimeoutInv DEF TimerStep
<1>4. CASE UNCHANGED vars
  BY <1>4 DEF vars, Inv, TypeOK, PromiseIsCurrent, ClosedIsClosed, OneLiveSocket,
     SubscriptionsAgree, RegistrationsHaveOwners, Alive
<1> QED BY <1>1, <1>2, <1>3, <1>4 DEF Next

LEMMA InvHolds == Spec => []Inv
<1> QED BY InitInv, StepInv, PTL DEF Spec

\* Every variable keeps its type, whatever the calls and however many sockets.
THEOREM TypeCorrect == Spec => []TypeOK
<1>1. Inv => TypeOK
  BY DEF Inv
<1> QED BY <1>1, InvHolds, PTL

\* connect(), close() and their socket events never leave a second socket alive.
THEOREM OneLiveSocketHolds == Spec => []OneLiveSocket
<1>1. Inv => OneLiveSocket
  BY DEF Inv
<1> QED BY <1>1, InvHolds, PTL

\* A reopened socket carries every subscription the connection has, and the
\* relay keeps none that ended.
THEOREM SubscriptionsAgreeHolds == Spec => []SubscriptionsAgree
<1>1. Inv => SubscriptionsAgree
  BY DEF Inv
<1> QED BY <1>1, InvHolds, PTL

\* Nothing stays registered in the connection that no caller waits for or can
\* close.
THEOREM RegistrationsHaveOwnersHolds == Spec => []RegistrationsHaveOwners
<1>1. Inv => RegistrationsHaveOwners
  BY DEF Inv
<1> QED BY <1>1, InvHolds, PTL

-----------------------------------------------------------------------------
\* A query ends as answered in one kind of step: the relay of an open socket says EOSE for it.
LEMMA OnlyAnAnswerAnswers ==
  ASSUME TypeOK, [Next]_vars, NEW c \in Query, outcome[c] # "answered", outcome'[c] = "answered"
  PROVE  \E s \in Socket : sock[s] = "open" /\ c \in heard[s]
<1> USE DEF TypeOK, Call
<1>1. CASE OwnerStep
  <2>1. CASE \E d \in Call : UseFailed(d)
    BY <2>1 DEF UseFailed, End
  <2>2. CASE \E d \in Live : CloseHandle(d)
    BY <2>2, CallAssumption DEF CloseHandle, End
  <2>3. CASE outcome' = outcome
    BY <2>3
  <2> QED
    BY <1>1, <2>1, <2>2, <2>3 DEF OwnerStep, Join, UseOpen, Connect, Proceed, Close, calls
<1>2. CASE SocketStep
  <2>1. CASE \E s \in Socket, d \in Publish : AnswerOk(s, d)
    BY <2>1, CallAssumption DEF AnswerOk, End
  <2>2. CASE \E s \in Socket, d \in Query : AnswerEose(s, d)
    <3>1. PICK s \in Socket, d \in Query : AnswerEose(s, d)
      BY <2>2
    <3>2. c = d
      BY <3>1 DEF AnswerEose, Settle, End
    <3> QED
      BY <3>1, <3>2 DEF AnswerEose
  <2>3. CASE \E s \in Socket : CloseEvent(s)
    BY <2>3 DEF CloseEvent, End
  <2>4. CASE outcome' = outcome
    BY <2>4
  <2> QED
    BY <1>2, <2>1, <2>2, <2>3, <2>4 DEF SocketStep, Open, Proceed, Drop, calls
<1>3. CASE TimerStep
  BY <1>3 DEF TimerStep, ConnectTimeout, PublishTimeout, QueryTimeout, Settle, Unanswered, End
<1>4. CASE UNCHANGED vars
  BY <1>4 DEF vars, calls
<1> QED
  BY <1>1, <1>2, <1>3, <1>4 DEF Next

\* A relay that took the connection and stayed silent is never counted as having answered a
\* query, whichever timer, close or reconnect ends the wait.
THEOREM SilenceNeverAnswers == Spec => SilenceIsNoAnswer
<1>1. TypeOK /\ [Next]_vars =>
        [\A c \in Query :
           outcome[c] # "answered" /\ outcome'[c] = "answered" =>
             \E s \in Socket : sock[s] = "open" /\ c \in heard[s]]_vars
  BY OnlyAnAnswerAnswers
<1> QED
  BY <1>1, TypeCorrect, PTL DEF Spec, SilenceIsNoAnswer
=============================================================================
