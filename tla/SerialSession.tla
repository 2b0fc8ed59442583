---------------------------- MODULE SerialSession ----------------------------
(***************************************************************************)
(* What the crypto worker promises one page: the calls it posts are served     *)
(* one after the other, in the order they were posted.  A call changes the     *)
(* unlocked session once or not at all, before it is answered and before the   *)
(* next one begins, and its answer says which.                               *)
(***************************************************************************)
EXTENDS Naturals, Sequences

CONSTANTS Ident, None

VARIABLES
  calls,    \* the calls that are not answered, in the order they were posted
  served,   \* the first one has changed the session
  reply,    \* the last answer
  who,      \* the identity that is unlocked
  pend      \* it was recovered and has no new credential yet

vars == <<calls, served, reply, who, pend>>

Init ==
  /\ calls = <<>>
  /\ served = FALSE
  /\ reply = None
  /\ who = None
  /\ pend = FALSE

Post(c) ==
  /\ calls' = Append(calls, c)
  /\ UNCHANGED <<served, reply, who, pend>>

\* How a call that succeeds changes the session.
Effect(c) ==
  \/ c.op = "login"    /\ who' = c.who /\ pend' = FALSE
  \/ c.op = "recover"  /\ who' = c.who /\ pend' = TRUE
  \/ c.op = "complete" /\ pend /\ who' = who /\ pend' = FALSE
  \/ c.op = "restore"  /\ who' \in Ident /\ pend' = FALSE
  \/ c.op = "logout"   /\ who' = None /\ pend' = FALSE

\* What it is answered: the identity that it unlocked, or None.
Answered(c, took) ==
  \/ /\ c.op \in {"login", "recover", "complete", "restore"}
     /\ reply' = IF took THEN who' ELSE None
  \/ c.op = "sign"   /\ reply' = who
  \/ c.op = "change" /\ reply' \in {None, c.who}
  \/ c.op = "logout" /\ took /\ reply' = None

TakeEffect ==
  /\ calls # <<>> /\ ~ served
  /\ Effect(Head(calls))
  /\ served' = TRUE
  /\ UNCHANGED <<calls, reply>>

\* The answer may come with the effect, after it, or without one.
Answer ==
  /\ calls # <<>>
  /\ calls' = Tail(calls)
  /\ \/ ~ served /\ Effect(Head(calls)) /\ Answered(Head(calls), TRUE)
     \/ UNCHANGED <<who, pend>> /\ Answered(Head(calls), served)
  /\ served' = FALSE

\* The page goes, and the worker with it.
Gone ==
  /\ calls' = <<>>
  /\ served' = FALSE
  /\ reply' = None
  /\ who' = None /\ pend' = FALSE

Next ==
  \/ TakeEffect
  \/ Answer
  \/ Gone
  \/ \E op \in {"login", "recover", "complete", "change", "restore", "sign", "logout"},
        i \in Ident \cup {None} : Post([op |-> op, who |-> i])

Spec == Init /\ [][Next]_vars
=============================================================================
