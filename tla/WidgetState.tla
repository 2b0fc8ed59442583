----------------------------- MODULE WidgetState -----------------------------
(***************************************************************************)
(* The state of a <bitlogin-auth> element and the moves every handler of it    *)
(* shares: showing a screen, waiting for the worker, and settling the promises *)
(* a host page holds.                                                      *)
(*                                                                         *)
(* JavaScript runs a handler to its next await without interruption, so a      *)
(* handler is a function of the element's state: the operators below take the  *)
(* state s and return the next.  An action applies one of them to el.          *)
(***************************************************************************)
EXTENDS Naturals, Sequences

CONSTANTS
  Ident, None,
  Extension,    \* the identity of the browser extension
  MaxCalls,     \* calls outstanding at once
  MaxEvents     \* wallet promises a host asks for and faults, together: timers that
                \* fire early and errors the worker should not have

\* None is no value it stands in for, and the extension, which holds its own key, is
\* told apart from the accounts.
ASSUME ElementAssumption ==
  /\ None \notin Ident \cup {Extension} \cup Nat \cup [id : Nat, stage : {"auth", "active"}]
  /\ Extension \notin Ident
  /\ MaxCalls \in Nat \ {0} /\ MaxEvents \in Nat

VARIABLES
  el,       \* the element
  worker,   \* [signer, pend, vault]: the session unlocked in its crypto worker
  asks      \* [made, faults]: the promises asked for and the faults so far

vars == <<el, worker, asks>>

Locked == [signer |-> None, pend |-> FALSE, vault |-> FALSE]

(***************************************************************************)
(* session is what the element shows; active what window.bitlogin tells the    *)
(* host since the last bitlogin-login event; alt that the public API goes to   *)
(* the extension.  ext, passkey and rollback wait for a confirmation.  open is  *)
(* the set of promises a host holds, request and offer the slots of those the  *)
(* user is asked about.  calls are the worker's to answer, in order; prompts   *)
(* the dialogs of the browser.                                              *)
(***************************************************************************)
Element ==
  [screen |-> "welcome", busy |-> FALSE, session |-> None, active |-> None, alt |-> FALSE,
   ext |-> FALSE, passkey |-> None, rollback |-> None,
   request |-> None, candidate |-> FALSE, unsaved |-> FALSE, offer |-> None,
   open |-> {}, calls |-> <<>>, prompts |-> {}]

On(screen) == el.screen = screen
Room       == Len(el.calls) < MaxCalls

\* The passkey sheet and the wallet chooser cover the page.
Clickable  == el.prompts \subseteq {"extension"}

Call(op, i)  == [op |-> op, who |-> i, ack |-> FALSE, ask |-> 0, heard |-> TRUE]
Post(s, c)   == [s EXCEPT !.calls = Append(@, c)]
Start(s, c)  == [Post(s, c) EXCEPT !.busy = TRUE]
Idle(s)      == [s EXCEPT !.busy = FALSE]
Fail(s)      == Idle(s)
Show(s, scr) == [s EXCEPT !.screen = scr]

Promise(kind, id)   == [kind |-> kind, id |-> id]
Settle(s, kind, id) == [s EXCEPT !.open = @ \ {Promise(kind, id)}]

Waiting(s) == s.request # None /\ s.request.stage = "auth"

-----------------------------------------------------------------------------
\* The request goes on: does the account have a vault?
ContinueVaultRequest(s) ==
  IF s.request = None THEN s
  ELSE Post([s EXCEPT !.request = [@ EXCEPT !.stage = "active"]], Call("vault_status", None))

DropRequest(s) ==
  IF s.request = None THEN s
  ELSE [Settle(s, "request", s.request.id) EXCEPT
          !.request = None, !.candidate = FALSE, !.unsaved = FALSE]

DropOffer(s) ==
  IF s.offer = None THEN s
  ELSE [Settle(s, "offer", s.offer) EXCEPT !.offer = None]

\* The promise is settled and the neutral screen shown: the dashboard, or welcome,
\* which declines whatever else is open.
FinishVaultRequest(s) ==
  IF s.request = None THEN s
  ELSE IF s.session # None
    THEN Show(DropRequest(s), "dashboard")
    ELSE Show(DropOffer(DropRequest(s)), "welcome")

FinishVaultOffer(s) ==
  IF s.offer = None THEN s
  ELSE IF s.session = None THEN Show(DropRequest(DropOffer(s)), "welcome")
  ELSE IF Waiting(s) THEN ContinueVaultRequest(DropOffer(s))
  ELSE Show(DropOffer(s), "dashboard")

\* Mutant: welcome is a screen like the others.
GotoAsIs(s, scr) ==
  IF scr = "dashboard" /\ Waiting(s) THEN ContinueVaultRequest(s) ELSE Show(s, scr)

\* A pending request or offer takes over two navigations: the dashboard after
\* the sign-in it waited for, and welcome.
Goto(s, scr) ==
  IF scr = "dashboard" /\ Waiting(s) THEN ContinueVaultRequest(s)
  ELSE IF scr = "welcome" /\ s.request # None THEN FinishVaultRequest(s)
  ELSE IF scr = "welcome" /\ s.offer # None THEN FinishVaultOffer(s)
  ELSE Show(s, scr)

\* The host hears of a sign-in.
DispatchLogin(s) == [s EXCEPT !.active = IF s.session = None THEN @ ELSE s.session]

SignedIn(s, i) == Goto(DispatchLogin([Idle(s) EXCEPT !.session = i]), "dashboard")

\* Mutant: only the host is told.
HostSignedOut(s) == Goto([s EXCEPT !.active = None], "welcome")

SignedOut(s) == Goto([s EXCEPT !.session = None, !.active = None], "welcome")

-----------------------------------------------------------------------------
(* Answers.  The worker serves one call at a time, in order (SerialSession);   *)
(* what the page does with the answer is in the same step.                    *)

Asked       == Head(el.calls)
Answers(op) == el.calls # <<>> /\ Asked.op = op
Rest        == [el EXCEPT !.calls = Tail(@)]

\* A call that was given up is served, but nobody hears the answer.
Hear(s) == el' = IF Asked.heard THEN s ELSE Rest

Click(s) == Clickable /\ Room /\ el' = s /\ UNCHANGED <<worker, asks>>

Event == asks.made + asks.faults < MaxEvents
Fault == Event /\ asks' = [asks EXCEPT !.faults = @ + 1]
=============================================================================
