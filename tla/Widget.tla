-------------------------------- MODULE Widget --------------------------------
(***************************************************************************)
(* The <bitlogin-auth> element between the user who clicks, the host page that *)
(* asks for wallets and logs out, the dialogs of the browser, and a worker     *)
(* that answers in order and sometimes late.                                 *)
(***************************************************************************)
EXTENDS WidgetVault

Init ==
  /\ el = Post(Element, Call("configure", None))
  /\ worker = Locked
  /\ asks = [made |-> 0, faults |-> 0]

\* The calls that decide whether an offer is shown.
OfferOps == {"offer_status", "offer_vault", "offer_check"}

\* What the page does when call c fails.
Rejected(s, c) ==
  IF c.op \in OfferOps THEN Settle(s, "offer", c.ask)
  ELSE IF c.op \in {"configure", "restore", "logout", "list"} THEN s
  ELSE Fail(s)

\* The answer to call i will find nobody.
GiveUp(s, i) == [s EXCEPT !.calls = [@ EXCEPT ![i] = [s.calls[i] EXCEPT !.heard = FALSE]]]

\* The page's timer fires first; the worker still serves the call.
TimeOut ==
  /\ Fault
  /\ \E i \in 1..Len(el.calls) :
       /\ el.calls[i].heard
       /\ el' = Rejected(GiveUp(el, i), el.calls[i])
  /\ UNCHANGED worker

\* A read of the vault fails: it is locked by now, or its storage does not answer.
ReadFails ==
  /\ Answers("find") \/ Answers("vault_status") \/ Answers("offer_vault") \/ Answers("offer_check")
  /\ Hear(Rejected(Rest, Asked))
  /\ UNCHANGED worker
  /\ \/ ~ worker.vault /\ Asked.op \in {"find", "offer_check"} /\ UNCHANGED asks
     \/ Fault

Answered ==
  \/ (SignInAnswer \/ VaultAnswer) /\ UNCHANGED asks
  \/ ReadFails

Browser ==
  \/ \E kind \in {"get", "create"} : CeremonyEnds(kind)
  \/ ExtensionAnswers
  \/ ChooserCloses

Next ==
  \/ SignInClick \/ VaultClick
  \/ RequestNwc \/ OfferNwc
  \/ Answered
  \/ Browser
  \/ TimeOut

Spec == Init /\ [][Next]_vars

-----------------------------------------------------------------------------
Screens ==
  {"welcome", "login", "create-name", "create-credential", "confirm-phrase", "verify-phrase",
   "recover-phrase", "recover-new-credentials", "dashboard", "change-password", "export",
   "rollback-confirm", "passkey", "passkey-create", "extension-confirm",
   "vault-consent", "vault-import", "vault-offer", "vault-manage"}
Ids     == 1..MaxEvents
Someone == Ident \cup {None}

OtherOps ==
  {"configure", "restore", "login", "register", "recover", "complete", "change",
   "passkey_login", "passkey_register", "logout",
   "request_status", "vault_status", "find", "reveal", "save_request", "save_offer",
   "list", "unbind"}

\* The calls of an offer name its promise; no other call names one.
OfferCall == [op : OfferOps, who : Someone, ack : BOOLEAN, ask : Ids, heard : BOOLEAN]
OtherCall == [op : OtherOps, who : Someone, ack : BOOLEAN, ask : {0}, heard : BOOLEAN]
SentCall  == OfferCall \cup OtherCall

Request  == [id : Ids, stage : {"auth", "active"}]
Rollback == [op : {"login", "change"}, who : Someone]

Page ==
  [screen : Screens, busy : BOOLEAN, session : Someone \cup {Extension},
   active : Someone \cup {Extension}, alt : BOOLEAN,
   ext : BOOLEAN, passkey : Someone, rollback : Rollback \cup {None},
   request : Request \cup {None}, candidate : BOOLEAN, unsaved : BOOLEAN,
   offer : Ids \cup {None}, open : SUBSET [kind : {"request", "offer"}, id : Ids],
   calls : Seq(SentCall),
   prompts : SUBSET {"get", "create", "extension", "chooser"}]

TypeOK ==
  /\ el \in Page
  /\ Len(el.calls) <= MaxCalls
  /\ worker \in [signer : Someone, pend : BOOLEAN, vault : BOOLEAN]
  /\ asks \in [made : Nat, faults : Nat] /\ asks.made + asks.faults <= MaxEvents

\* Every promise a host holds is in somebody's hands: the request or the offer the
\* element asks the user about, or a call that will settle it.  None is dropped
\* (element.ts:395-397), whatever times out or overlaps.
PromisesKept ==
  \A p \in el.open :
    \/ el.request # None /\ p = Promise("request", el.request.id)
    \/ p = Promise("offer", el.offer)
    \/ \E i \in 1..Len(el.calls) :
         el.calls[i].heard /\ p = Promise("offer", el.calls[i].ask)

\* Nothing is under way.
Quiet == el.calls = <<>> /\ el.prompts = {}

\* The identity that signs for a host that calls the element.
Signs == IF el.alt THEN Extension ELSE worker.signer

\* Once the calls have been answered, no other account signs for the one that is
\* shown: signing in late, over another account or while logging out does not part
\* the two.  The extension may (ShownSigns).
NoOtherAccountSigns ==
  Quiet /\ asks.faults = 0 /\ el.session \in Ident => Signs \in {el.session, Extension}

\* "the worker for BitLogin-account sessions (as always), the extension's provider for a
\* NIP-07 session (LM3). Hosts holding a reference to this element get the right
\* backend either way" (element.ts:269-271).  A cached session that is restored late,
\* over a sign-in with the extension, is shown, and the extension goes on signing.
ShownSigns ==
  Quiet /\ asks.faults = 0 /\ el.session \in Ident => Signs = el.session

\* A wallet request follows the sign-in it waits for: who backs out to the welcome
\* screen has declined it, and nothing else is left open; who reaches the dashboard
\* has resumed it (element.ts:697-713).
AskedFollowsSignIn ==
  Quiet /\ asks.faults = 0 =>
    /\ On("welcome") => el.open = {}
    /\ On("dashboard") => ~ Waiting(el)

\* "MANDATORY recovery ceremony ... Sign-in is dispatched only once the phrase is
\* verified" (element.ts:1184-1192): whoever is on the dashboard with a usable
\* credential has been announced to the host, so has seen the ceremony through.
\* A wallet question asked during the ceremony leads around it.
PhraseBeforeDashboard ==
  On("dashboard") /\ el.session # None /\ ~ worker.pend => el.active = el.session

\* No other way leads around it: not a form sent twice, a late answer, a restore, a
\* passkey or a timeout, as long as no host has asked for a wallet.
PhraseUnlessAsked == asks.made = 0 => PhraseBeforeDashboard
=============================================================================
