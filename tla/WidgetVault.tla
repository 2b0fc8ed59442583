----------------------------- MODULE WidgetVault -----------------------------
(***************************************************************************)
(* Wallet connections: the promises a host page asks the element for, and the  *)
(* screens on which the user answers.  requestNwcConnection asks the user for   *)
(* a wallet, offerNwcConnection for leave to save one.  The handlers read       *)
(* the slots request and offer again after every await, and find what is there *)
(* by then.  What the vault does on the relays is VaultSync's subject.         *)
(***************************************************************************)
EXTENDS WidgetSignIn

Ask(kind, s) ==
  /\ Event /\ Room
  /\ asks' = [asks EXCEPT !.made = @ + 1]
  /\ el' = [s EXCEPT !.open = @ \cup {Promise(kind, asks.made + 1)}]
  /\ UNCHANGED worker

\* A request while one is pending is refused, and an extension has no vault.
RequestNwc ==
  /\ el.request = None /\ ~ el.alt
  /\ Ask("request", Post([el EXCEPT !.request = [id |-> asks.made + 1, stage |-> "auth"]],
                         Call("request_status", None)))

Offering == \E p \in el.open : p.kind = "offer"

StartOffer ==
  Ask("offer", Post(el, [Call("offer_status", None) EXCEPT !.ask = asks.made + 1]))

\* Mutant: an offer that is still being set up holds no slot.
OfferUnlessShown == el.offer = None /\ el.request = None /\ StartOffer

\* offerInFlight is claimed at once, and released when the promise is settled.
OfferNwc == el.offer = None /\ el.request = None /\ ~ Offering /\ StartOffer

-----------------------------------------------------------------------------
(* A request: signed in?  a vault?  a wallet bound to this origin?             *)

Read == UNCHANGED worker

RequestStatus ==
  /\ Answers("request_status") /\ Read
  /\ Hear(IF worker.signer = None THEN Goto(Rest, "login") ELSE ContinueVaultRequest(Rest))

Found(s, yes) ==
  IF yes THEN Goto([s EXCEPT !.candidate = TRUE], "vault-consent")
  ELSE Goto(s, "vault-import")

VaultStatus ==
  /\ Answers("vault_status") /\ Read
  /\ Hear(IF worker.vault
          THEN Post([Rest EXCEPT !.unsaved = FALSE], Call("find", None))
          ELSE Goto([Rest EXCEPT !.unsaved = TRUE], "vault-import"))

Find ==
  /\ Answers("find") /\ worker.vault /\ Read
  /\ \E yes \in BOOLEAN : Hear(Found(Rest, yes))

\* Consent.
Approve ==
  /\ On("vault-consent") /\ ~ el.busy /\ el.candidate /\ el.request # None
  /\ Click(Start(el, Call("reveal", None)))

Different ==
  /\ On("vault-consent") /\ el.candidate /\ el.request # None
  /\ Click(Goto([el EXCEPT !.candidate = FALSE], "vault-import"))

Cancel ==
  /\ el.request # None
  /\ (On("vault-consent") /\ el.candidate) \/ On("vault-import")
  /\ Click(FinishVaultRequest(el))

\* The screen that is shown gets a stamp, by showing it once more.
Flash(s) == Goto(s, s.screen)

\* The request is settled with a wallet: whichever request there is by now.
Granted(s) == Flash(FinishVaultRequest(Idle(s)))

Reveal ==
  /\ Answers("reveal") /\ Read
  /\ \/ worker.vault /\ Hear(Granted(Rest))
     \/ Hear(Fail(Rest))

\* Import: from the chooser or the form.  Without a vault the wallet is handed
\* on unsaved.
SaveAndShare(s) ==
  IF s.request = None THEN s
  ELSE IF s.unsaved THEN FinishVaultRequest(Idle(s))
  ELSE Post(s, Call("save_request", None))

Importing == On("vault-import") /\ el.request # None /\ ~ el.busy

ImportSubmit == Importing /\ Click(SaveAndShare([el EXCEPT !.busy = TRUE]))
OpenChooser  == Importing /\ Click([el EXCEPT !.busy = TRUE, !.prompts = @ \cup {"chooser"}])

ChooserCloses ==
  /\ "chooser" \in el.prompts /\ Room
  /\ UNCHANGED <<worker, asks>>
  /\ el' \in {Idle(Closed("chooser")), SaveAndShare(Closed("chooser"))}

SaveRequest ==
  /\ Answers("save_request") /\ Read
  /\ \/ worker.vault /\ Hear(Granted(Rest))
     \/ Hear(Fail(Rest))

-----------------------------------------------------------------------------
(* An offer: the user is asked if it can be saved and is not there already.    *)

Unavailable(s) == Settle(s, "offer", Asked.ask)

\* Mutant: the next step has lost the promise it is for.
NextOfAnother(s, op) == Post(s, Call(op, None))

NextOf(s, op) == Post(s, [Asked EXCEPT !.op = op])

OfferStatus ==
  /\ Answers("offer_status") /\ Read
  /\ Hear(IF worker.signer = None THEN Unavailable(Rest) ELSE NextOf(Rest, "offer_vault"))

OfferVault ==
  /\ Answers("offer_vault") /\ Read
  /\ Hear(IF worker.vault THEN NextOf(Rest, "offer_check") ELSE Unavailable(Rest))

OfferCheck ==
  /\ Answers("offer_check") /\ Read
  /\ \/ Hear(Unavailable(Rest))
     \/ worker.vault /\ Hear(Goto([Rest EXCEPT !.offer = Asked.ask], "vault-offer"))

OfferShown == On("vault-offer") /\ el.offer # None /\ ~ el.busy

SaveOffer    == OfferShown /\ Click(Start(el, Call("save_offer", None)))
DeclineOffer == OfferShown /\ Click(FinishVaultOffer(el))

OfferSaved ==
  /\ Answers("save_offer") /\ Read
  /\ \/ worker.vault /\ Hear(Flash(FinishVaultOffer(Idle(Rest))))
     \/ Hear(Fail(Rest))

-----------------------------------------------------------------------------
(* Managing the connections.                                               *)

LoadVaultManage(s) == Post(Goto(s, "vault-manage"), Call("list", None))

VaultManage == On("dashboard") /\ el.session # Extension /\ Click(LoadVaultManage(el))

List == Answers("list") /\ Read /\ Hear(Rest)

\* Revoking an app's access, or removing a connection.
Unbind == On("vault-manage") /\ ~ el.busy /\ Click(Start(el, Call("unbind", None)))

Unbound ==
  /\ Answers("unbind") /\ Read
  /\ \/ worker.vault /\ Hear(LoadVaultManage(Idle(Rest)))
     \/ Hear(Fail(Rest))

VaultAnswer ==
  \/ RequestStatus \/ VaultStatus \/ Find \/ Reveal \/ SaveRequest
  \/ OfferStatus \/ OfferVault \/ OfferCheck \/ OfferSaved \/ List \/ Unbound

VaultClick ==
  \/ Approve \/ Different \/ Cancel \/ ImportSubmit \/ OpenChooser
  \/ SaveOffer \/ DeclineOffer \/ VaultManage \/ Unbind
=============================================================================
