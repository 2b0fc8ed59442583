----------------------------- MODULE WidgetSignIn -----------------------------
(***************************************************************************)
(* The screens that sign a user in and out: login, registration with its       *)
(* phrase ceremony, recovery, rotation, passkeys, and the browser extension.   *)
(* What the calls do on the relays is Account's subject: here a call finds its  *)
(* account or fails.                                                       *)
(***************************************************************************)
EXTENDS WidgetState

\* Buttons that only show another screen, by the screen they are on.
WelcomeLinks == {"welcome"} \X {"login", "create-name", "recover-phrase"}

\* Mutant: the phrase can be put off.
PhraseLater  == {<<"create-name", "create-credential">>, <<"confirm-phrase", "verify-phrase">>,
                 <<"confirm-phrase", "dashboard">>}

SignUpLinks  == {<<"create-name", "create-credential">>, <<"confirm-phrase", "verify-phrase">>,
                 <<"verify-phrase", "confirm-phrase">>}
LoginLinks   == {<<"login", "recover-phrase">>}
ReturnLinks  == {"change-password", "vault-manage", "export"} \X {"dashboard"}

\* The account's own buttons, for an account of BitLogin.
AccountLinks == {"dashboard"} \X {"change-password", "export"}

Navigate ==
  \E scr \in {"login", "create-name", "recover-phrase", "create-credential", "verify-phrase",
              "confirm-phrase", "dashboard", "change-password", "export"} :
    /\ \/ <<el.screen, scr>> \in WelcomeLinks \cup SignUpLinks \cup LoginLinks \cup ReturnLinks
       \/ <<el.screen, scr>> \in AccountLinks /\ el.session # Extension
    /\ Click(Goto(el, scr))

\* The screens with a way back to welcome, which forgets what waited there.
WithBack == {"login", "create-name", "recover-phrase", "rollback-confirm",
             "passkey", "passkey-create", "extension-confirm"}
Back ==
  /\ el.screen \in WithBack
  /\ Click(Goto([el EXCEPT !.rollback = None, !.ext = FALSE, !.passkey = None], "welcome"))

\* The forms that end in one call of the worker; off while one is under way.
Forms == {<<"login", "login">>, <<"create-credential", "register">>,
          <<"recover-phrase", "recover">>, <<"recover-new-credentials", "complete">>,
          <<"change-password", "change">>}
Named == {"login", "register", "recover"}

Submit ==
  \E f \in Forms, i \in Ident \cup {None} :
    /\ On(f[1]) /\ ~ el.busy
    /\ (f[2] \in Named) = (i # None)
    /\ Click(Start(el, Call(f[2], i)))

-----------------------------------------------------------------------------
(* Signing in with a login name and a password.                               *)

AskRollback(s, op, i) ==
  Goto([Idle(s) EXCEPT !.rollback = [op |-> op, who |-> i]], "rollback-confirm")

Unlocked(i) == {[signer |-> i, pend |-> FALSE, vault |-> v] : v \in BOOLEAN}

\* A rollback is refused once, and then the user's to accept.
Login ==
  /\ Answers("login")
  /\ \/ worker' \in Unlocked(Asked.who) /\ Hear(SignedIn(Rest, Asked.who))
     \/ ~ Asked.ack /\ Hear(AskRollback(Rest, "login", Asked.who)) /\ UNCHANGED worker
     \/ Hear(Fail(Rest)) /\ UNCHANGED worker

RollbackRetry ==
  /\ On("rollback-confirm")
  /\ Click(Goto([el EXCEPT !.rollback = None],
       IF el.rollback # None /\ el.rollback.op = "change" THEN "change-password" ELSE "login"))

RollbackContinue ==
  /\ On("rollback-confirm")
  /\ Click(IF el.rollback = None THEN Goto(el, "welcome")
           ELSE Start([el EXCEPT !.rollback = None],
                  [Call(el.rollback.op, el.rollback.who) EXCEPT !.ack = TRUE]))

\* A cached session is adopted in silence once the worker is configured.
Configure ==
  /\ Answers("configure")
  /\ Hear(Post(Rest, Call("restore", None)))
  /\ UNCHANGED worker

Restore ==
  /\ Answers("restore")
  /\ \/ \E i \in Ident :
          /\ worker' \in Unlocked(i)
          /\ Hear(Goto(DispatchLogin([Rest EXCEPT !.session = i]), "dashboard"))
     \/ Hear(Rest) /\ UNCHANGED worker

-----------------------------------------------------------------------------
(* Registration: the account exists when the phrase is shown; the host hears   *)
(* of it when the phrase has been verified.                                  *)

Registered(s, i) == Goto([Idle(s) EXCEPT !.session = i], "confirm-phrase")

Register ==
  /\ Answers("register")
  /\ \/ worker' \in Unlocked(Asked.who) /\ Hear(Registered(Rest, Asked.who))
     \/ Hear(Fail(Rest)) /\ UNCHANGED worker

VerifyPhrase ==
  /\ On("verify-phrase")
  /\ Click(Goto(DispatchLogin(el), "dashboard"))

-----------------------------------------------------------------------------
(* Recovery and rotation.                                                  *)

\* The recovered identity is the session before it has new credentials.
Recover ==
  /\ Answers("recover")
  /\ \/ /\ worker' \in {[w EXCEPT !.pend = TRUE] : w \in Unlocked(Asked.who)}
        /\ Hear(Goto([Idle(Rest) EXCEPT !.session = Asked.who], "recover-new-credentials"))
     \/ Hear(Fail(Rest)) /\ UNCHANGED worker

CompleteRecovery ==
  /\ Answers("complete")
  /\ \/ /\ worker.pend
        /\ worker' = [worker EXCEPT !.pend = FALSE]
        /\ Hear(Goto(DispatchLogin(Idle(Rest)), "dashboard"))
     \/ Hear(Fail(Rest)) /\ UNCHANGED worker

\* The rotation asks for the old password, not for an unlocked key.
ChangePassword ==
  /\ Answers("change")
  /\ UNCHANGED worker
  /\ \/ Hear(Goto(Idle(Rest), "dashboard"))
     \/ ~ Asked.ack /\ Hear(AskRollback(Rest, "change", None))
     \/ Hear(Fail(Rest))

-----------------------------------------------------------------------------
(* Passkeys: a credential derived from the passkey takes the path of a         *)
(* password.                                                               *)

GotoPasskey ==
  /\ On("welcome")
  /\ Click(Goto([el EXCEPT !.passkey = None], "passkey"))

Ceremony(kind) ==
  /\ On("passkey") /\ ~ el.busy
  /\ Click([el EXCEPT !.busy = TRUE, !.prompts = @ \cup {kind}])

Closed(kind) == [el EXCEPT !.prompts = @ \ {kind}]

CeremonyEnds(kind) ==
  /\ kind \in el.prompts /\ Room
  /\ UNCHANGED <<worker, asks>>
  /\ \/ el' = Fail(Closed(kind))
     \/ \E i \in Ident :
          el' = IF kind = "get"
                THEN Post(Closed(kind), Call("passkey_login", i))
                ELSE Goto([Idle(Closed(kind)) EXCEPT !.passkey = i], "passkey-create")

\* A passkey without an account here is kept for a new one.
PasskeyLogin ==
  /\ Answers("passkey_login")
  /\ \/ worker' \in Unlocked(Asked.who) /\ Hear(SignedIn(Rest, Asked.who))
     \/ /\ Hear(Goto([Idle(Rest) EXCEPT !.passkey = Asked.who], "passkey-create"))
        /\ UNCHANGED worker
     \/ Hear(AskRollback(Rest, "login", Asked.who)) /\ UNCHANGED worker
     \/ Hear(Fail(Rest)) /\ UNCHANGED worker

PasskeyNew ==
  /\ On("passkey-create") /\ ~ el.busy /\ el.passkey # None
  /\ Click(Start(el, Call("passkey_register", el.passkey)))

\* The account may exist after all: the passkey signs in.
PasskeyRegister ==
  /\ Answers("passkey_register")
  /\ \/ /\ worker' \in Unlocked(Asked.who)
        /\ Hear(Registered([Rest EXCEPT !.passkey = None], Asked.who))
     \/ /\ Hear(Start([Rest EXCEPT !.passkey = None], Call("login", Asked.who)))
        /\ UNCHANGED worker
     \/ Hear(Fail(Rest)) /\ UNCHANGED worker

-----------------------------------------------------------------------------
(* The browser extension: its key is shown, and used once it is confirmed.     *)

ExtensionSignIn ==
  /\ On("welcome") /\ ~ el.busy /\ "extension" \notin el.prompts
  /\ Click([el EXCEPT !.busy = TRUE, !.prompts = @ \cup {"extension"}])

ExtensionAnswers ==
  /\ "extension" \in el.prompts
  /\ UNCHANGED <<worker, asks>>
  /\ \/ el' = Fail([Closed("extension") EXCEPT !.ext = FALSE])
     \/ el' = Goto([Idle(Closed("extension")) EXCEPT !.ext = TRUE], "extension-confirm")

\* A wallet request that waited for a sign-in is settled: there is no vault.
ExtensionConfirm ==
  /\ On("extension-confirm")
  /\ Click(IF ~ el.ext THEN Goto(el, "welcome")
           ELSE LET s == [el EXCEPT !.ext = FALSE, !.alt = TRUE, !.session = Extension]
                IN  Goto(DispatchLogin(FinishVaultRequest(s)), "dashboard"))

-----------------------------------------------------------------------------
(* Logging out, by the button or by the host.                                *)

\* An extension session ends at once, another one when the worker has answered.
Logout ==
  /\ Room
  /\ el' = IF el.alt THEN SignedOut([el EXCEPT !.alt = FALSE])
           ELSE Post(el, Call("logout", None))
  /\ UNCHANGED <<worker, asks>>

LoggedOut ==
  /\ Answers("logout")
  /\ worker' = Locked
  /\ Hear(SignedOut(Rest))

SignInAnswer ==
  \/ Login \/ Configure \/ Restore \/ Register \/ Recover \/ CompleteRecovery \/ ChangePassword
  \/ PasskeyLogin \/ PasskeyRegister \/ LoggedOut

SignInClick ==
  \/ Navigate \/ Back \/ Submit \/ RollbackRetry \/ RollbackContinue \/ VerifyPhrase
  \/ GotoPasskey \/ \E kind \in {"get", "create"} : Ceremony(kind)
  \/ PasskeyNew \/ ExtensionSignIn \/ ExtensionConfirm \/ Logout
=============================================================================
