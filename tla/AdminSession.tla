---------------------------- MODULE AdminSession ----------------------------
(***************************************************************************)
(* Who the admin panel believes it is working for: one browser tab, the    *)
(* Firebase user all tabs of the browser share, and the callbacks, token   *)
(* refreshes and sign-in attempts that are in flight between them.  The    *)
(* SDK does not wait for a callback of onIdTokenChanged, so several run at *)
(* the same time, each from the user it was called with, and each writes   *)
(* the refs and the state when its own answers arrive.                     *)
(* Passwords, texts and mails are left out; an account is what the backend *)
(* and Firebase say of it.  A definition named Slip_... is a plausible     *)
(* mistake in the one that follows it, kept to show a property catches it. *)
(***************************************************************************)
EXTENDS Integers, FiniteSets

CONSTANTS
  Users,       \* Firebase users of this browser
  None,        \* no user, no token
  Staff,       \* users whose roles may open the panel
  Unverified,  \* users with a password whose address is not verified
  Unlinked,    \* Firebase users the backend does not know yet
  Calls        \* slots: callbacks of the listener that may run at one time

ASSUME AccountsAssumption ==
  /\ None \notin Users
  /\ Staff \subseteq Users /\ Unverified \subseteq Users /\ Unlinked \subseteq Users
  /\ IsFiniteSet(Users) /\ IsFiniteSet(Calls)

VARIABLES
  fbUser,      \* auth.currentUser, shared by the tabs of the browser
  sdkFresh,    \* the SDK holds an ID token of fbUser that has not expired
  token,       \* tokenRef: whose ID token the panel sends, and if it still counts
  profileUid,  \* profileUidRef: whose profile the panel has loaded
  session,     \* AuthState: status and user
  callback,    \* per slot: a run of the onIdTokenChanged callback
  refresh,     \* the user a getIdToken() of the refresh timer is out for
  attempt,     \* the sign-in form's login() call
  linked       \* users the backend has a profile for

vars == <<fbUser, sdkFresh, token, profileUid, session, callback, refresh, attempt, linked>>

Idle == [at |-> "idle", user |-> None]
NoToken == [of |-> None, fresh |-> FALSE]
SignedOutState == [status |-> "unauthenticated", user |-> None]

\* Where a callback waits: for the ID token, fetchMe, syncAccount, a mail, signOut.
Waits == {"token", "me", "sync", "mail", "signout"}

TypeOK ==
  /\ fbUser \in Users \cup {None}
  /\ sdkFresh \in BOOLEAN
  /\ token \in [of : Users \cup {None}, fresh : BOOLEAN]
  /\ profileUid \in Users \cup {None}
  /\ session \in [status : {"loading", "authenticated", "unauthenticated"}, user : Users \cup {None}]
  /\ callback \in [Calls -> [at : Waits \cup {"idle"}, user : Users \cup {None}]]
  /\ refresh \in Users \cup {None}
  /\ attempt \in {"none", "firebase", "migrate"}
  /\ linked \subseteq Users

\* A page load: the SDK still has the user of the last visit, or nobody.
Init ==
  /\ fbUser \in Users \cup {None}
  /\ sdkFresh \in IF fbUser = None THEN {FALSE} ELSE BOOLEAN
  /\ token = NoToken
  /\ profileUid = None
  /\ session = [status |-> "loading", user |-> None]
  /\ \E c \in Calls :
       callback = [d \in Calls |-> IF d = c /\ fbUser # None
                                   THEN [at |-> "token", user |-> fbUser] ELSE Idle]
  /\ refresh = None
  /\ attempt = "none"
  /\ linked = Users \ Unlinked

FreeCall(c) == callback[c].at = "idle"
Goto(c, where) == callback' = [callback EXCEPT ![c].at = where]
Finish(c) == callback' = [callback EXCEPT ![c] = Idle]

-----------------------------------------------------------------------------
(* The Firebase SDK: it signs users in and out for all tabs and calls the  *)
(* listener, at once for nobody, in a callback that waits for a user.      *)

Slip_NobodySignedIn ==
  /\ token' = NoToken
  /\ profileUid' = None
  /\ UNCHANGED session

NobodySignedIn ==
  /\ token' = NoToken
  /\ profileUid' = None
  /\ session' = SignedOutState

SignedOut ==
  /\ fbUser' = None
  /\ sdkFresh' = FALSE
  /\ NobodySignedIn

\* A user signs in, or the token of the one who is signed in is renewed.
SignedIn(u) ==
  \E c \in Calls :
    /\ FreeCall(c)
    /\ fbUser' = u
    /\ sdkFresh' = TRUE
    /\ callback' = [callback EXCEPT ![c] = [at |-> "token", user |-> u]]

\* Nobody was signed in when the page was loaded.
RestoreNobody ==
  /\ fbUser = None
  /\ session.status = "loading"
  /\ SignedOut
  /\ UNCHANGED <<callback, refresh, attempt, linked>>

OtherTabSignsIn ==
  /\ fbUser = None
  /\ \E u \in Users : SignedIn(u)
  /\ UNCHANGED <<token, profileUid, session, refresh, attempt, linked>>

OtherTabSignsOut ==
  /\ fbUser # None
  /\ SignedOut
  /\ UNCHANGED <<callback, refresh, attempt, linked>>

\* The SDK renews the token and calls the listener with the same user.
SdkRenewsToken ==
  /\ fbUser # None
  /\ SignedIn(fbUser)
  /\ UNCHANGED <<token, profileUid, session, refresh, attempt, linked>>

-----------------------------------------------------------------------------
(* The callback of onIdTokenChanged for a user. *)

CanOpenPanel(u) == u \in Staff
MustVerify(u) == u \in Unverified

\* getIdToken answers: a plain token refresh ends here.
ApplyToken(c) ==
  /\ callback[c].at = "token"
  /\ token' = [of |-> callback[c].user, fresh |-> TRUE]
  /\ sdkFresh' = (sdkFresh \/ callback[c].user = fbUser)
  /\ IF profileUid = callback[c].user THEN Finish(c) ELSE Goto(c, "me")
  /\ UNCHANGED <<fbUser, profileUid, session, refresh, attempt, linked>>

\* getIdToken needs the network and has none: the callback throws outside its
\* try, and whatever the state was remains.
TokenFails(c) ==
  /\ callback[c].at = "token"
  /\ ~(sdkFresh /\ callback[c].user = fbUser)
  /\ Finish(c)
  /\ UNCHANGED <<fbUser, sdkFresh, token, profileUid, session, refresh, attempt, linked>>

\* rejectSession up to its await: the panel is closed, signOut is still to come.
RejectSession(c) ==
  /\ NobodySignedIn
  /\ Goto(c, "signout")

Slip_Accept(c) ==
  /\ profileUid' = callback[c].user
  /\ session' = [status |-> "authenticated", user |-> callback[c].user]
  /\ Finish(c)
  /\ UNCHANGED token

\* What a profile that arrived means for the session.
Accept(c) ==
  LET u == callback[c].user IN
  CASE ~CanOpenPanel(u) -> RejectSession(c)
    [] CanOpenPanel(u) /\ MustVerify(u) ->
         Goto(c, "mail") /\ UNCHANGED <<token, profileUid, session>>
    [] OTHER ->
         /\ profileUid' = u
         /\ session' = [status |-> "authenticated", user |-> u]
         /\ Finish(c)
         /\ UNCHANGED token

\* fetchMe answers with the profile, or that the account is not registered.
FetchMe(c) ==
  LET u == callback[c].user IN
  /\ callback[c].at = "me"
  /\ CASE u \in linked -> Accept(c)
       [] u \notin linked /\ MustVerify(u) ->
            Goto(c, "mail") /\ UNCHANGED <<token, profileUid, session>>
       [] OTHER -> Goto(c, "sync") /\ UNCHANGED <<token, profileUid, session>>
  /\ UNCHANGED <<fbUser, sdkFresh, refresh, attempt, linked>>

\* syncAccount links the verified address to a staff record, if there is one.
SyncAccount(c) ==
  LET u == callback[c].user IN
  /\ callback[c].at = "sync"
  /\ \/ linked' = linked \cup {u} /\ Accept(c)
     \/ u \notin Staff /\ RejectSession(c) /\ UNCHANGED linked
  /\ UNCHANGED <<fbUser, sdkFresh, refresh, attempt>>

\* Any other error of the two calls, a lost connection among them.
CallFails(c) ==
  /\ callback[c].at \in {"me", "sync"}
  /\ RejectSession(c)
  /\ UNCHANGED <<fbUser, sdkFresh, refresh, attempt, linked>>

\* sendEmailVerification came back, with or without success.
MailSent(c) ==
  /\ callback[c].at = "mail"
  /\ RejectSession(c)
  /\ UNCHANGED <<fbUser, sdkFresh, refresh, attempt, linked>>

\* The signOut of rejectSession signs out whoever is signed in by then.
RejectSignsOut(c) ==
  /\ callback[c].at = "signout"
  /\ Finish(c)
  /\ \/ SignedOut
     \/ UNCHANGED <<fbUser, sdkFresh, token, profileUid, session>>    \* signOut failed
  /\ UNCHANGED <<refresh, attempt, linked>>

\* The Log out button of the shell: rejectSession(null).
Logout ==
  /\ session.status = "authenticated"
  /\ \E c \in Calls :
       /\ FreeCall(c)
       /\ callback' = [callback EXCEPT ![c] = [at |-> "signout", user |-> session.user]]
  /\ NobodySignedIn
  /\ UNCHANGED <<fbUser, sdkFresh, refresh, attempt, linked>>

-----------------------------------------------------------------------------
(* The refresh timer of the tab, and time. *)

\* An hour after it was issued a token no longer counts.
HourPasses ==
  /\ sdkFresh \/ token.fresh
  /\ sdkFresh' = FALSE
  /\ token' = [token EXCEPT !.fresh = FALSE]
  /\ UNCHANGED <<fbUser, profileUid, session, callback, refresh, attempt, linked>>

Slip_StartRefresh ==
  /\ fbUser # None
  /\ refresh = None
  /\ ~token.fresh /\ token.of = None
  /\ refresh' = fbUser
  /\ UNCHANGED <<fbUser, sdkFresh, token, profileUid, session, callback, attempt, linked>>

\* The timer, or the tab is shown, gets the focus or is online again.
StartRefresh ==
  /\ fbUser # None
  /\ refresh = None
  /\ refresh' = fbUser
  /\ UNCHANGED <<fbUser, sdkFresh, token, profileUid, session, callback, attempt, linked>>

Slip_RefreshDone ==
  /\ refresh # None
  /\ refresh' = None
  /\ token' = [of |-> refresh, fresh |-> TRUE]
  /\ sdkFresh' = (sdkFresh \/ refresh = fbUser)
  /\ UNCHANGED <<fbUser, profileUid, session, callback, attempt, linked>>

\* getIdToken answers. When it had to renew the token of the current user, the
\* SDK calls the listener as well.
RefreshDone ==
  /\ refresh # None
  /\ refresh' = None
  /\ token' = [of |-> refresh, fresh |-> TRUE]
  /\ IF refresh = fbUser /\ ~sdkFresh
     THEN SignedIn(refresh)
     ELSE UNCHANGED <<fbUser, sdkFresh, callback>>
  /\ UNCHANGED <<profileUid, session, attempt, linked>>

RefreshFails ==
  /\ refresh # None
  /\ ~(sdkFresh /\ refresh = fbUser)
  /\ refresh' = None
  /\ UNCHANGED <<fbUser, sdkFresh, token, profileUid, session, callback, attempt, linked>>

-----------------------------------------------------------------------------
(* The sign-in form. It is shown, and enabled, whenever nobody is          *)
(* authenticated and no login() of its own is out - also while a callback  *)
(* is still deciding about the last sign-in.                               *)

Submit ==
  /\ session.status = "unauthenticated"
  /\ attempt = "none"
  /\ attempt' \in {"firebase", "migrate"}        \* an address, or a phone number
  /\ UNCHANGED <<fbUser, sdkFresh, token, profileUid, session, callback, refresh, linked>>

\* signInWithEmailAndPassword succeeds: the listener takes it from there.
LoginSucceeds ==
  /\ attempt = "firebase"
  /\ attempt' = "none"
  /\ \E u \in Users : SignedIn(u)
  /\ UNCHANGED <<token, profileUid, session, refresh, linked>>

\* Firebase does not know the password: try the account's one-time migration.
TryMigration ==
  /\ attempt = "firebase"
  /\ attempt' = "migrate"
  /\ UNCHANGED <<fbUser, sdkFresh, token, profileUid, session, callback, refresh, linked>>

\* The backend moved the account to Firebase, where the panel signs it in.
MigrationSucceeds ==
  /\ attempt = "migrate"
  /\ attempt' = "none"
  /\ \E u \in Users : SignedIn(u)
  /\ UNCHANGED <<token, profileUid, session, refresh, linked>>

\* The catch of login(): the error is shown on the form, whoever may be signed in.
LoginFails ==
  /\ attempt # "none"
  /\ attempt' = "none"
  /\ session' = SignedOutState
  /\ UNCHANGED <<fbUser, sdkFresh, token, profileUid, callback, refresh, linked>>

-----------------------------------------------------------------------------
CallbackStep(c) ==
  ApplyToken(c) \/ FetchMe(c) \/ SyncAccount(c) \/ CallFails(c) \/ MailSent(c) \/ RejectSignsOut(c)

Next ==
  \/ RestoreNobody \/ OtherTabSignsIn \/ OtherTabSignsOut \/ SdkRenewsToken
  \/ \E c \in Calls : CallbackStep(c) \/ TokenFails(c)
  \/ Logout \/ HourPasses \/ StartRefresh \/ RefreshDone \/ RefreshFails
  \/ Submit \/ LoginSucceeds \/ TryMigration \/ MigrationSucceeds \/ LoginFails

\* Calls are answered, and the timer, which fires for as long as the tab is
\* open, and the callback get a token through now and then.
Fairness ==
  /\ WF_vars(RestoreNobody)
  /\ \A c \in Calls : WF_vars(CallbackStep(c) \/ TokenFails(c)) /\ SF_vars(ApplyToken(c))
  /\ WF_vars(StartRefresh)
  /\ SF_vars(RefreshDone)

Spec == Init /\ [][Next]_vars
FairSpec == Spec /\ Fairness

-----------------------------------------------------------------------------
(* Properties. *)

\* The panel is open only for somebody whose roles may open it, whose address
\* is verified and whom the backend knows, whatever callbacks of other users
\* end before or after (the checks of the callback in auth-context.tsx).
PanelOnlyForStaff ==
  session.status = "authenticated" =>
    session.user \in (Staff \cap linked) \ Unverified

\* The panel loads a profile only for the user it shows or for nobody: when
\* it shows somebody, later callbacks of that same user are token refreshes.
ProfileMatchesSession ==
  session.status = "authenticated" => profileUid = session.user

\* A page load is decided: the panel does not stay at "Checking your session",
\* not even when the persisted token has expired and the first getIdToken of the
\* callback throws for want of a network, outside its try: the refresh timer
\* then renews the token, and that calls the listener again.
PageLoadDecided ==
  session.status = "loading" ~> session.status # "loading"

\* An expired token is replaced, or whoever it belonged to is signed out: the
\* timer makes up for the SDK's own timer, which sleeps in a hidden tab.
ExpiredTokenReplaced ==
  (token.of # None /\ ~token.fresh) ~> (token.fresh \/ fbUser = None)
=============================================================================
