---------------------------- MODULE MobileSession ----------------------------
(***************************************************************************)
(* Who is signed in to the mobile app.  Firebase keeps the session and     *)
(* tells a listener of every new token; the store maps the Firebase user   *)
(* to a customer of the backend (POST /auth/sync, retried while the host   *)
(* wakes), lets a returning customer in from a cached profile meanwhile,   *)
(* and AppGate moves to the screens that the store's status allows.        *)
(* Sign-outs, checks of the e-mail address, answers of an earlier session  *)
(* and relaunches fall in between.                                         *)
(* An account has one way to sign in, a sign-in at Firebase is one step    *)
(* into which no renewal of another token falls, the listener is called    *)
(* before the next sign-in, and an address once verified stays so: an      *)
(* EMAIL_NOT_VERIFIED answer to a customer who was let in does not occur.  *)
(* A definition named Slip_... is a plausible mistake in the one that      *)
(* follows it, kept to show that a property catches it.                    *)
(***************************************************************************)
EXTENDS Naturals, Sequences

CONSTANTS
  Accounts,    \* Firebase users
  Password,    \* those that sign in with e-mail and password
  Partners,    \* those whose customer is a delivery partner
  NoOne,       \* no account
  MaxEvents,   \* bound: presses, renewals, links, bans and relaunches
  MaxTries     \* retries of a sync (SYNC_RETRY_DELAYS_MS has six)

ASSUME SessionAssumption ==
  /\ Password \subseteq Accounts /\ Partners \subseteq Accounts /\ NoOne \notin Accounts
  /\ MaxEvents \in Nat /\ MaxTries \in Nat

VARIABLES
  fb,         \* auth().currentUser
  calls,      \* calls of the token listener that are under way: the user of each
  proven,     \* accounts without an e-mail address that is still to be verified
  claims,     \* those whose token says so
  banned,     \* accounts the backend refuses
  homes,      \* accounts with a saved address
  status, user, who, synced,  \* the store's status, user, firebaseUser and syncedUid
  sync,       \* syncInFlight
  reading,    \* handleFirebaseUser waits for the cached profile
  cache,      \* the profile in AsyncStorage and the uid it is stored under
  ask,        \* refreshUser or the sync after an added phone number
  leaving,    \* logout() calls that unregister the push token first
  pending,    \* whose Google sign-in waits to be linked
  addr, read, \* the "addresses" query: its data, and the request that is out
  screen,     \* the route
  strayed,    \* history: an answer was taken for someone who was not signed in any more
  events

server == <<proven, banned, homes>>
store == <<status, user, who, synced, sync, reading, ask>>
query == <<addr, read>>
vars == <<fb, calls, claims, server, store, cache, leaving, pending, query, screen, strayed, events>>

Somebody == Accounts \cup {NoOne}

Profile == [who : Somebody, verified : BOOLEAN]
NoProfile == [who |-> NoOne, verified |-> FALSE]

\* A request carries the token Firebase has when it is sent.
Token == [as : Somebody, verified : BOOLEAN]
TokenNow == [as |-> fb, verified |-> fb \in claims]
NoToken == [as |-> NoOne, verified |-> FALSE]

\* What the backend answers to a token that it accepts.
Answer(token) == [who |-> token.as, verified |-> token.verified]
Refused(token) == token.as = NoOne \/ token.as \in banned

NoSync == [at |-> "none", who |-> NoOne, tries |-> 0, token |-> NoToken]
NoAsk == [at |-> "none", token |-> NoToken]
NoRead == [out |-> FALSE, as |-> NoOne]
NoAddresses == [at |-> "none", as |-> NoOne, any |-> FALSE]

TypeOK ==
  /\ fb \in Somebody /\ calls \in Seq(Somebody)
  /\ proven \subseteq Accounts /\ claims \subseteq proven
  /\ banned \subseteq Accounts /\ homes \subseteq Accounts
  /\ status \in {"restoring", "unauthenticated", "verifyingEmail", "authenticated"}
  /\ user \in Profile /\ who \in Somebody /\ synced \in Somebody
  /\ sync \in [at : {"none", "out", "wait", "leaving"}, who : Somebody,
               tries : 0..MaxTries, token : Token]
  /\ reading \in Seq([who : Accounts, cached : Profile])
  /\ cache \in [uid : Somebody, user : Profile]
  /\ ask \in [at : {"none", "reload", "me", "link"}, token : Token]
  /\ leaving \in Nat /\ pending \in Password \cup {NoOne}
  /\ addr \in [at : {"none", "data", "failed"}, as : Somebody, any : BOOLEAN]
  /\ read \in [out : BOOLEAN, as : Somebody]
  /\ screen \in {"login", "link", "verify", "action", "onboarding", "tabs", "partner"}
  /\ strayed \in BOOLEAN /\ events \in 0..MaxEvents

NeedsEmail(p) == p.who \in Password /\ ~p.verified
Settled(p) == IF NeedsEmail(p) THEN "verifyingEmail" ELSE "authenticated"

NoCache == [uid |-> NoOne, user |-> NoProfile]

Init ==
  /\ fb \in Somebody
  /\ proven \in {Accounts, Accounts \ Password} /\ claims = proven
  /\ cache \in {NoCache, [uid |-> fb, user |-> [who |-> fb, verified |-> fb \in proven]]}
  /\ banned = {} /\ homes \in SUBSET Accounts
  /\ calls = <<fb>> /\ status = "restoring" /\ user = NoProfile /\ who = NoOne /\ synced = NoOne
  /\ sync = NoSync /\ reading = <<>> /\ ask = NoAsk /\ leaving = 0 /\ pending = NoOne
  /\ addr = NoAddresses /\ read = NoRead /\ screen = "tabs" /\ strayed = FALSE
  /\ events = 0

Event == events < MaxEvents /\ events' = events + 1

-----------------------------------------------------------------------------
(* The listener and the sync. *)

\* syncWithBackend: a sync that is in flight is joined, whoever it is for.
BeginSync(u) ==
  sync' = IF sync.at # "none" THEN sync
          ELSE [at |-> "out", who |-> u, tries |-> 0, token |-> TokenNow]

Slip_NobodySignedIn ==
  /\ calls # <<>> /\ Head(calls) = NoOne
  /\ calls' = Tail(calls)
  /\ synced' = NoOne /\ cache' = NoCache
  /\ status' = "unauthenticated" /\ user' = NoProfile /\ who' = NoOne
  /\ UNCHANGED <<fb, claims, server, sync, reading, ask, leaving, pending, query, screen, strayed, events>>

Slip_LeftToTheSync ==
  /\ calls # <<>> /\ Head(calls) = NoOne
  /\ calls' = Tail(calls) /\ who' = NoOne
  /\ IF sync # NoSync THEN UNCHANGED <<synced, cache, query, status, user>>
     ELSE /\ synced' = NoOne /\ cache' = NoCache /\ addr' = NoAddresses /\ read' = NoRead
          /\ status' = "unauthenticated" /\ user' = NoProfile
  /\ UNCHANGED <<fb, claims, server, sync, reading, ask, leaving, pending, screen, strayed, events>>

\* handleFirebaseUser(null); every cached query is dropped, also one that is out.
NobodySignedIn ==
  /\ calls # <<>> /\ Head(calls) = NoOne
  /\ calls' = Tail(calls)
  /\ synced' = NoOne /\ cache' = NoCache /\ addr' = NoAddresses /\ read' = NoRead
  /\ status' = "unauthenticated" /\ user' = NoProfile /\ who' = NoOne
  /\ UNCHANGED <<fb, claims, server, sync, reading, ask, leaving, pending, screen, strayed, events>>

\* handleFirebaseUser(u): a renewed token of the customer who is in changes nothing.
SomebodySignedIn ==
  /\ calls # <<>> /\ Head(calls) # NoOne
  /\ calls' = Tail(calls) /\ who' = Head(calls)
  /\ \/ synced = who' /\ user # NoProfile /\ UNCHANGED <<sync, reading>>
     \/ /\ ~(synced = who' /\ user # NoProfile) /\ status = "restoring"
        /\ reading' = Append(reading, [who |-> who',
                       cached |-> IF cache.uid = who' THEN cache.user ELSE NoProfile])
        /\ UNCHANGED sync
     \/ /\ ~(synced = who' /\ user # NoProfile) /\ status # "restoring"
        /\ BeginSync(who') /\ UNCHANGED reading
  /\ UNCHANGED <<fb, claims, server, status, user, synced, ask, cache, leaving, pending,
                 query, screen, strayed, events>>

\* The cached profile lets a returning customer in; the sync confirms it afterwards.
CacheRead ==
  /\ reading # <<>> /\ reading' = Tail(reading)
  /\ LET r == Head(reading) IN
     /\ IF r.cached = NoProfile \/ NeedsEmail(r.cached) THEN UNCHANGED <<status, user, strayed>>
        ELSE status' = "authenticated" /\ user' = r.cached /\ strayed' = (strayed \/ r.who # fb)
     /\ BeginSync(r.who)
  /\ UNCHANGED <<fb, calls, claims, server, who, synced, ask, cache, leaving, pending, query, screen, events>>

\* Nothing asks here who is signed in now.
SyncServed ==
  /\ sync.at = "out" /\ ~Refused(sync.token)
  /\ LET p == Answer(sync.token) IN
     /\ status' = Settled(p) /\ user' = p
     /\ cache' = [uid |-> sync.who, user |-> p]
     /\ strayed' = (strayed \/ p.who # fb \/ sync.who # fb)
  /\ synced' = sync.who /\ sync' = NoSync
  /\ UNCHANGED <<fb, calls, claims, server, who, reading, ask, leaving, pending, query, screen, events>>

Slip_GiveUpQuietly ==
  /\ sync.at = "out" /\ who # sync.who
  /\ sync' = [sync EXCEPT !.at = "wait"]
  /\ UNCHANGED <<fb, calls, claims, server, status, user, who, synced, reading, ask, cache, leaving,
                 pending, query, screen, strayed, events>>

\* "Signed out (or switched account) while waiting": any failure ends the sync.
GiveUpQuietly ==
  /\ sync.at = "out" /\ who # sync.who
  /\ sync' = NoSync
  /\ UNCHANGED <<fb, calls, claims, server, status, user, who, synced, reading, ask, cache, leaving,
                 pending, query, screen, strayed, events>>

SyncRefused ==
  /\ sync.at = "out" /\ who = sync.who /\ Refused(sync.token)
  /\ synced' = NoOne /\ cache' = NoCache
  /\ sync' = [sync EXCEPT !.at = "leaving"]
  /\ UNCHANGED <<fb, calls, claims, server, status, user, who, reading, ask, leaving, pending, query,
                 screen, strayed, events>>

\* The host is not reached: again after a pause, at last the customer is told, but one who
\* was let in stays in.
SyncFails ==
  /\ sync.at = "out" /\ who = sync.who
  /\ \/ /\ sync.tries < MaxTries
        /\ sync' = [sync EXCEPT !.at = "wait", !.tries = @ + 1]
        /\ UNCHANGED <<status, user, synced>>
     \/ /\ sync.tries = MaxTries
        /\ sync' = NoSync /\ synced' = NoOne
        /\ IF status = "authenticated" THEN UNCHANGED <<status, user>>
           ELSE status' = "unauthenticated" /\ user' = NoProfile
  /\ UNCHANGED <<fb, calls, claims, server, who, reading, ask, cache, leaving, pending, query, screen,
                 strayed, events>>

SyncAgain ==
  /\ sync.at = "wait"
  /\ sync' = [sync EXCEPT !.at = "out", !.token = TokenNow]
  /\ UNCHANGED <<fb, calls, claims, server, status, user, who, synced, reading, ask, cache, leaving,
                 pending, query, screen, strayed, events>>

\* fb.signOut: Firebase forgets the user, the listener hears of it, the credential is gone.
SignOutOfFirebase ==
  /\ fb' = NoOne /\ pending' = NoOne
  /\ calls' = IF fb = NoOne THEN calls ELSE Append(calls, NoOne)

\* A refused identity is signed out of Firebase before the store says so.
RefusedIsOut ==
  /\ sync.at = "leaving" /\ sync' = NoSync
  /\ SignOutOfFirebase
  /\ status' = "unauthenticated" /\ user' = NoProfile
  /\ UNCHANGED <<claims, server, who, synced, reading, ask, cache, leaving, query, screen, strayed, events>>

-----------------------------------------------------------------------------
(* What the customer does. *)

\* Signed in at Firebase, with the token it gives.
SignedInAs(u) ==
  /\ fb' = u /\ calls' = <<u>>
  /\ claims' = IF u \in proven THEN claims \cup {u} ELSE claims

Slip_MaySignIn ==
  /\ status = "unauthenticated" /\ calls = <<>> /\ reading = <<>> /\ Event

\* Not under SyncOverlay.
MaySignIn ==
  /\ status = "unauthenticated" /\ sync = NoSync /\ calls = <<>> /\ reading = <<>> /\ Event

\* A sign-in with e-mail takes a pending Google credential with it.
Login(u) ==
  /\ MaySignIn /\ SignedInAs(u) /\ pending' = NoOne
  /\ UNCHANGED <<server, store, cache, leaving, query, screen, strayed>>

LoginScreen(u) == screen = "login" /\ Login(u)

\* The linking screen gives the address.
LinkAccountScreen == screen = "link" /\ pending # NoOne /\ Login(pending)

\* With a code sent to a phone, or with Google.
LoginWithPhone(u) ==
  /\ screen \in {"login", "link"}
  /\ MaySignIn /\ SignedInAs(u) /\ pending' = pending
  /\ UNCHANGED <<server, store, cache, leaving, query, screen, strayed>>

\* Google's address belongs to an account with a password.
GoogleExists(u) ==
  /\ status = "unauthenticated" /\ sync = NoSync /\ screen = "login" /\ Event
  /\ pending' = u /\ screen' = "link"
  /\ UNCHANGED <<fb, calls, claims, server, store, cache, leaving, query, strayed>>

BackToSignIn ==
  /\ screen = "link" /\ screen' = "login"
  /\ UNCHANGED <<fb, calls, claims, server, store, cache, leaving, pending, query, strayed, events>>

\* From the account tab, the partner's page, or the screen that waits for the e-mail address.
Logout ==
  /\ status # "restoring" /\ screen \in {"tabs", "partner", "verify"}
  /\ screen = "verify" => sync = NoSync
  /\ Event /\ leaving' = leaving + 1 /\ pending' = pending
  /\ UNCHANGED <<fb, calls, claims, server, store, cache, query, screen, strayed>>

LogoutDone ==
  /\ leaving > 0 /\ leaving' = leaving - 1
  /\ SignOutOfFirebase
  /\ UNCHANGED <<claims, server, store, cache, query, screen, strayed, events>>

\* refreshUser: by hand or on return to the app, and by a link opened in the app.
Check ==
  /\ screen \in {"verify", "action"} /\ (screen = "action" => status = "verifyingEmail")
  /\ ask = NoAsk /\ fb # NoOne /\ Event
  /\ ask' = [NoAsk EXCEPT !.at = "reload"]
  /\ UNCHANGED <<fb, calls, claims, server, status, user, who, synced, sync, reading, cache, leaving,
                 pending, query, screen, strayed>>

\* reloadUser has forced a new token; without a user the profile is not asked for.
Reloaded ==
  /\ ask.at = "reload" /\ who' = fb
  /\ claims' = claims \cup ({fb} \cap proven)
  /\ IF fb = NoOne THEN ask' = NoAsk /\ UNCHANGED calls
     ELSE /\ ask' = [at |-> "me", token |-> [as |-> fb, verified |-> fb \in proven]]
          /\ calls' = Append(calls, fb)
  /\ UNCHANGED <<fb, server, status, user, synced, sync, reading, cache, leaving, pending, query, screen,
                 strayed, events>>

\* The phone number is confirmed at Firebase, and the sync copies it.
AddPhone ==
  /\ screen = "tabs" /\ status = "authenticated" /\ fb # NoOne /\ ask = NoAsk /\ Event
  /\ ask' = [at |-> "link", token |-> TokenNow]
  /\ UNCHANGED <<fb, calls, claims, server, status, user, who, synced, sync, reading, cache, leaving,
                 pending, query, screen, strayed>>

\* The profile is taken, whoever is signed in by now; refreshUser settles the status too.
AskAnswered ==
  /\ ask.at \in {"me", "link"} /\ ~Refused(ask.token) /\ ask' = NoAsk
  /\ user' = Answer(ask.token) /\ strayed' = (strayed \/ ask.token.as # fb)
  /\ status' = IF ask.at = "me" THEN Settled(user') ELSE status
  /\ UNCHANGED <<fb, calls, claims, server, who, synced, sync, reading, cache, leaving, pending, query,
                 screen, events>>

AskFails ==
  /\ ask.at \in {"me", "link"} /\ ask' = NoAsk
  /\ UNCHANGED <<fb, calls, claims, server, status, user, who, synced, sync, reading, cache, leaving,
                 pending, query, screen, strayed, events>>

-----------------------------------------------------------------------------
(* Addresses and the gate. *)

IsPartner == user.who \in Partners
Enabled == status = "authenticated" /\ ~IsPartner

\* Fetched when there is nothing to show, and again when it is old and asked for.
ReadAddresses ==
  /\ Enabled /\ ~read.out
  /\ IF addr.at = "none" THEN UNCHANGED events ELSE Event
  /\ read' = [out |-> TRUE, as |-> fb]
  /\ UNCHANGED <<fb, calls, claims, server, store, cache, leaving, pending, addr, screen, strayed>>

ReadServed ==
  /\ read.out /\ read.as # NoOne /\ read.as \notin banned
  /\ addr' = [at |-> "data", as |-> read.as, any |-> read.as \in homes]
  /\ read' = NoRead
  /\ UNCHANGED <<fb, calls, claims, server, store, cache, leaving, pending, screen, strayed, events>>

NotRead == addr' = IF addr.at = "none" THEN [addr EXCEPT !.at = "failed"] ELSE addr

ReadFails ==
  /\ read.out /\ read' = NoRead /\ NotRead
  /\ UNCHANGED <<fb, calls, claims, server, store, cache, leaving, pending, screen, strayed, events>>

\* A 401 outside /auth/ ends the session that is there when it arrives.
ReadRejected ==
  /\ read.out /\ (read.as = NoOne \/ read.as \in banned) /\ read' = NoRead /\ NotRead
  /\ leaving' = IF status \in {"unauthenticated", "restoring"} THEN leaving ELSE leaving + 1
  /\ UNCHANGED <<fb, calls, claims, server, store, cache, pending, screen, strayed, events>>

\* The list is read again after a change of it.
ChangedTo(some) ==
  /\ status = "authenticated" /\ fb # NoOne /\ fb \notin banned /\ Event
  /\ homes' = some /\ read' = [out |-> TRUE, as |-> fb]
  /\ UNCHANGED <<fb, calls, claims, proven, banned, store, cache, leaving, pending, addr, screen, strayed>>

CreateAddress == screen \in {"onboarding", "tabs"} /\ ChangedTo(homes \cup {fb})

DeleteAddress == screen = "tabs" /\ ChangedTo(homes \ {fb})

InAuthGroup == screen \in {"login", "link", "verify"}
Loading == addr.at = "none"
HasAddress == addr.at = "data" /\ addr.any

Slip_Gate ==
  /\ status # "restoring" /\ screen # "action"
  /\ \/ status = "unauthenticated" /\ ~InAuthGroup /\ screen' = "login"
     \/ status = "verifyingEmail" /\ screen # "verify" /\ screen' = "verify"
     \/ Enabled /\ ~Loading /\ ~HasAddress /\ screen # "onboarding" /\ screen' = "onboarding"
     \/ Enabled /\ HasAddress /\ (InAuthGroup \/ screen = "onboarding") /\ screen' = "tabs"
     \/ status = "authenticated" /\ IsPartner /\ screen # "partner" /\ screen' = "partner"
  /\ UNCHANGED <<fb, calls, claims, server, store, cache, leaving, pending, query, strayed, events>>

\* AppGate's effect, after every change of what it looks at.
Gate ==
  /\ status # "restoring" /\ screen # "action"
  /\ \/ status = "unauthenticated" /\ (~InAuthGroup \/ screen = "verify") /\ screen' = "login"
     \/ status = "verifyingEmail" /\ screen # "verify" /\ screen' = "verify"
     \/ Enabled /\ ~Loading /\ ~HasAddress /\ screen # "onboarding" /\ screen' = "onboarding"
     \/ Enabled /\ HasAddress /\ (InAuthGroup \/ screen = "onboarding") /\ screen' = "tabs"
     \/ status = "authenticated" /\ IsPartner /\ screen # "partner" /\ screen' = "partner"
  /\ UNCHANGED <<fb, calls, claims, server, store, cache, leaving, pending, query, strayed, events>>

\* A link of a mail is opened in the app, and left for the sign-in screen.
OpenLink ==
  /\ status # "restoring" /\ screen # "action" /\ Event /\ screen' = "action"
  /\ UNCHANGED <<fb, calls, claims, server, store, cache, leaving, pending, query, strayed>>

LeaveLink ==
  /\ screen = "action" /\ screen' = "login"
  /\ UNCHANGED <<fb, calls, claims, server, store, cache, leaving, pending, query, strayed, events>>

-----------------------------------------------------------------------------
(* Around the app. *)

\* The e-mail address is verified, in a browser or by a link in the app.
VerifyEmail(u) ==
  /\ u \notin proven /\ proven' = proven \cup {u}
  /\ UNCHANGED <<fb, calls, claims, banned, homes, store, cache, leaving, pending, query, screen, strayed, events>>

\* The SDK renews the token before it expires.
Renew ==
  /\ fb # NoOne /\ calls = <<>> /\ reading = <<>> /\ Event
  /\ SignedInAs(fb)
  /\ UNCHANGED <<server, store, cache, leaving, pending, query, screen, strayed>>

Ban(u) ==
  /\ u \notin banned /\ Event /\ banned' = banned \cup {u}
  /\ UNCHANGED <<fb, calls, claims, proven, homes, store, cache, leaving, pending, query, screen, strayed>>

\* A launch: the listener is told of the session Firebase kept.
Relaunch ==
  /\ UNCHANGED <<fb, claims, server, cache>> /\ Event
  /\ calls' = <<fb>> /\ status' = "restoring" /\ user' = NoProfile /\ who' = NoOne /\ synced' = NoOne
  /\ sync' = NoSync /\ reading' = <<>> /\ ask' = NoAsk /\ leaving' = 0 /\ pending' = NoOne
  /\ addr' = NoAddresses /\ read' = NoRead /\ screen' = "tabs" /\ strayed' = FALSE

-----------------------------------------------------------------------------
Listener == NobodySignedIn \/ SomebodySignedIn
SyncStep == SyncServed \/ GiveUpQuietly \/ SyncRefused \/ SyncFails \/ SyncAgain \/ RefusedIsOut
AskStep == Reloaded \/ AskAnswered \/ AskFails
ReadStep == ReadServed \/ ReadFails \/ ReadRejected

Next ==
  \/ Listener \/ CacheRead \/ SyncStep \/ AskStep \/ ReadStep \/ LogoutDone \/ Gate \/ ReadAddresses
  \/ \E u \in Password : LoginScreen(u) \/ GoogleExists(u)
  \/ \E u \in Accounts \ Password : LoginWithPhone(u)
  \/ \E u \in Accounts : VerifyEmail(u) \/ Ban(u)
  \/ LinkAccountScreen \/ BackToSignIn \/ Logout \/ Check \/ AddPhone
  \/ CreateAddress \/ DeleteAddress
  \/ OpenLink \/ LeaveLink \/ Renew \/ Relaunch

Spec == Init /\ [][Next]_vars

\* Listener calls, effects and timers run, and every request ends within its time limit.
Fairness ==
  /\ WF_vars(Listener) /\ WF_vars(CacheRead) /\ WF_vars(SyncStep) /\ WF_vars(AskStep)
  /\ WF_vars(ReadStep) /\ WF_vars(LogoutDone) /\ WF_vars(Gate)
  /\ WF_vars(ReadAddresses /\ UNCHANGED events)

FairSpec == Spec /\ Fairness

-----------------------------------------------------------------------------
(* Safety. *)

(* The profile kept for the next launch belongs to the account it is kept  *)
(* for, though a sync that waited sends whatever token there is by then    *)
(* and joins whoever comes.                                                *)
CacheIsTheirs == cache.user.who = cache.uid

(* Once the listener has been called, nobody sees the addresses, or is let *)
(* past the first address, of somebody who used the app before ("Every     *)
(* cached query belonged to the session that just ended").                 *)
DataIsTheirs == status = "authenticated" /\ calls = <<>> /\ addr.at = "data" => addr.as = fb

(* Somebody else's profile is shown to the one who is signed in only if an *)
(* answer of an earlier session was taken: all other orders of sign-ins,   *)
(* renewals, cached profiles and syncs bring the right one.                *)
StrangerNeedsLateAnswer ==
  status = "authenticated" /\ calls = <<>> /\ user.who # fb => strayed

(* Who must still verify an e-mail address is not let in, from the cached  *)
(* profile, by a sync, a check or an added phone number, unless an answer  *)
(* of an earlier session was taken before.                                 *)
UnverifiedStayOut == status = "authenticated" /\ NeedsEmail(user) => strayed

-----------------------------------------------------------------------------
(* Liveness. *)

(* The splash screen goes, with or without a backend. *)
SplashEnds == status = "restoring" ~> status # "restoring"

(* "Signing you in..." does not stay for ever. *)
OverlayEnds == sync # NoSync ~> sync = NoSync

(* Everybody is moved to a screen that the session allows, and stays on no *)
(* other, but for one who is shown somebody else's profile.                *)
Allowed ==
  CASE screen = "action" -> TRUE
    [] status = "restoring" -> FALSE
    [] status = "unauthenticated" -> screen \in {"login", "link"}
    [] status = "verifyingEmail" -> screen = "verify"
    [] OTHER -> IF IsPartner THEN screen = "partner"
                ELSE screen = (IF HasAddress THEN "tabs" ELSE "onboarding")

ScreenFollows == ~Allowed ~> Allowed \/ strayed

-----------------------------------------------------------------------------
(* What the comments of the code say and these steps refute. *)

(* "handleFirebaseUser(null) resets the rest." *)
SignedOutStays ==
  fb = NoOne /\ calls = <<>> => status \in {"restoring", "unauthenticated"}

(* A pending Google credential "is then linked to that same account".      *)
LinkedToSame ==
  [][\A u \in Accounts : pending # NoOne /\ pending' = NoOne /\ fb' = u => pending = u]_<<pending, fb>>
=============================================================================
