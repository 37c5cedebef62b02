------------------------- MODULE AdminSession_proofs -------------------------
(***************************************************************************)
(* Proofs about the admin panel.                                           *)
(*                                                                         *)
(* First its session, for any set of users and any number of callbacks at  *)
(* one time: the variables keep their types, the panel is open only for    *)
(* staff whom the backend knows, and it shows the user whose profile it    *)
(* loaded.  Each callback checks its own user before it writes, and        *)
(* nothing takes a user off the backend's list, so what was checked when   *)
(* the panel was opened stays true in whatever order the other callbacks,  *)
(* the timer and the sign-in form write afterwards.                        *)
(*                                                                         *)
(* Then its pages, for any pages that ScreensAssumption and                *)
(* FormsAssumption admit, any rows and any number of reads and calls: what *)
(* a page at rest shows, what its flags keep apart, what the server        *)
(* refuses, what an error leaves in a form and what a form creates.        *)
(***************************************************************************)
EXTENDS AdminSession, AdminPages, SequenceTheorems, TLAPS

CallType == [at : Waits \cup {"idle"}, user : Users \cup {None}]

PanelInv == PanelOnlyForStaff /\ ProfileMatchesSession

(* A callback that runs was called with a user.                            *)
CalledWithUser == \A c \in Calls : callback[c].at # "idle" => callback[c].user \in Users

SessionType == [status : {"loading", "authenticated", "unauthenticated"}, user : Users \cup {None}]

IInv == TypeOK /\ CalledWithUser /\ PanelInv
-----------------------------------------------------------------------------
(* The writes that several actions share. *)

\* What a slot holds after a write of one of them.
CallsOK == callback' \in [Calls -> CallType] /\ CalledWithUser'

\* What the session, the profile and the token hold after a write.
OpenOK ==
  /\ token' \in [of : Users \cup {None}, fresh : BOOLEAN] /\ profileUid' \in Users \cup {None}
  /\ session' \in SessionType /\ PanelInv'

\* The listener is called with a user, in a free slot.
LEMMA SignedInKeeps ==
  ASSUME IInv, NEW u \in Users, SignedIn(u)
  PROVE  fbUser' \in Users \cup {None} /\ sdkFresh' \in BOOLEAN /\ CallsOK
<1>1. [at |-> "token", user |-> u] \in CallType
  BY DEF CallType, Waits
<1>2. PICK c \in Calls : callback' = [callback EXCEPT ![c] = [at |-> "token", user |-> u]]
  BY DEF SignedIn
<1>3. callback \in [Calls -> CallType]
  BY DEF IInv, TypeOK, CallType
<1> QED
  BY <1>1, <1>2, <1>3 DEF SignedIn, IInv, CalledWithUser, CallsOK

LEMMA GotoKeeps ==
  ASSUME IInv, NEW c \in Calls, callback[c].at # "idle", NEW where \in Waits, Goto(c, where)
  PROVE  CallsOK
<1>1. callback \in [Calls -> CallType]
  BY DEF IInv, TypeOK, CallType
<1>2. callback[c] \in CallType /\ callback[c].user \in Users
  BY <1>1 DEF IInv, CalledWithUser
<1>3. /\ [callback[c] EXCEPT !.at = where] \in CallType
      /\ [callback[c] EXCEPT !.at = where].user = callback[c].user
  BY <1>2 DEF CallType
<1>4. callback' = [callback EXCEPT ![c] = [callback[c] EXCEPT !.at = where]]
  BY <1>1 DEF Goto
<1> QED
  BY <1>1, <1>2, <1>3, <1>4 DEF IInv, CalledWithUser, CallsOK

LEMMA FinishKeeps ==
  ASSUME IInv, NEW c \in Calls, Finish(c)
  PROVE  CallsOK
<1>1. callback \in [Calls -> CallType]
  BY DEF IInv, TypeOK, CallType
<1>2. Idle \in CallType /\ Idle.at = "idle"
  BY DEF Idle, CallType
<1> QED
  BY <1>1, <1>2 DEF Finish, IInv, CalledWithUser, CallsOK

\* Nobody is signed in: what both properties say of a user who is, is void.
LEMMA NobodyIsSafe == ASSUME NobodySignedIn PROVE OpenOK
BY DEF NobodySignedIn, NoToken, SignedOutState, PanelInv, PanelOnlyForStaff, ProfileMatchesSession,
       OpenOK, SessionType

\* The backend's list only grows, and nothing else is written: what was checked still holds.
LEMMA UntouchedIsSafe ==
  ASSUME IInv, linked \subseteq linked', UNCHANGED <<token, profileUid, session>>
  PROVE  OpenOK
BY DEF IInv, TypeOK, SessionType, PanelInv, PanelOnlyForStaff, ProfileMatchesSession, OpenOK

LEMMA RejectKeeps ==
  ASSUME IInv, NEW c \in Calls, callback[c].at # "idle", RejectSession(c)
  PROVE  OpenOK /\ CallsOK
BY NobodyIsSafe, GotoKeeps DEF RejectSession, Waits

\* A callback is decided: it opens the panel for its own user, who passed, or for nobody.
LEMMA AcceptKeeps ==
  ASSUME IInv, NEW c \in Calls, callback[c].at # "idle", linked \subseteq linked',
         Accept(c), callback[c].user \in linked'
  PROVE  OpenOK /\ CallsOK
<1> DEFINE u == callback[c].user
<1>1. CASE ~CanOpenPanel(u)
  BY <1>1, RejectKeeps DEF Accept
<1>2. CASE CanOpenPanel(u) /\ MustVerify(u)
  <2>1. Goto(c, "mail") /\ UNCHANGED <<token, profileUid, session>>
    BY <1>2 DEF Accept
  <2> QED
    BY <2>1, GotoKeeps, UntouchedIsSafe DEF Waits
<1>3. CASE CanOpenPanel(u) /\ ~MustVerify(u)
  <2>1. /\ profileUid' = u /\ session' = [status |-> "authenticated", user |-> u]
        /\ Finish(c) /\ UNCHANGED token
    BY <1>3 DEF Accept
  <2>2. u \in (Staff \cap linked') \ Unverified /\ u \in Users
    BY <1>3 DEF CanOpenPanel, MustVerify, IInv, CalledWithUser
  <2>3. session' \in SessionType /\ token' \in [of : Users \cup {None}, fresh : BOOLEAN]
    BY <2>1, <2>2 DEF SessionType, IInv, TypeOK
  <2> QED
    BY <2>1, <2>2, <2>3, FinishKeeps DEF OpenOK, PanelInv, PanelOnlyForStaff, ProfileMatchesSession
<1> QED
  BY <1>1, <1>2, <1>3

-----------------------------------------------------------------------------
(* The induction. *)

LEMMA InitKeeps == Init => IInv
<1> SUFFICES ASSUME Init PROVE IInv
  OBVIOUS
<1>1. callback \in [Calls -> CallType] /\ CalledWithUser
  BY DEF Init, Idle, CallType, Waits, CalledWithUser
<1>2. PanelInv
  BY DEF Init, PanelInv, PanelOnlyForStaff, ProfileMatchesSession
<1>3. sdkFresh \in BOOLEAN /\ linked \subseteq Users
  BY DEF Init
<1> QED
  BY <1>1, <1>2, <1>3 DEF Init, IInv, TypeOK, CallType, NoToken

\* A step of a callback: what it may write, and what it leaves alone.
LEMMA CallbackKeeps ==
  ASSUME IInv, NEW c \in Calls, CallbackStep(c) \/ TokenFails(c)
  PROVE  IInv'
<1> DEFINE u == callback[c].user
<1>0. callback \in [Calls -> CallType]
  BY DEF IInv, TypeOK, CallType
<1>1. CASE ApplyToken(c)
  <2>1. callback[c].at # "idle" /\ u \in Users
    BY <1>1 DEF ApplyToken, IInv, CalledWithUser
  <2>2. CallsOK
    BY <1>1, <2>1, GotoKeeps, FinishKeeps DEF ApplyToken, Waits
  <2>3. sdkFresh' \in BOOLEAN
    BY <1>1 DEF ApplyToken, IInv, TypeOK
  <2>4. PanelInv'
    BY <1>1 DEF ApplyToken, IInv, PanelInv, PanelOnlyForStaff, ProfileMatchesSession
  <2> QED
    BY <1>1, <2>1, <2>2, <2>3, <2>4 DEF ApplyToken, IInv, TypeOK, CallsOK, CallType
<1>2. CASE FetchMe(c)
  <2>1. /\ callback[c].at # "idle" /\ linked' = linked
        /\ UNCHANGED <<fbUser, sdkFresh, refresh, attempt>>
    BY <1>2 DEF FetchMe
  <2>2. OpenOK /\ CallsOK
    <3>1. CASE u \in linked
      BY <1>2, <2>1, <3>1, AcceptKeeps DEF FetchMe
    <3>2. CASE u \notin linked
      <4>1. Goto(c, "mail") \/ Goto(c, "sync")
        BY <1>2, <3>2 DEF FetchMe
      <4>2. UNCHANGED <<token, profileUid, session>>
        BY <1>2, <3>2 DEF FetchMe
      <4> QED
        BY <2>1, <4>1, <4>2, GotoKeeps, UntouchedIsSafe DEF Waits
    <3> QED
      BY <3>1, <3>2
  <2> QED
    BY <2>1, <2>2 DEF IInv, TypeOK, CallsOK, OpenOK, CallType, SessionType
<1>3. CASE SyncAccount(c)
  <2>1. /\ callback[c].at # "idle" /\ u \in Users
        /\ UNCHANGED <<fbUser, sdkFresh, refresh, attempt>>
    BY <1>3 DEF SyncAccount, IInv, CalledWithUser
  <2>2. OpenOK /\ CallsOK /\ linked' \subseteq Users
    <3>1. CASE linked' = linked \cup {u} /\ Accept(c)
      BY <2>1, <3>1, AcceptKeeps DEF IInv, TypeOK
    <3>2. CASE RejectSession(c) /\ UNCHANGED linked
      BY <2>1, <3>2, RejectKeeps DEF IInv, TypeOK
    <3> QED
      BY <1>3, <3>1, <3>2 DEF SyncAccount
  <2> QED
    BY <2>1, <2>2 DEF IInv, TypeOK, CallsOK, OpenOK, CallType, SessionType
<1>4. CASE CallFails(c) \/ MailSent(c)
  <2>1. /\ callback[c].at # "idle" /\ RejectSession(c)
        /\ UNCHANGED <<fbUser, sdkFresh, refresh, attempt, linked>>
    BY <1>4 DEF CallFails, MailSent
  <2>2. OpenOK /\ CallsOK
    BY <2>1, RejectKeeps
  <2> QED
    BY <2>1, <2>2 DEF IInv, TypeOK, CallsOK, OpenOK, CallType, SessionType
<1>5. CASE RejectSignsOut(c)
  <2>1. CallsOK
    BY <1>5, FinishKeeps DEF RejectSignsOut
  <2>2. OpenOK
    BY <1>5, NobodyIsSafe, UntouchedIsSafe DEF RejectSignsOut, SignedOut
  <2>3. fbUser' \in Users \cup {None} /\ sdkFresh' \in BOOLEAN
    BY <1>5 DEF RejectSignsOut, SignedOut, IInv, TypeOK
  <2> QED
    BY <1>5, <2>1, <2>2, <2>3 DEF RejectSignsOut, IInv, TypeOK, CallsOK, OpenOK, CallType, SessionType
<1>6. CASE TokenFails(c)
  <2>1. CallsOK
    BY <1>6, FinishKeeps DEF TokenFails
  <2>2. OpenOK
    BY <1>6, UntouchedIsSafe DEF TokenFails
  <2> QED
    BY <1>6, <2>1, <2>2 DEF TokenFails, IInv, TypeOK, CallsOK, OpenOK, CallType, SessionType
<1> QED
  BY <1>1, <1>2, <1>3, <1>4, <1>5, <1>6 DEF CallbackStep

LEMMA NextKeeps == IInv /\ [Next]_vars => IInv'
<1> SUFFICES ASSUME IInv, [Next]_vars PROVE IInv'
  OBVIOUS
<1> USE DEF CallsOK, OpenOK, CallType, SessionType
<1>1. CASE RestoreNobody \/ OtherTabSignsOut
  <2>1. NobodySignedIn /\ fbUser' = None /\ sdkFresh' = FALSE
        /\ UNCHANGED <<callback, refresh, attempt, linked>>
    BY <1>1 DEF RestoreNobody, OtherTabSignsOut, SignedOut
  <2>2. OpenOK
    BY <2>1, NobodyIsSafe
  <2> QED
    BY <2>1, <2>2 DEF IInv, TypeOK, CalledWithUser
<1>2. CASE OtherTabSignsIn \/ SdkRenewsToken
  <2>1. /\ \E u \in Users : SignedIn(u)
        /\ UNCHANGED <<token, profileUid, session, refresh, attempt, linked>>
    BY <1>2 DEF OtherTabSignsIn, SdkRenewsToken, IInv, TypeOK
  <2>2. fbUser' \in Users \cup {None} /\ sdkFresh' \in BOOLEAN /\ CallsOK
    BY <2>1, SignedInKeeps
  <2>3. OpenOK
    BY <2>1, UntouchedIsSafe
  <2> QED
    BY <2>1, <2>2, <2>3 DEF IInv, TypeOK
<1>3. ASSUME NEW c \in Calls, CallbackStep(c) \/ TokenFails(c) PROVE IInv'
  BY <1>3, CallbackKeeps
<1>4. CASE Logout
  <2>1. PICK c \in Calls : callback' = [callback EXCEPT ![c] = [at |-> "signout", user |-> session.user]]
    BY <1>4 DEF Logout
  <2>2. session.user \in Users
    BY <1>4, AccountsAssumption DEF Logout, IInv, PanelInv, PanelOnlyForStaff
  <2>3. callback \in [Calls -> CallType] /\ [at |-> "signout", user |-> session.user] \in CallType
    BY <2>2 DEF IInv, TypeOK, Waits
  <2>4. CallsOK
    BY <2>1, <2>2, <2>3 DEF IInv, CalledWithUser
  <2>5. OpenOK
    BY <1>4, NobodyIsSafe DEF Logout
  <2> QED
    BY <1>4, <2>4, <2>5 DEF Logout, IInv, TypeOK
<1>5. CASE HourPasses
  <2>1. token \in [of : Users \cup {None}, fresh : BOOLEAN]
    BY DEF IInv, TypeOK
  <2>2. token' \in [of : Users \cup {None}, fresh : BOOLEAN]
    BY <1>5, <2>1 DEF HourPasses
  <2> QED
    BY <1>5, <2>2
    DEF HourPasses, IInv, TypeOK, CalledWithUser, PanelInv, PanelOnlyForStaff, ProfileMatchesSession
<1>6. CASE StartRefresh \/ RefreshFails \/ Submit \/ TryMigration
  BY <1>6 DEF StartRefresh, RefreshFails, Submit, TryMigration, IInv, TypeOK, CalledWithUser, PanelInv,
              PanelOnlyForStaff, ProfileMatchesSession
<1>7. CASE RefreshDone
  <2>1. refresh \in Users /\ refresh' = None /\ UNCHANGED <<profileUid, session, attempt, linked>>
    BY <1>7 DEF RefreshDone, IInv, TypeOK
  <2>2. token' \in [of : Users \cup {None}, fresh : BOOLEAN]
    BY <1>7, <2>1 DEF RefreshDone
  <2>3. fbUser' \in Users \cup {None} /\ sdkFresh' \in BOOLEAN /\ CallsOK
    <3>1. CASE SignedIn(refresh)
      BY <2>1, <3>1, SignedInKeeps
    <3>2. CASE UNCHANGED <<fbUser, sdkFresh, callback>>
      BY <3>2 DEF IInv, TypeOK, CalledWithUser
    <3> QED
      BY <1>7, <3>1, <3>2 DEF RefreshDone
  <2>4. PanelInv'
    BY <2>1 DEF IInv, PanelInv, PanelOnlyForStaff, ProfileMatchesSession
  <2> QED
    BY <2>1, <2>2, <2>3, <2>4 DEF IInv, TypeOK
<1>8. CASE LoginSucceeds \/ MigrationSucceeds
  <2>1. /\ \E u \in Users : SignedIn(u)
        /\ attempt' = "none" /\ UNCHANGED <<token, profileUid, session, refresh, linked>>
    BY <1>8 DEF LoginSucceeds, MigrationSucceeds
  <2>2. fbUser' \in Users \cup {None} /\ sdkFresh' \in BOOLEAN /\ CallsOK
    BY <2>1, SignedInKeeps
  <2>3. OpenOK
    BY <2>1, UntouchedIsSafe
  <2> QED
    BY <2>1, <2>2, <2>3 DEF IInv, TypeOK
<1>9. CASE LoginFails
  BY <1>9 DEF LoginFails, SignedOutState, IInv, TypeOK, CalledWithUser, PanelInv, PanelOnlyForStaff,
              ProfileMatchesSession
<1>10. CASE UNCHANGED vars
  BY <1>10 DEF vars, IInv, TypeOK, CalledWithUser, PanelInv, PanelOnlyForStaff, ProfileMatchesSession
<1> QED
  BY <1>1, <1>2, <1>3, <1>4, <1>5, <1>6, <1>7, <1>8, <1>9, <1>10 DEF Next

(* The refs, the state and the runs of the listener's callback are always  *)
(* ones the code can have; above all, a callback that runs has a user, and *)
(* so has every account that the backend learns of through one.            *)
THEOREM PanelTypeCorrect == Spec => []TypeOK
<1>1. IInv => TypeOK
  BY DEF IInv
<1> QED
  BY <1>1, InitKeeps, NextKeeps, PTL DEF Spec

(* However the callbacks of several sign-ins, the logout, the other tabs   *)
(* and the form overlap, the panel is open only for staff with a verified  *)
(* address whom the backend knows.                                         *)
THEOREM PanelAlwaysStaff == Spec => []PanelOnlyForStaff
<1>1. IInv => PanelOnlyForStaff
  BY DEF IInv, PanelInv
<1> QED
  BY <1>1, InitKeeps, NextKeeps, PTL DEF Spec

(* The profile the panel has loaded is that of the user it shows, so that  *)
(* the next callback of that user is taken for a renewed token, and one of *)
(* another user is not.                                                    *)
THEOREM ProfileAlwaysMatches == Spec => []ProfileMatchesSession
<1>1. IInv => ProfileMatchesSession
  BY DEF IInv, PanelInv
<1> QED
  BY <1>1, InitKeeps, NextKeeps, PTL DEF Spec
-----------------------------------------------------------------------------
(* The pages: what is kept. *)

\* A card as it was at some time; the number of its changes tells which.
Card == [st : DOMAIN Screen.offers, rev : Nat]
Cards == [ShownRows -> Card]
\* The flags there are, and what each may be held for.
FlagNames == {"none", "row"} \cup {Act(name).lock : name \in DOMAIN Screen.acts}
Flags == FlagNames \X (ShownRows \cup {Nothing})
Read == [query : Nat, answer : Cards \cup {NoAnswer}, late : BOOLEAN, silent : BOOLEAN, frees : Flags]
Dialog == [act : DOMAIN Screen.acts, row : ShownRows, saw : Card]
PageCall ==
  [act : DOMAIN Screen.acts, row : ShownRows, saw : Card, at : {"out", "ok", "partly", "refused"},
   card : Card \cup {NoCard}, id : Nat]

\* Everything has its shape, and what was pressed was pressed on something shown.
PageShape ==
  /\ page \in DOMAIN Screens
  /\ srv \in Cards
  /\ reads \in Seq(Read)
  /\ view = NoView \/ view \in [query : Nat, rows : Cards]
  /\ calls \subseteq PageCall /\ held \subseteq Flags
  /\ asked = Nothing \/ asked \in Dialog
  /\ mine \in [ShownRows -> Nat] /\ query \in Nat /\ acted \in Nat
  /\ loading \in BOOLEAN /\ error \in BOOLEAN /\ loadedOnce \in BOOLEAN
  /\ overtaken \in BOOLEAN /\ dirty \in BOOLEAN /\ left \in BOOLEAN
  /\ calls # {} \/ asked # Nothing => view # NoView

\* A card that was seen is an old one, or the row's present one.
Agrees(card, r) == card.rev <= srv[r].rev /\ (card.rev = srv[r].rev => card.st = srv[r].st)

SeenInv ==
  /\ view # NoView => \A r \in ShownRows : Agrees(view.rows[r], r)
  /\ \A i \in DOMAIN reads : reads[i].answer # NoAnswer => \A r \in ShownRows : Agrees(reads[i].answer[r], r)
  /\ \A c \in calls : Agrees(c.saw, c.row)
  /\ \A c \in calls : c.at # "out" => c.card \in Card /\ Agrees(c.card, c.row)
  /\ asked # Nothing => Agrees(asked.saw, asked.row)
  /\ \A r \in ShownRows : mine[r] <= srv[r].rev

\* The newest read will bring what the page should show, or what it brings will be overtaken.
LastReadCurrent ==
  /\ reads # <<>>
  /\ reads[Len(reads)].query = query
  /\ \/ reads[Len(reads)].late
     \/ reads[Len(reads)].answer = NoAnswer
     \/ \A r \in ShownRows : reads[Len(reads)].answer[r].rev >= mine[r]

ViewCurrent == view.query = query /\ \A r \in ShownRows : view.rows[r].rev >= mine[r]

\* The newest read has ended: of the others nothing is expected any more.
NewestEnded ==
  /\ \A i \in DOMAIN reads : reads[i].late
  /\ error \/ overtaken \/ view = NoView \/ ViewCurrent

FreshInv == left \/ LastReadCurrent \/ NewestEnded

SaidInv == Screen.reads => reads # <<>> \/ view # NoView \/ error

\* A flag that guards its controls: theirs alone, and none of them forgets it.
StrictLock(L) ==
  /\ L \notin {"none", "row"} \cup Screen.local
  /\ \A name \in DOMAIN Screen.acts : Act(name).lock = L => ~Act(name).loose /\ ~Act(name).unmounts

\* It is held for one call, or for the one read that will give it back.
HeldOnce(L) ==
  /\ \A c \in calls : Act(c.act).lock = L => <<L, Nothing>> \in held
  /\ \A i \in DOMAIN reads : reads[i].frees[1] = L => <<L, Nothing>> \in held
  /\ \A c, d \in calls : Act(c.act).lock = L /\ Act(d.act).lock = L => c = d
  /\ \A i, j \in DOMAIN reads : reads[i].frees[1] = L /\ reads[j].frees[1] = L => i = j
  /\ \A c \in calls, i \in DOMAIN reads : ~(Act(c.act).lock = L /\ reads[i].frees[1] = L)

LockInv == \A L \in FlagNames : StrictLock(L) => HeldOnce(L)

IdsInv ==
  /\ \A c \in calls : c.id < acted
  /\ \A c, d \in calls : c.id = d.id => c = d

\* What a control was pressed for it may be used for, as far as the page could tell.
Taken(name, card) == card.st \in DOMAIN Act(name).makes \/ Act(name).unseen \/ card.st \in Act(name).vain
TakenInv ==
  /\ \A c \in calls : Taken(c.act, c.saw)
  /\ asked # Nothing => Taken(asked.act, asked.saw)

PageInv == PageShape /\ SeenInv /\ FreshInv /\ SaidInv /\ LockInv /\ IdsInv

-----------------------------------------------------------------------------
(* What the pieces of an action leave. *)

\* The page, and with it everything said about it, stays.
LEMMA SamePage ==
  ASSUME page' = page
  PROVE  /\ Screen' = Screen /\ ShownRows' = ShownRows /\ \A name : Act(name)' = Act(name)
         /\ Card' = Card /\ Cards' = Cards /\ FlagNames' = FlagNames /\ Flags' = Flags /\ Read' = Read /\ Dialog' = Dialog
         /\ PageCall' = PageCall /\ \A L : StrictLock(L)' = StrictLock(L)
         /\ \A name, card : Taken(name, card)' = Taken(name, card)
BY DEF Screen, ShownRows, Act, Card, Cards, FlagNames, Flags, Read, Dialog, PageCall,
       StrictLock, Taken

LEMMA CardsAreAnswers ==
  /\ FirstRow \in ShownRows /\ ShownRows \subseteq Rows
  /\ \A f \in Cards : f # NoAnswer
  /\ \A v \in [query : Nat, rows : Cards] : v # NoView
<1>1. FirstRow \in ShownRows /\ ShownRows \subseteq Rows
  BY BoundsAssumption DEF ShownRows
<1>2. ASSUME NEW f \in Cards PROVE f # NoAnswer
  <2>1. DOMAIN f # {}
    BY <1>1 DEF Cards
  <2>2. DOMAIN NoAnswer = {}
    BY DEF NoAnswer
  <2> QED
    BY <2>1, <2>2
<1>3. ASSUME NEW v \in [query : Nat, rows : Cards] PROVE v # NoView
  BY DEF NoView
<1> QED
  BY <1>1, <1>2, <1>3

LEMMA NewRead ==
  ASSUME NEW q \in Nat, NEW silent \in BOOLEAN, NEW frees \in Flags
  PROVE  [query |-> q, answer |-> NoAnswer, late |-> FALSE, silent |-> silent, frees |-> frees] \in Read
BY DEF Read

LEMMA ControlFlag ==
  ASSUME page \in DOMAIN Screens, NEW name \in DOMAIN Screen.acts, NEW r \in ShownRows
  PROVE  /\ Flag(name, r) \in Flags /\ Flag(name, r)[1] = Act(name).lock
         /\ Act(name).lock # "row" => Flag(name, r) = <<Act(name).lock, Nothing>>
         /\ Act(name).silent \in BOOLEAN /\ Act(name).lock \in FlagNames
<1>1. Act(name).silent \in BOOLEAN
  BY ScreensAssumption DEF Act, Screen
<1>2. Act(name).lock \in FlagNames /\ "row" \in FlagNames
  BY DEF FlagNames
<1> QED
  BY <1>1, <1>2 DEF Flag, Flags

LEMMA NoFlag == <<"none", Nothing>> \in Flags /\ <<"none", Nothing>>[1] = "none"
BY DEF Flags, FlagNames

\* A load has started: the last of the reads.
Started(q, frees) ==
  \E n \in Read : /\ n.query = q /\ n.answer = NoAnswer /\ n.frees = frees
                  /\ reads' = Append(reads, n)

LEMMA StartLoadStarts ==
  ASSUME reads \in Seq(Read), error \in BOOLEAN, loading \in BOOLEAN,
         NEW q \in Nat, NEW silent \in BOOLEAN, NEW frees \in Flags, StartLoad(q, silent, frees)
  PROVE  /\ Started(q, frees) /\ UNCHANGED <<view, loadedOnce, overtaken, dirty>>
         /\ loading' \in BOOLEAN /\ error' \in BOOLEAN /\ (error' => error)
BY NewRead DEF StartLoad, Started

LEMMA StartedReads ==
  ASSUME reads \in Seq(Read), NEW q, NEW frees, Started(q, frees)
  PROVE  /\ reads' \in Seq(Read) /\ Len(reads') = Len(reads) + 1 /\ DOMAIN reads' = 1..(Len(reads) + 1)
         /\ DOMAIN reads = 1..Len(reads)
         /\ \A j \in DOMAIN reads : j \in DOMAIN reads' /\ reads'[j] = reads[j]
         /\ LET n == reads'[Len(reads')] IN n.query = q /\ n.answer = NoAnswer /\ n.frees = frees
<1>1. PICK n \in Read : n.query = q /\ n.answer = NoAnswer /\ n.frees = frees /\ reads' = Append(reads, n)
  BY DEF Started
<1>2. /\ reads' \in Seq(Read) /\ Len(reads') = Len(reads) + 1 /\ reads'[Len(reads) + 1] = n
      /\ \A j \in 1..Len(reads) : reads'[j] = reads[j]
  BY <1>1, AppendProperties
<1>3. DOMAIN reads = 1..Len(reads) /\ DOMAIN reads' = 1..Len(reads') /\ Len(reads) \in Nat
  BY <1>2, LenProperties
<1> QED
  BY <1>1, <1>2, <1>3

\* A read made late says the same.
LEMMA LateRead ==
  ASSUME NEW r \in Read
  PROVE  LET l == [r EXCEPT !.late = TRUE] IN
         /\ l \in Read /\ l.late /\ l.query = r.query /\ l.answer = r.answer /\ l.frees = r.frees
BY DEF Read

\* A read has ended: those before it are late, those after it move up.
LEMMA EndedReads ==
  ASSUME reads \in Seq(Read), NEW i \in DOMAIN reads
  PROVE  LET w == Without(OthersLate(i), i) IN
         /\ w \in Seq(Read) /\ Len(w) = Len(reads) - 1 /\ DOMAIN w = 1..(Len(reads) - 1)
         /\ DOMAIN reads = 1..Len(reads) /\ Len(reads) \in Nat
         /\ \A j \in DOMAIN w :
              /\ j < i => w[j].late /\ w[j].query = reads[j].query /\ w[j].answer = reads[j].answer
                          /\ w[j].frees = reads[j].frees
              /\ j >= i => w[j] = reads[j + 1]
<1> DEFINE s == OthersLate(i)
           n == Len(reads)
           a == SubSeq(s, 1, i - 1)
           b == SubSeq(s, i + 1, Len(s))
<1>1. DOMAIN reads = 1..n /\ n \in Nat /\ reads \in [1..n -> Read] /\ i \in 1..n
  BY LenProperties
<1> HIDE DEF n
<1>2. \A j \in 1..n : s[j] = (IF j < i THEN [reads[j] EXCEPT !.late = TRUE] ELSE reads[j]) /\ s[j] \in Read
  BY <1>1, LateRead DEF OthersLate
<1>3. s \in [1..n -> Read]
  <2>1. s = [j \in 1..n |-> IF j < i THEN [reads[j] EXCEPT !.late = TRUE] ELSE reads[j]]
    BY <1>1 DEF OthersLate
  <2> HIDE DEF s
  <2> QED
    BY <1>2, <2>1
<1>4. s \in Seq(Read) /\ Len(s) = n
  BY <1>1, <1>3, SeqDef, LenProperties
<1> HIDE DEF s
<1>5. a \in Seq(Read) /\ Len(a) = i - 1 /\ \A j \in 1..(i - 1) : a[j] = s[j]
  <2>1. ASSUME NEW j \in 1..(i - 1) PROVE s[j] \in Read
    <3>1. j \in 1..n
      BY <1>1
    <3> QED
      BY <1>2, <3>1
  <2>2. /\ a \in Seq(Read) /\ Len(a) = (IF 1 <= i - 1 THEN i - 1 - 1 + 1 ELSE 0)
        /\ \A j \in 1..(i - 1 - 1 + 1) : a[j] = s[1 + j - 1]
    BY <1>1, <2>1, SubSeqProperties
  <2> HIDE DEF a
  <2> QED
    BY <1>1, <2>2
<1>6. b \in Seq(Read) /\ Len(b) = n - i /\ \A j \in 1..(n - i) : b[j] = s[i + j]
  <2>1. ASSUME NEW j \in (i + 1)..n PROVE s[j] \in Read
    <3>1. j \in 1..n
      BY <1>1
    <3> QED
      BY <1>2, <3>1
  <2>2. /\ b \in Seq(Read) /\ Len(b) = (IF i + 1 <= n THEN n - (i + 1) + 1 ELSE 0)
        /\ \A j \in 1..(n - (i + 1) + 1) : b[j] = s[i + 1 + j - 1]
    BY <1>1, <1>4, <2>1, SubSeqProperties
  <2> HIDE DEF b
  <2> QED
    BY <1>1, <2>2
<1> HIDE DEF a, b
<1>7. /\ a \o b \in Seq(Read) /\ Len(a \o b) = n - 1
      /\ \A j \in 1..(n - 1) : (a \o b)[j] = IF j < i THEN s[j] ELSE s[j + 1]
  <2>1. /\ a \o b \in Seq(Read) /\ Len(a \o b) = Len(a) + Len(b)
        /\ \A j \in 1..(Len(a) + Len(b)) : (a \o b)[j] = IF j <= Len(a) THEN a[j] ELSE b[j - Len(a)]
    BY <1>5, <1>6, ConcatProperties
  <2>2. Len(a \o b) = n - 1
    BY <1>1, <1>5, <1>6, <2>1
  <2>3. ASSUME NEW j \in 1..(n - 1) PROVE (a \o b)[j] = IF j < i THEN s[j] ELSE s[j + 1]
    <3>1. (a \o b)[j] = IF j <= i - 1 THEN a[j] ELSE b[j - (i - 1)]
      BY <1>1, <1>5, <1>6, <2>1
    <3>2. CASE j < i
      BY <1>1, <1>5, <3>1, <3>2
    <3>3. CASE ~(j < i)
      <4>1. j - (i - 1) \in 1..(n - i) /\ i + (j - (i - 1)) = j + 1
        BY <1>1, <3>3
      <4> QED
        BY <1>1, <1>6, <3>1, <3>3, <4>1
    <3> QED
      BY <3>2, <3>3
  <2> QED
    BY <2>1, <2>2, <2>3
<1>8. Without(s, i) = a \o b
  BY DEF Without, a, b
<1>9. DOMAIN (a \o b) = 1..(n - 1)
  BY <1>7, LenProperties
<1>10. ASSUME NEW j \in 1..(n - 1)
       PROVE  /\ j < i => /\ (a \o b)[j].late /\ (a \o b)[j].query = reads[j].query
                          /\ (a \o b)[j].answer = reads[j].answer /\ (a \o b)[j].frees = reads[j].frees
              /\ j >= i => (a \o b)[j] = reads[j + 1]
  <2>1. CASE j < i
    <3>1. (a \o b)[j] = [reads[j] EXCEPT !.late = TRUE] /\ reads[j] \in Read
      BY <1>1, <1>2, <1>7, <2>1
    <3> QED
      BY <2>1, <3>1, LateRead
  <2>2. CASE j >= i
    <3>1. j + 1 \in 1..n /\ ~(j + 1 < i)
      BY <1>1, <2>2
    <3>2. s[j + 1] = reads[j + 1]
      BY <1>2, <3>1
    <3>3. (a \o b)[j] = s[j + 1]
      BY <1>1, <1>7, <2>2
    <3> QED
      BY <1>1, <2>2, <3>2, <3>3
  <2> QED
    BY <1>1, <2>1, <2>2
<1> DEFINE w == a \o b
<1>11. /\ w \in Seq(Read) /\ Len(w) = n - 1 /\ DOMAIN w = 1..(n - 1)
       /\ \A j \in 1..(n - 1) :
            /\ j < i => w[j].late /\ w[j].query = reads[j].query /\ w[j].answer = reads[j].answer
                        /\ w[j].frees = reads[j].frees
            /\ j >= i => w[j] = reads[j + 1]
  BY <1>7, <1>9, <1>10
<1>12. Without(OthersLate(i), i) = w
  BY <1>8 DEF s
<1> HIDE DEF w
<1> QED
  BY <1>1, <1>11, <1>12 DEF n

\* A card was patched: every read that is out is late.
LEMMA PatchedReads ==
  ASSUME reads \in Seq(Read)
  PROVE  LET w == [j \in DOMAIN reads |-> [reads[j] EXCEPT !.late = TRUE]] IN
         /\ w \in Seq(Read) /\ DOMAIN w = DOMAIN reads /\ Len(w) = Len(reads)
         /\ \A j \in DOMAIN reads : /\ w[j].late /\ w[j].query = reads[j].query
                                    /\ w[j].answer = reads[j].answer /\ w[j].frees = reads[j].frees
<1> DEFINE w == [j \in DOMAIN reads |-> [reads[j] EXCEPT !.late = TRUE]]
<1>1. DOMAIN reads = 1..Len(reads) /\ Len(reads) \in Nat /\ reads \in [1..Len(reads) -> Read]
  BY LenProperties
<1>2. \A j \in DOMAIN reads : w[j] = [reads[j] EXCEPT !.late = TRUE]
  OBVIOUS
<1>3. DOMAIN w = 1..Len(reads)
  BY <1>1
<1> HIDE DEF w
<1>4. \A j \in DOMAIN reads : /\ w[j] \in Read /\ w[j].late /\ w[j].query = reads[j].query
                              /\ w[j].answer = reads[j].answer /\ w[j].frees = reads[j].frees
  <2> SUFFICES ASSUME NEW j \in DOMAIN reads
               PROVE  /\ w[j] \in Read /\ w[j].late /\ w[j].query = reads[j].query
                      /\ w[j].answer = reads[j].answer /\ w[j].frees = reads[j].frees
    OBVIOUS
  <2>1. reads[j] \in Read
    BY <1>1
  <2> QED
    BY <1>2, <2>1, LateRead
<1>5. w \in [1..Len(reads) -> Read]
  <2>1. w = [j \in 1..Len(reads) |-> w[j]]
    BY <1>1 DEF w
  <2> QED
    BY <1>1, <1>4, <2>1
<1>6. w \in Seq(Read) /\ Len(w) = Len(reads)
  BY <1>1, <1>3, <1>5, SeqDef, LenProperties
<1> QED
  BY <1>1, <1>3, <1>4, <1>6 DEF w

\* A read has been answered by the server.
LEMMA ServedReads ==
  ASSUME reads \in Seq(Read), srv \in Cards, NEW i \in DOMAIN reads, reads' = [reads EXCEPT ![i].answer = srv]
  PROVE  /\ reads' \in Seq(Read) /\ DOMAIN reads' = DOMAIN reads /\ Len(reads') = Len(reads)
         /\ \A j \in DOMAIN reads : /\ reads'[j].query = reads[j].query /\ reads'[j].late = reads[j].late
                                    /\ reads'[j].frees = reads[j].frees
                                    /\ reads'[j].answer = IF j = i THEN srv ELSE reads[j].answer
<1> DEFINE e == [reads[i] EXCEPT !.answer = srv]
<1>1. DOMAIN reads = 1..Len(reads) /\ Len(reads) \in Nat /\ reads[i] \in Read
  BY LenProperties
<1>2. /\ e \in Read /\ e.query = reads[i].query /\ e.late = reads[i].late /\ e.frees = reads[i].frees
      /\ e.answer = srv
  BY <1>1 DEF Read
<1>3. reads' = [reads EXCEPT ![i] = e]
  OBVIOUS
<1> HIDE DEF e
<1>4. reads' \in Seq(Read) /\ Len(reads') = Len(reads) /\ \A j \in 1..Len(reads) : reads'[j] = IF j = i THEN e ELSE reads[j]
  BY <1>1, <1>2, <1>3, ExceptSeq
<1>5. DOMAIN reads' = DOMAIN reads
  BY <1>1, <1>4, LenProperties
<1> QED
  BY <1>1, <1>2, <1>4, <1>5

-----------------------------------------------------------------------------
(* Nothing newer is missed. *)

LEMMA StartedIsFresh ==
  ASSUME PageShape, page' = page, NEW frees, Started(query', frees)
  PROVE  FreshInv' /\ SaidInv'
<1>1. Len(reads') # 0 /\ reads'[Len(reads')].query = query' /\ reads'[Len(reads')].answer = NoAnswer
  BY StartedReads, LenProperties DEF PageShape
<1>2. reads' # <<>>
  BY <1>1
<1> QED
  BY <1>1, <1>2 DEF FreshInv, LastReadCurrent, SaidInv

LEMMA UntouchedIsFresh ==
  ASSUME FreshInv, SaidInv, page' = page, UNCHANGED <<query, reads, view, mine>>,
         overtaken => overtaken', error => error', left => left'
  PROVE  FreshInv' /\ SaidInv'
<1>1. Screen' = Screen /\ ShownRows' = ShownRows
  BY SamePage
<1> QED
  BY <1>1 DEF FreshInv, LastReadCurrent, NewestEnded, ViewCurrent, SaidInv

LEMMA ServedIsFresh ==
  ASSUME PageShape, SeenInv, FreshInv, SaidInv, page' = page, NEW i \in DOMAIN reads,
         reads' = [reads EXCEPT ![i].answer = srv], UNCHANGED <<query, view, mine, overtaken, error, left>>
  PROVE  FreshInv' /\ SaidInv'
<1>1. Screen' = Screen /\ ShownRows' = ShownRows
  BY SamePage
<1>2. /\ DOMAIN reads' = DOMAIN reads /\ Len(reads') = Len(reads) /\ DOMAIN reads = 1..Len(reads)
      /\ Len(reads) \in Nat /\ reads' \in Seq(Read)
      /\ \A j \in DOMAIN reads : /\ reads'[j].query = reads[j].query /\ reads'[j].late = reads[j].late
                                 /\ reads'[j].answer = IF j = i THEN srv ELSE reads[j].answer
  BY ServedReads, LenProperties DEF PageShape
<1>3. reads' # <<>> /\ reads # <<>> /\ Len(reads) \in DOMAIN reads
  BY <1>2
<1>4. \A r \in ShownRows : srv[r].rev >= mine[r]
  BY DEF PageShape, SeenInv, Cards, Card
<1>5. CASE LastReadCurrent
  <2>1. LastReadCurrent'
    BY <1>1, <1>2, <1>3, <1>4, <1>5 DEF LastReadCurrent
  <2> QED
    BY <1>3, <2>1 DEF FreshInv, SaidInv
<1>6. CASE NewestEnded
  <2>1. NewestEnded'
    BY <1>1, <1>2, <1>6 DEF NewestEnded, ViewCurrent
  <2> QED
    BY <1>3, <2>1 DEF FreshInv, SaidInv
<1>7. CASE left
  BY <1>3, <1>7 DEF FreshInv, SaidInv
<1> QED
  BY <1>5, <1>6, <1>7 DEF FreshInv

\* A read brings its answer, or fails.
Brings(i) ==
  /\ reads[i].answer # NoAnswer
  /\ view' = [query |-> reads[i].query, rows |-> reads[i].answer]
  /\ overtaken' = reads[i].late

LEMMA EndedIsFresh ==
  ASSUME PageShape, FreshInv, ~left, page' = page, NEW i \in DOMAIN reads,
         reads' = Without(OthersLate(i), i), UNCHANGED <<query, mine>>,
         Brings(i) \/ (error' /\ UNCHANGED <<view, overtaken>>)
  PROVE  FreshInv' /\ SaidInv'
<1> DEFINE n == Len(reads)
<1>1. Screen' = Screen /\ ShownRows' = ShownRows
  BY SamePage
<1>2. /\ reads' \in Seq(Read) /\ Len(reads') = n - 1 /\ DOMAIN reads' = 1..(n - 1)
      /\ DOMAIN reads = 1..n /\ n \in Nat
      /\ \A j \in DOMAIN reads' :
           /\ j < i => reads'[j].late
           /\ j >= i => reads'[j] = reads[j + 1]
  BY EndedReads DEF PageShape
<1>3. reads[i] \in Read
  BY DEF PageShape
<1> HIDE DEF n
<1>4. ASSUME Brings(i) PROVE view' # NoView
  <2>1. view' \in [query : Nat, rows : Cards]
    BY <1>3, <1>4 DEF Brings, Read
  <2> QED
    BY <2>1, CardsAreAnswers
<1>5. SaidInv'
  BY <1>1, <1>4 DEF SaidInv
<1>6. CASE NewestEnded
  <2>1. \A j \in DOMAIN reads' : reads'[j].late
    <3>1. ASSUME NEW j \in 1..(n - 1), ~(j < i) PROVE reads'[j].late
      <4>1. j + 1 \in 1..n /\ j >= i
        BY <1>2, <3>1
      <4> QED
        BY <1>2, <1>6, <3>1, <4>1 DEF NewestEnded
    <3> QED
      BY <1>2, <3>1
  <2>2. error' \/ overtaken'
    BY <1>6 DEF NewestEnded, Brings
  <2> QED
    BY <1>5, <2>1, <2>2 DEF FreshInv, NewestEnded
<1>7. CASE LastReadCurrent /\ i # n
  <2>1. n - 1 \in DOMAIN reads' /\ n - 1 >= i /\ n - 1 + 1 = n /\ reads' # <<>>
    BY <1>2, <1>7
  <2>2. reads'[n - 1] = reads[n]
    BY <1>2, <2>1
  <2>3. LastReadCurrent'
    BY <1>1, <1>2, <1>7, <2>1, <2>2 DEF LastReadCurrent, n
  <2> QED
    BY <1>5, <2>3 DEF FreshInv
<1>8. CASE LastReadCurrent /\ i = n
  <2>1. \A j \in DOMAIN reads' : reads'[j].late
    <3>1. ASSUME NEW j \in 1..(n - 1) PROVE j < i
      BY <1>2, <1>8
    <3> QED
      BY <1>2, <3>1
  <2>2. error' \/ overtaken' \/ ViewCurrent'
    <3>1. ASSUME Brings(i), ~reads[i].late PROVE ViewCurrent'
      <4>1. reads[i].query = query /\ \A r \in ShownRows : reads[i].answer[r].rev >= mine[r]
        BY <1>8, <3>1 DEF LastReadCurrent, Brings, n
      <4>2. view'.query = reads[i].query /\ view'.rows = reads[i].answer
        BY <3>1 DEF Brings
      <4> QED
        BY <1>1, <4>1, <4>2 DEF ViewCurrent
    <3> QED
      BY <3>1 DEF Brings
  <2> QED
    BY <1>5, <2>1, <2>2 DEF FreshInv, NewestEnded
<1> QED
  BY <1>6, <1>7, <1>8 DEF FreshInv

\* What a tab was told it made, and what it shows of it.
ToldOf(c) ==
  mine' = [mine EXCEPT ![c.row] = IF c.card.rev > mine[c.row] /\ ~Act(c.act).unshown THEN c.card.rev ELSE mine[c.row]]

LEMMA ToldType ==
  ASSUME PageShape, SeenInv, NEW c \in calls, c.at # "out", Told(c)
  PROVE  /\ ToldOf(c) /\ mine' \in [ShownRows -> Nat] /\ \A r \in ShownRows : mine'[r] <= srv[r].rev
         /\ \A r \in ShownRows : r # c.row => mine'[r] = mine[r]
         /\ mine'[c.row] = mine[c.row] \/ mine'[c.row] = c.card.rev
         /\ mine'[c.row] >= mine[c.row]
         /\ c.card.rev >= mine[c.row] => mine'[c.row] <= c.card.rev
         /\ Act(c.act).unshown => mine' = mine
<1>1. c.row \in ShownRows /\ c.card.rev \in Nat /\ c.card.rev <= srv[c.row].rev
  BY DEF PageShape, SeenInv, PageCall, Agrees, Card
<1>2. ToldOf(c)
  BY <1>1 DEF Told, ToldOf, PageShape
<1>3. \A r \in ShownRows : mine[r] \in Nat /\ mine[r] <= srv[r].rev /\ srv[r].rev \in Nat
  BY DEF PageShape, SeenInv, Cards, Card
<1>4. mine \in [ShownRows -> Nat]
  BY DEF PageShape
<1> QED
  BY <1>1, <1>2, <1>3, <1>4 DEF ToldOf

\* The patched view.
LEMMA PatchedView ==
  ASSUME PageShape, SeenInv, NEW c \in calls, c.at # "out", view' = [view EXCEPT !.rows[c.row] = c.card]
  PROVE  /\ view' \in [query : Nat, rows : Cards] /\ view'.query = view.query
         /\ \A r \in ShownRows : view'.rows[r] = IF r = c.row THEN c.card ELSE view.rows[r]
<1>1. view \in [query : Nat, rows : Cards] /\ c.row \in ShownRows /\ c.card \in Card
  BY DEF PageShape, SeenInv, PageCall
<1> QED
  BY <1>1 DEF Cards

LEMMA PatchedIsFresh ==
  ASSUME PageShape, SeenInv, FreshInv, SaidInv, page' = page, NEW c \in calls, c.at # "out", Patch(c), Told(c),
         UNCHANGED <<query, left>>
  PROVE  FreshInv' /\ SaidInv'
<1>1. Screen' = Screen /\ ShownRows' = ShownRows
  BY SamePage
<1>2. /\ reads' \in Seq(Read) /\ DOMAIN reads' = DOMAIN reads /\ Len(reads') = Len(reads)
      /\ \A j \in DOMAIN reads : reads'[j].late /\ reads'[j].query = reads[j].query
      /\ DOMAIN reads = 1..Len(reads) /\ Len(reads) \in Nat
  BY PatchedReads, LenProperties DEF Patch, PageShape
<1>3. /\ view' \in [query : Nat, rows : Cards] /\ view'.query = view.query
      /\ \A r \in ShownRows : view'.rows[r] = IF r = c.row THEN c.card ELSE view.rows[r]
  BY PatchedView DEF Patch
<1>4. SaidInv'
  BY <1>1, <1>3, CardsAreAnswers DEF SaidInv
<1>5. CASE LastReadCurrent
  <2>1. Len(reads) \in DOMAIN reads /\ reads' # <<>>
    BY <1>2, <1>5 DEF LastReadCurrent
  <2>2. LastReadCurrent'
    BY <1>2, <1>5, <2>1 DEF LastReadCurrent
  <2> QED
    BY <1>4, <2>2 DEF FreshInv
<1>6. CASE NewestEnded
  <2>1. (error => error') /\ overtaken' = (overtaken \/ c.card.rev < mine[c.row]) /\ view # NoView
    BY DEF Patch, PageShape
  <2>2. ASSUME ViewCurrent, ~overtaken' PROVE ViewCurrent'
    <3>1. c.card.rev \in Nat /\ c.row \in ShownRows /\ \A r \in ShownRows : mine[r] \in Nat
      BY DEF PageShape, SeenInv, PageCall, Card
    <3>2. c.card.rev >= mine[c.row]
      <4>1. ~(c.card.rev < mine[c.row])
        BY <2>1, <2>2
      <4>2. mine[c.row] \in Nat
        BY <3>1
      <4> QED
        BY <3>1, <4>1, <4>2
    <3>3. mine'[c.row] <= c.card.rev /\ \A r \in ShownRows : r # c.row => mine'[r] = mine[r]
      BY <3>2, ToldType
    <3>4. mine'[c.row] \in Nat
      BY <3>1, ToldType
    <3> QED
      BY <1>1, <1>3, <2>2, <3>1, <3>3, <3>4 DEF ViewCurrent
  <2>3. NewestEnded'
    BY <1>2, <1>6, <2>1, <2>2 DEF NewestEnded
  <2> QED
    BY <1>4, <2>3 DEF FreshInv
<1>7. CASE left
  BY <1>4, <1>7 DEF FreshInv
<1> QED
  BY <1>5, <1>6, <1>7 DEF FreshInv

-----------------------------------------------------------------------------
(* A flag is held once. *)

HeldKept(L) == <<L, Nothing>> \in held => <<L, Nothing>> \in held'

\* No read waits for the flag that did not before.
FreesKept(L) ==
  \A j \in DOMAIN reads' : reads'[j].frees[1] = L => j \in DOMAIN reads /\ reads[j].frees[1] = L

LEMMA StillHeldOnce ==
  ASSUME page' = page, NEW L, HeldOnce(L), FreesKept(L), HeldKept(L), calls' \subseteq calls
  PROVE  HeldOnce(L)'
BY SamePage DEF HeldOnce, FreesKept, HeldKept

LEMMA ServedHeldOnce ==
  ASSUME page' = page, NEW L, HeldOnce(L), FreesKept(L), HeldKept(L), NEW c \in calls, NEW d, d.act = c.act,
         calls' = (calls \ {c}) \cup {d}
  PROVE  HeldOnce(L)'
<1>1. \A e \in calls' : (e \in calls /\ e # c) \/ e = d
  OBVIOUS
<1> QED
  BY <1>1, SamePage DEF HeldOnce, FreesKept, HeldKept

LEMMA SentHeldOnce ==
  ASSUME page' = page, NEW L, HeldOnce(L), FreesKept(L), HeldKept(L), NEW d, calls' = calls \cup {d},
         Act(d.act).lock = L => <<L, Nothing>> \notin held /\ <<L, Nothing>> \in held'
  PROVE  HeldOnce(L)'
BY SamePage DEF HeldOnce, FreesKept, HeldKept

\* A call is over and its flag given back.
LEMMA GivenHeldOnce ==
  ASSUME page' = page, NEW L, HeldOnce(L), FreesKept(L), NEW c \in calls, calls' = calls \ {c},
         Act(c.act).lock # L => HeldKept(L)
  PROVE  HeldOnce(L)'
BY SamePage DEF HeldOnce, FreesKept, HeldKept

\* A call is over, and a read keeps its flag.
LEMMA MovedHeldOnce ==
  ASSUME page' = page, NEW L, HeldOnce(L), HeldKept(L), NEW c \in calls, calls' = calls \ {c},
         reads \in Seq(Read), NEW q, NEW frees, frees[1] = Act(c.act).lock, Started(q, frees)
  PROVE  HeldOnce(L)'
<1>1. /\ DOMAIN reads' = 1..(Len(reads) + 1) /\ DOMAIN reads = 1..Len(reads) /\ Len(reads') = Len(reads) + 1
      /\ Len(reads) \in Nat
      /\ \A j \in DOMAIN reads : reads'[j] = reads[j]
      /\ reads'[Len(reads')].frees = frees
  BY StartedReads, LenProperties
<1>2. \A j \in DOMAIN reads' : j # Len(reads') => j \in DOMAIN reads /\ reads'[j].frees = reads[j].frees
  BY <1>1
<1>3. CASE Act(c.act).lock = L
  <2>1. /\ <<L, Nothing>> \in held
        /\ \A d \in calls' : Act(d.act).lock # L
        /\ \A j \in DOMAIN reads : reads[j].frees[1] # L
    BY <1>3 DEF HeldOnce
  <2>2. <<L, Nothing>> \in held' /\ \A d \in calls' : Act(d.act)'.lock # L
    BY <2>1, SamePage DEF HeldKept
  <2>3. \A j, k \in DOMAIN reads' : reads'[j].frees[1] = L /\ reads'[k].frees[1] = L => j = k
    BY <1>2, <2>1
  <2> QED
    BY <2>2, <2>3 DEF HeldOnce
<1>4. CASE Act(c.act).lock # L
  <2>1. FreesKept(L)
    BY <1>1, <1>2, <1>4 DEF FreesKept
  <2> QED
    BY <2>1, StillHeldOnce
<1> QED
  BY <1>3, <1>4

\* A read is over, and gives back the flag it kept.
LEMMA EndedHeldOnce ==
  ASSUME page' = page, NEW L, HeldOnce(L), calls' = calls, reads \in Seq(Read), NEW i \in DOMAIN reads,
         reads' = Without(OthersLate(i), i), reads[i].frees[1] # L => HeldKept(L)
  PROVE  HeldOnce(L)'
<1> DEFINE from(j) == IF j < i THEN j ELSE j + 1
<1>1. /\ DOMAIN reads' = 1..(Len(reads) - 1) /\ DOMAIN reads = 1..Len(reads) /\ Len(reads) \in Nat
      /\ \A j \in DOMAIN reads' : /\ j < i => reads'[j].frees = reads[j].frees
                                  /\ j >= i => reads'[j] = reads[j + 1]
  BY EndedReads
<1>2. ASSUME NEW j \in DOMAIN reads'
      PROVE  from(j) \in DOMAIN reads /\ from(j) # i /\ reads'[j].frees = reads[from(j)].frees
  <2>1. j \in Int /\ i \in Int
    BY <1>1
  <2>2. CASE j < i
    BY <1>1, <2>1, <2>2
  <2>3. CASE ~(j < i)
    BY <1>1, <2>1, <2>3
  <2> QED
    BY <2>2, <2>3
<1>3. ASSUME NEW j \in DOMAIN reads', NEW k \in DOMAIN reads', from(j) = from(k) PROVE j = k
  BY <1>1, <1>3
<1> HIDE DEF from
<1>4. reads[i].frees[1] = L => /\ \A j \in DOMAIN reads' : reads'[j].frees[1] # L
                               /\ \A c \in calls : Act(c.act).lock # L
  BY <1>2 DEF HeldOnce
<1>5. CASE reads[i].frees[1] = L
  BY <1>4, <1>5, SamePage DEF HeldOnce
<1>6. CASE reads[i].frees[1] # L
  <2>1. HeldKept(L)
    BY <1>6
  <2>2. /\ \A j \in DOMAIN reads' : reads'[j].frees[1] = L => <<L, Nothing>> \in held'
        /\ \A j, k \in DOMAIN reads' : reads'[j].frees[1] = L /\ reads'[k].frees[1] = L => j = k
        /\ \A c \in calls, j \in DOMAIN reads' : ~(Act(c.act).lock = L /\ reads'[j].frees[1] = L)
    BY <1>2, <1>3, <2>1 DEF HeldOnce, HeldKept
  <2> QED
    BY <2>1, <2>2, SamePage DEF HeldOnce, HeldKept
<1> QED
  BY <1>5, <1>6

\* What is done to the flags.
LEMMA FlagsKept ==
  ASSUME NEW L, StrictLock(L), NEW flags, <<L, Nothing>> \in flags
  PROVE  <<L, Nothing>> \in KeepFlags(flags)
BY DEF KeepFlags, StrictLock

LEMMA GiveKeeps ==
  ASSUME NEW L, NEW flag, flag[1] # L, <<L, Nothing>> \in held
  PROVE  <<L, Nothing>> \in Give(flag)
BY DEF Give

LEMMA FlagsStay == \A flags, flag : KeepFlags(flags) \subseteq flags /\ Give(flag) \subseteq held
BY DEF KeepFlags, Give

LEMMA TakeTakes ==
  ASSUME PageShape, NEW name \in DOMAIN Screen.acts, NEW r \in ShownRows
  PROVE  /\ Take(Flag(name, r)) \subseteq Flags
         /\ \A L : StrictLock(L) => /\ <<L, Nothing>> \in held => <<L, Nothing>> \in Take(Flag(name, r))
                                    /\ Act(name).lock = L => <<L, Nothing>> \in Take(Flag(name, r))
<1>1. Flag(name, r) \in Flags /\ Flag(name, r)[1] = Act(name).lock
      /\ (Act(name).lock # "row" => Flag(name, r) = <<Act(name).lock, Nothing>>)
  BY ControlFlag DEF PageShape
<1>2. Take(Flag(name, r)) \subseteq Flags
  BY <1>1 DEF PageShape, Take
<1>3. ASSUME NEW L, StrictLock(L)
      PROVE  /\ <<L, Nothing>> \in held => <<L, Nothing>> \in Take(Flag(name, r))
             /\ Act(name).lock = L => <<L, Nothing>> \in Take(Flag(name, r))
  <2>1. L # "row" /\ L # "none"
    BY <1>3 DEF StrictLock
  <2> QED
    BY <1>1, <2>1 DEF Take
<1> QED
  BY <1>2, <1>3

-----------------------------------------------------------------------------
(* What was seen stays old or right. *)

AnswersSeen ==
  \A j \in DOMAIN reads' : reads'[j].answer # NoAnswer =>
    \A r \in ShownRows : Agrees(reads'[j].answer[r], r)

LEMMA StartedSeen ==
  ASSUME reads \in Seq(Read), SeenInv, NEW q, NEW frees, Started(q, frees)
  PROVE  AnswersSeen
<1>1. /\ DOMAIN reads' = 1..(Len(reads) + 1) /\ DOMAIN reads = 1..Len(reads) /\ Len(reads') = Len(reads) + 1
      /\ Len(reads) \in Nat
      /\ \A j \in DOMAIN reads : reads'[j] = reads[j]
      /\ reads'[Len(reads')].answer = NoAnswer
  BY StartedReads, LenProperties
<1>2. \A j \in DOMAIN reads' : j \in DOMAIN reads \/ j = Len(reads')
  BY <1>1
<1> QED
  BY <1>1, <1>2 DEF AnswersSeen, SeenInv

LEMMA EndedSeen ==
  ASSUME reads \in Seq(Read), SeenInv, NEW i \in DOMAIN reads, reads' = Without(OthersLate(i), i)
  PROVE  AnswersSeen
<1>1. /\ DOMAIN reads' = 1..(Len(reads) - 1) /\ DOMAIN reads = 1..Len(reads) /\ Len(reads) \in Nat
      /\ \A j \in DOMAIN reads' : /\ j < i => reads'[j].answer = reads[j].answer
                                  /\ j >= i => reads'[j] = reads[j + 1]
  BY EndedReads
<1>2. ASSUME NEW j \in DOMAIN reads' PROVE \E k \in DOMAIN reads : reads'[j].answer = reads[k].answer
  <2>1. j \in DOMAIN reads /\ j + 1 \in DOMAIN reads
    BY <1>1
  <2>2. j < i \/ j >= i
    BY <1>1
  <2> QED
    BY <1>1, <2>1, <2>2
<1> QED
  BY <1>2 DEF AnswersSeen, SeenInv

LEMMA SeenStays ==
  ASSUME SeenInv, page' = page, srv' = srv, AnswersSeen,
         view' # NoView => \A r \in ShownRows : Agrees(view'.rows[r], r),
         \A c \in calls' : c \in calls \/ (Agrees(c.saw, c.row) /\ c.at = "out"),
         asked' = asked \/ asked' = Nothing \/ Agrees(asked'.saw, asked'.row),
         \A r \in ShownRows : mine'[r] <= srv[r].rev
  PROVE  SeenInv'
BY SamePage DEF SeenInv, AnswersSeen, Agrees

\* The server's row has changed, or a call was served.
LEMMA SeenGrows ==
  ASSUME PageShape, SeenInv, page' = page, UNCHANGED <<reads, view, asked, mine>>,
         srv' \in Cards,
         \A r \in ShownRows : srv'[r] = srv[r] \/ srv'[r].rev = srv[r].rev + 1,
         \A c \in calls' : \/ c \in calls
                           \/ /\ \E d \in calls : c.saw = d.saw /\ c.row = d.row
                              /\ c.card \in Card /\ c.row \in ShownRows /\ c.card = srv'[c.row]
  PROVE  SeenInv'
<1>1. ShownRows' = ShownRows /\ Card' = Card
  BY SamePage
<1>2. \A r \in ShownRows : srv[r].rev \in Nat
  BY DEF PageShape, Cards, Card
<1>3. ASSUME NEW r \in ShownRows, NEW card, card.rev \in Int, Agrees(card, r)
      PROVE  card.rev <= srv'[r].rev /\ (card.rev = srv'[r].rev => card.st = srv'[r].st)
  <2>1. srv[r].rev \in Nat /\ card.rev <= srv[r].rev /\ (card.rev = srv[r].rev => card.st = srv[r].st)
    BY <1>2, <1>3 DEF Agrees
  <2>2. CASE srv'[r] = srv[r]
    BY <2>1, <2>2
  <2>3. CASE srv'[r].rev = srv[r].rev + 1
    BY <1>3, <2>1, <2>3
  <2> QED
    BY <2>2, <2>3
<1>4. (view # NoView => \A r \in ShownRows : Agrees(view.rows[r], r))'
  <2>1. ASSUME NEW r \in ShownRows, view # NoView PROVE view.rows[r].rev \in Int /\ Agrees(view.rows[r], r)
    BY <2>1 DEF PageShape, SeenInv, Cards, Card
  <2> QED
    BY <1>1, <1>3, <2>1 DEF Agrees
<1>5. (\A i \in DOMAIN reads : reads[i].answer # NoAnswer => \A r \in ShownRows : Agrees(reads[i].answer[r], r))'
  <2>1. ASSUME NEW i \in DOMAIN reads, NEW r \in ShownRows, reads[i].answer # NoAnswer
        PROVE  reads[i].answer[r].rev \in Int /\ Agrees(reads[i].answer[r], r)
    <3>1. reads[i] \in Read
      BY DEF PageShape
    <3>2. reads[i].answer \in Cards
      BY <2>1, <3>1 DEF Read
    <3> QED
      BY <2>1, <3>2 DEF SeenInv, Cards, Card
  <2> QED
    BY <1>1, <1>3, <2>1 DEF Agrees
<1>6. \A d \in calls : d.row \in ShownRows /\ d.saw.rev \in Int /\ Agrees(d.saw, d.row)
  BY DEF PageShape, PageCall, SeenInv, Card
<1>7. ASSUME NEW c \in calls'
      PROVE  Agrees(c.saw, c.row)'
  <2>1. \E d \in calls : c.saw = d.saw /\ c.row = d.row
    OBVIOUS
  <2> QED
    BY <1>3, <1>6, <2>1 DEF Agrees
<1>8. ASSUME NEW c \in calls', c.at # "out" PROVE c.card \in Card' /\ Agrees(c.card, c.row)'
  <2>1. CASE c \in calls
    <3>1. c.card \in Card /\ c.card.rev \in Int /\ c.row \in ShownRows /\ Agrees(c.card, c.row)
      BY <1>6, <1>8, <2>1 DEF SeenInv, Card
    <3> QED
      BY <1>1, <1>3, <3>1 DEF Agrees
  <2>2. CASE c \notin calls
    <3>1. c.card \in Card /\ c.row \in ShownRows /\ c.card = srv'[c.row]
      BY <2>2
    <3>2. c.card.rev \in Nat
      BY <3>1 DEF Card
    <3> QED
      BY <1>1, <3>1, <3>2 DEF Agrees
  <2> QED
    BY <2>1, <2>2
<1>9. (asked # Nothing => Agrees(asked.saw, asked.row))'
  <2>1. asked # Nothing => asked.row \in ShownRows /\ asked.saw.rev \in Int /\ Agrees(asked.saw, asked.row)
    BY DEF PageShape, Dialog, SeenInv, Card
  <2> QED
    BY <1>3, <2>1 DEF Agrees
<1>10. (\A r \in ShownRows : mine[r] <= srv[r].rev)'
  <2>1. \A r \in ShownRows : mine[r] \in Nat /\ mine[r] <= srv[r].rev /\ srv[r].rev \in Nat /\ srv'[r].rev \in Nat
    BY DEF PageShape, SeenInv, Cards, Card
  <2> QED
    BY <1>1, <2>1
<1> QED
  BY <1>1, <1>4, <1>5, <1>7, <1>8, <1>9, <1>10 DEF SeenInv

-----------------------------------------------------------------------------
(* One lemma per action, or group of actions that do the same. *)

LEMMA LockSteps ==
  ASSUME page' = page, LockInv, \A L \in FlagNames : StrictLock(L) /\ HeldOnce(L) => HeldOnce(L)'
  PROVE  LockInv'
BY SamePage DEF LockInv

LEMMA SameReads ==
  ASSUME SeenInv, reads' = reads
  PROVE  AnswersSeen /\ \A L : FreesKept(L)
BY DEF AnswersSeen, SeenInv, FreesKept

LEMMA UntouchedSeen ==
  ASSUME SeenInv
  PROVE  /\ view # NoView => \A r \in ShownRows : Agrees(view.rows[r], r)
         /\ \A r \in ShownRows : mine[r] <= srv[r].rev
BY DEF SeenInv

\* A load that keeps no flag.
LEMMA LoadKeeps ==
  ASSUME PageInv, UNCHANGED <<page, srv, callVars>>, query' \in Nat,
         NEW silent \in BOOLEAN, StartLoad(query', silent, <<"none", Nothing>>)
  PROVE  PageInv'
<1>1. UNCHANGED <<calls, held, asked, mine, acted, left, view, loadedOnce, overtaken, dirty>>
  BY DEF callVars, StartLoad
<1>2. /\ Started(query', <<"none", Nothing>>) /\ loading' \in BOOLEAN /\ error' \in BOOLEAN
  BY StartLoadStarts, NoFlag DEF PageInv, PageShape
<1>3. reads' \in Seq(Read) /\ AnswersSeen
  BY <1>2, StartedReads, StartedSeen DEF PageInv, PageShape
<1>4. PageShape'
  BY <1>1, <1>2, <1>3, SamePage DEF PageInv, PageShape
<1>5. SeenInv'
  BY <1>1, <1>3, UntouchedSeen, SeenStays DEF PageInv
<1>6. FreshInv' /\ SaidInv'
  BY <1>2, StartedIsFresh DEF PageInv
<1>7. LockInv'
  <2>1. ASSUME NEW L, L # "none" PROVE FreesKept(L)
    <3>1. /\ DOMAIN reads' = 1..(Len(reads) + 1) /\ DOMAIN reads = 1..Len(reads) /\ Len(reads') = Len(reads) + 1
          /\ Len(reads) \in Nat
          /\ \A j \in DOMAIN reads : reads'[j] = reads[j]
          /\ reads'[Len(reads')].frees[1] = "none"
      BY <1>2, StartedReads, LenProperties, NoFlag DEF PageInv, PageShape
    <3>2. \A j \in DOMAIN reads' : j \in DOMAIN reads \/ j = Len(reads')
      BY <3>1
    <3> QED
      BY <2>1, <3>1, <3>2 DEF FreesKept
  <2>2. ASSUME NEW L \in FlagNames, StrictLock(L), HeldOnce(L) PROVE HeldOnce(L)'
    <3>1. FreesKept(L) /\ HeldKept(L)
      BY <1>1, <2>1, <2>2 DEF StrictLock, HeldKept
    <3> QED
      BY <1>1, <2>2, <3>1, StillHeldOnce
  <2> QED
    BY <2>2, LockSteps DEF PageInv
<1>8. IdsInv'
  BY <1>1 DEF PageInv, IdsInv
<1> QED
  BY <1>4, <1>5, <1>6, <1>7, <1>8 DEF PageInv

LEMMA ServeReadKeeps ==
  ASSUME PageInv, NEW i \in DOMAIN reads, ServeRead(i)
  PROVE  PageInv'
<1>1. /\ UNCHANGED <<page, query, srv, view, loading, error, loadedOnce, overtaken, dirty>>
      /\ UNCHANGED <<calls, held, asked, mine, acted, left>>
      /\ reads' = [reads EXCEPT ![i].answer = srv]
  BY DEF ServeRead, pageVars, callVars, worldVars
<1>2. /\ reads' \in Seq(Read) /\ DOMAIN reads' = DOMAIN reads
      /\ \A j \in DOMAIN reads : /\ reads'[j].frees = reads[j].frees
                                 /\ reads'[j].answer = IF j = i THEN srv ELSE reads[j].answer
  BY <1>1, ServedReads DEF PageInv, PageShape
<1>3. PageShape'
  BY <1>1, <1>2, SamePage DEF PageInv, PageShape
<1>4. SeenInv'
  <2>1. \A r \in ShownRows : Agrees(srv[r], r)
    BY DEF PageInv, PageShape, Cards, Card, Agrees
  <2>2. AnswersSeen
    BY <1>2, <2>1 DEF AnswersSeen, PageInv, SeenInv
  <2> QED
    BY <1>1, <2>2, UntouchedSeen, SeenStays DEF PageInv
<1>5. FreshInv' /\ SaidInv'
  BY <1>1, ServedIsFresh DEF PageInv
<1>6. LockInv'
  <2>1. ASSUME NEW L \in FlagNames, StrictLock(L), HeldOnce(L) PROVE HeldOnce(L)'
    BY <1>1, <1>2, <2>1, StillHeldOnce DEF FreesKept, HeldKept
  <2> QED
    BY <1>1, <2>1, LockSteps DEF PageInv
<1>7. IdsInv'
  BY <1>1 DEF PageInv, IdsInv
<1> QED
  BY <1>3, <1>4, <1>5, <1>6, <1>7 DEF PageInv

LEMMA KeepDialogKeeps == \A d : KeepDialog(d) = d \/ KeepDialog(d) = Nothing
BY DEF KeepDialog

LEMMA EndReadKeeps ==
  ASSUME PageInv, ~left, NEW i \in DOMAIN reads, Deliver(i) \/ ReadFails(i)
  PROVE  PageInv'
<1>1. /\ UNCHANGED <<page, query, srv, calls, mine, acted, left>>
      /\ reads' = Without(OthersLate(i), i)
      /\ held' = KeepFlags(Give(reads[i].frees)) /\ asked' = KeepDialog(asked)
      /\ loading' = (loading /\ reads[i].silent) /\ loadedOnce' = TRUE
      /\ Brings(i) \/ (error' /\ UNCHANGED <<view, overtaken>>)
  BY DEF Deliver, ReadFails, EndLoad, Brings, pageVars, worldVars
<1>2. reads[i] \in Read /\ reads' \in Seq(Read) /\ AnswersSeen
  BY <1>1, EndedReads, EndedSeen DEF PageInv, PageShape
<1>3. /\ view' = NoView \/ view' \in [query : Nat, rows : Cards]
      /\ view # NoView => view' # NoView
      /\ view' # NoView => \A r \in ShownRows : Agrees(view'.rows[r], r)
      /\ overtaken' \in BOOLEAN
  <2>1. CASE Brings(i)
    <3>1. reads[i].answer \in Cards /\ view' \in [query : Nat, rows : Cards] /\ view'.rows = reads[i].answer
      BY <1>2, <2>1 DEF Brings, Read
    <3> QED
      BY <1>2, <2>1, <3>1, CardsAreAnswers DEF Brings, Read, PageInv, SeenInv
  <2>2. CASE UNCHANGED <<view, overtaken>>
    BY <2>2, UntouchedSeen DEF PageInv, PageShape
  <2> QED
    BY <1>1, <2>1, <2>2
<1>4. asked' = asked \/ asked' = Nothing
  BY <1>1, KeepDialogKeeps
<1>5. PageShape'
  <2>1. error' \in BOOLEAN /\ dirty' \in BOOLEAN /\ loading' \in BOOLEAN
    BY <1>1 DEF Deliver, ReadFails, PageInv, PageShape
  <2>2. held' \subseteq held
    BY <1>1, FlagsStay
  <2> QED
    BY <1>1, <1>2, <1>3, <1>4, <2>1, <2>2, SamePage DEF PageInv, PageShape
<1>6. SeenInv'
  BY <1>1, <1>2, <1>3, <1>4, UntouchedSeen, SeenStays DEF PageInv
<1>7. FreshInv' /\ SaidInv'
  BY <1>1, EndedIsFresh DEF PageInv
<1>8. LockInv'
  <2>1. ASSUME NEW L \in FlagNames, StrictLock(L), HeldOnce(L) PROVE HeldOnce(L)'
    <3>1. reads[i].frees[1] # L => HeldKept(L)
      BY <1>1, <2>1, FlagsKept, GiveKeeps DEF HeldKept
    <3> QED
      BY <1>1, <2>1, <3>1, EndedHeldOnce DEF PageInv, PageShape
  <2> QED
    BY <1>1, <2>1, LockSteps DEF PageInv
<1>9. IdsInv'
  BY <1>1 DEF PageInv, IdsInv
<1> QED
  BY <1>5, <1>6, <1>7, <1>8, <1>9 DEF PageInv

\* Only the dialog, its flag and the form are touched, and the page may be left.
LEMMA CancelKeeps ==
  ASSUME PageInv, Cancel \/ Edit \/ Leave
  PROVE  PageInv'
<1>1. /\ UNCHANGED <<page, query, srv, reads, view, loading, error, loadedOnce, overtaken, calls, mine, acted>>
      /\ asked' = asked \/ asked' = Nothing
      /\ left' \in BOOLEAN /\ dirty' \in BOOLEAN /\ (left => left')
  BY DEF Cancel, Edit, Leave, pageVars, loadVars, callVars, worldVars, PageInv, PageShape
<1>2. /\ held' \subseteq held
      /\ \A L : StrictLock(L) => HeldKept(L)
  <2>1. CASE held' = held
    BY <2>1 DEF HeldKept
  <2>2. CASE Cancel /\ Act(asked.act).unmounts /\ held' = held \ {Flag(asked.act, asked.row)}
    <3>1. asked.act \in DOMAIN Screen.acts /\ asked.row \in ShownRows
      BY <2>2 DEF Cancel, DialogShown, PageInv, PageShape, Dialog
    <3>2. Flag(asked.act, asked.row)[1] = Act(asked.act).lock
      BY <3>1, ControlFlag DEF PageInv, PageShape
    <3>3. ASSUME NEW L, StrictLock(L) PROVE <<L, Nothing>> # Flag(asked.act, asked.row)
      <4>1. Act(asked.act).lock # L
        BY <2>2, <3>1, <3>3 DEF StrictLock
      <4>2. <<L, Nothing>>[1] = L
        OBVIOUS
      <4> QED
        BY <3>2, <4>1, <4>2
    <3> QED
      BY <2>2, <3>3 DEF HeldKept
  <2> QED
    BY <2>1, <2>2 DEF Cancel, Edit, Leave, callVars
<1>3. PageShape'
  BY <1>1, <1>2, SamePage DEF PageInv, PageShape
<1>4. SeenInv'
  BY <1>1, SameReads, UntouchedSeen, SeenStays DEF PageInv
<1>5. FreshInv' /\ SaidInv'
  BY <1>1, UntouchedIsFresh DEF PageInv
<1>6. LockInv'
  <2>1. ASSUME NEW L \in FlagNames, StrictLock(L), HeldOnce(L) PROVE HeldOnce(L)'
    BY <1>1, <1>2, <2>1, SameReads, StillHeldOnce DEF PageInv
  <2> QED
    BY <1>1, <2>1, LockSteps DEF PageInv
<1>7. IdsInv'
  BY <1>1 DEF PageInv, IdsInv
<1> QED
  BY <1>3, <1>4, <1>5, <1>6, <1>7 DEF PageInv

\* A call is sent.
LEMMA SendKeeps ==
  ASSUME PageInv, view # NoView, NEW name \in DOMAIN Screen.acts, NEW r \in ShownRows, NEW saw \in Card,
         Agrees(saw, r), Flag(name, r) \notin held \/ Act(name).loose,
         Send(name, r, saw), UNCHANGED <<pageVars, loadVars, worldVars, asked, mine, left>>
  PROVE  PageInv'
<1> DEFINE d == [act |-> name, row |-> r, saw |-> saw, at |-> "out", card |-> NoCard, id |-> acted]
<1>1. /\ UNCHANGED <<page, query, srv, reads, view, loading, error, loadedOnce, overtaken, dirty, asked, mine, left>>
      /\ calls' = calls \cup {d} /\ held' = Take(Flag(name, r)) /\ acted' = acted + 1
  BY DEF Send, pageVars, loadVars, worldVars
<1>2. acted \in Nat
  BY DEF PageInv, PageShape
<1>3. /\ d \in PageCall /\ d.act = name /\ d.row = r /\ d.saw = saw /\ d.at = "out" /\ d.id = acted
  BY <1>2 DEF PageCall
<1> HIDE DEF d
<1>4. /\ held' \subseteq Flags
      /\ \A L : StrictLock(L) => HeldKept(L) /\ (Act(name).lock = L => <<L, Nothing>> \in held')
  BY <1>1, TakeTakes DEF PageInv, HeldKept
<1>5. PageShape'
  BY <1>1, <1>2, <1>3, <1>4, SamePage DEF PageInv, PageShape
<1>6. SeenInv'
  BY <1>1, <1>3, SameReads, UntouchedSeen, SeenStays DEF PageInv
<1>7. FreshInv' /\ SaidInv'
  BY <1>1, UntouchedIsFresh DEF PageInv
<1>8. LockInv'
  <2>1. ASSUME NEW L \in FlagNames, StrictLock(L), HeldOnce(L) PROVE HeldOnce(L)'
    <3>1. Act(name).lock = L => <<L, Nothing>> \notin held
      <4>1. Act(name).lock = L => ~Act(name).loose /\ L # "row"
        BY <2>1 DEF StrictLock
      <4> QED
        BY <4>1, ControlFlag DEF PageInv, PageShape
    <3> QED
      BY <1>1, <1>3, <1>4, <2>1, <3>1, SameReads, SentHeldOnce DEF PageInv
  <2> QED
    BY <1>1, <2>1, LockSteps DEF PageInv
<1>9. IdsInv'
  <2>1. \A c \in calls : c.id \in Nat /\ c.id < acted
    BY DEF PageInv, PageShape, PageCall, IdsInv
  <2>2. \A c \in calls : c.id # acted /\ c.id < acted + 1
    BY <1>2, <2>1
  <2> QED
    BY <1>1, <1>2, <1>3, <2>2 DEF PageInv, IdsInv
<1> QED
  BY <1>5, <1>6, <1>7, <1>8, <1>9 DEF PageInv

LEMMA PressKeeps ==
  ASSUME PageInv, NEW name \in DOMAIN Screen.acts, NEW r \in ShownRows, Press(name, r)
  PROVE  PageInv'
<1>1. view # NoView /\ (Flag(name, r) \notin held \/ Act(name).loose)
  BY DEF Press, Offered, Rendered, Free
<1>2. view \in [query : Nat, rows : Cards]
  BY <1>1 DEF PageInv, PageShape
<1>3. view.rows[r] \in Card /\ srv[r] \in Card /\ Agrees(view.rows[r], r) /\ Agrees(srv[r], r)
  BY <1>1, <1>2 DEF PageInv, PageShape, SeenInv, Cards, Card, Agrees
<1>4. CASE ~Act(name).asks
  <2>1. Send(name, r, view.rows[r]) /\ UNCHANGED <<pageVars, loadVars, worldVars, asked, mine, left>>
    BY <1>4 DEF Press
  <2> QED
    BY <1>1, <1>3, <2>1, SendKeeps
<1>5. CASE Act(name).asks
  <2> DEFINE saw == IF Act(name).fresh THEN srv[r] ELSE view.rows[r]
             d == [act |-> name, row |-> r, saw |-> saw]
  <2>1. /\ UNCHANGED <<page, query, srv, reads, view, loading, error, loadedOnce, overtaken, dirty>>
        /\ UNCHANGED <<calls, held, acted, mine, left>>
        /\ asked' = d
    BY <1>5 DEF Press, pageVars, loadVars, worldVars
  <2>2. saw \in Card /\ Agrees(saw, r)
    BY <1>3
  <2> HIDE DEF saw
  <2>3. d \in Dialog /\ d.saw = saw /\ d.row = r
    BY <2>2 DEF Dialog
  <2> HIDE DEF d
  <2>4. PageShape'
    BY <1>1, <2>1, <2>3, SamePage DEF PageInv, PageShape
  <2>5. SeenInv'
    <3>1. Agrees(asked'.saw, asked'.row)
      BY <2>1, <2>2, <2>3
    <3> QED
      BY <2>1, <3>1, SameReads, UntouchedSeen, SeenStays DEF PageInv
  <2>6. FreshInv' /\ SaidInv'
    BY <2>1, UntouchedIsFresh DEF PageInv
  <2>7. LockInv'
    <3>1. ASSUME NEW L \in FlagNames, StrictLock(L), HeldOnce(L) PROVE HeldOnce(L)'
      BY <2>1, <3>1, SameReads, StillHeldOnce DEF PageInv, HeldKept
    <3> QED
      BY <2>1, <3>1, LockSteps DEF PageInv
  <2>8. IdsInv'
    BY <2>1 DEF PageInv, IdsInv
  <2> QED
    BY <2>4, <2>5, <2>6, <2>7, <2>8 DEF PageInv
<1> QED
  BY <1>4, <1>5

LEMMA ConfirmKeeps == ASSUME PageInv, Confirm PROVE PageInv'
<1>1. asked # Nothing /\ Flag(asked.act, asked.row) \notin held
  BY DEF Confirm, DialogShown
<1>2. /\ asked.act \in DOMAIN Screen.acts /\ asked.row \in ShownRows /\ asked.saw \in Card
      /\ Agrees(asked.saw, asked.row) /\ view # NoView
  BY <1>1 DEF PageInv, PageShape, SeenInv, Dialog
<1> QED
  BY <1>1, <1>2, SendKeeps DEF Confirm

\* The server or somebody else changes rows; what the tab has is what it was.
LEMMA WorldKeeps ==
  ASSUME PageInv, UNCHANGED <<pageVars, loadVars, held, asked, mine, acted, left>>, srv' \in Cards,
         \A r \in ShownRows : srv'[r] = srv[r] \/ srv'[r].rev = srv[r].rev + 1,
         \/ calls' = calls
         \/ \E c \in calls : \E d \in PageCall :
              /\ calls' = (calls \ {c}) \cup {d}
              /\ d.act = c.act /\ d.row = c.row /\ d.saw = c.saw /\ d.id = c.id
              /\ d.card \in Card /\ d.card = srv'[d.row]
  PROVE  PageInv'
<1>1. /\ UNCHANGED <<page, query, reads, view, loading, error, loadedOnce, overtaken, dirty>>
      /\ UNCHANGED <<held, asked, mine, acted, left>>
  BY DEF pageVars, loadVars
<1>2. /\ calls' \subseteq PageCall
      /\ calls' # {} => calls # {}
      /\ \A c \in calls' : \/ c \in calls
                           \/ /\ \E d \in calls : c.saw = d.saw /\ c.row = d.row
                              /\ c.card \in Card /\ c.row \in ShownRows /\ c.card = srv'[c.row]
  BY DEF PageInv, PageShape, PageCall
<1>3. PageShape'
  BY <1>1, <1>2, SamePage DEF PageInv, PageShape
<1>4. SeenInv'
  BY <1>1, <1>2, SeenGrows DEF PageInv
<1>5. FreshInv' /\ SaidInv'
  BY <1>1, UntouchedIsFresh DEF PageInv
<1>6. LockInv'
  <2>1. ASSUME NEW L \in FlagNames, StrictLock(L), HeldOnce(L) PROVE HeldOnce(L)'
    <3>1. FreesKept(L) /\ HeldKept(L)
      BY <1>1, SameReads DEF PageInv, HeldKept
    <3>2. CASE calls' = calls
      BY <1>1, <2>1, <3>1, <3>2, StillHeldOnce
    <3>3. ASSUME NEW c \in calls, NEW d \in PageCall, calls' = (calls \ {c}) \cup {d}, d.act = c.act
          PROVE  HeldOnce(L)'
      BY <1>1, <2>1, <3>1, <3>3, ServedHeldOnce
    <3> QED
      BY <3>2, <3>3
  <2> QED
    BY <1>1, <2>1, LockSteps DEF PageInv
<1>7. IdsInv'
  <2>1. CASE calls' = calls
    BY <1>1, <2>1 DEF PageInv, IdsInv
  <2>2. ASSUME NEW c \in calls, NEW d \in PageCall, calls' = (calls \ {c}) \cup {d}, d.id = c.id
        PROVE  IdsInv'
    BY <1>1, <2>2 DEF PageInv, IdsInv
  <2> QED
    BY <2>1, <2>2
<1> QED
  BY <1>3, <1>4, <1>5, <1>6, <1>7 DEF PageInv

LEMMA OthersChangeKeeps == ASSUME PageInv, OthersChange PROVE PageInv'
<1>1. PICK r \in ShownRows, s \in Screen.start : srv' = [srv EXCEPT ![r] = [st |-> s, rev |-> srv[r].rev + 1]]
  BY DEF OthersChange
<1>2. s \in DOMAIN Screen.offers
  BY ScreensAssumption DEF PageInv, PageShape, Screen
<1>3. srv \in Cards /\ srv[r].rev \in Nat
  BY DEF PageInv, PageShape, Cards, Card
<1>4. [st |-> s, rev |-> srv[r].rev + 1] \in Card
  BY <1>2, <1>3 DEF Card
<1>5. srv' \in Cards /\ \A q \in ShownRows : srv'[q] = srv[q] \/ srv'[q].rev = srv[q].rev + 1
  BY <1>1, <1>3, <1>4 DEF Cards
<1> QED
  BY <1>5, WorldKeeps DEF OthersChange, callVars

\* How a call is served.
Serving(c, at, card) ==
  /\ calls' = (calls \ {c}) \cup {[c EXCEPT !.at = at, !.card = card]}
  /\ card \in Card /\ srv' \in Cards /\ srv'[c.row] = card
  /\ \A r \in ShownRows : srv'[r] = srv[r] \/ srv'[r].rev = srv[r].rev + 1

\* What a served call becomes.
LEMMA ServedCall ==
  ASSUME PageInv, NEW c \in calls, NEW at \in {"ok", "refused", "partly"}, NEW card \in Card, Serving(c, at, card)
  PROVE  \E d \in PageCall : /\ calls' = (calls \ {c}) \cup {d}
                             /\ d.act = c.act /\ d.row = c.row /\ d.saw = c.saw /\ d.id = c.id
                             /\ d.at = at /\ d.card = card
<1> DEFINE d == [c EXCEPT !.at = at, !.card = card]
<1>1. c \in PageCall
  BY DEF PageInv, PageShape
<1>2. card \in Card /\ calls' = (calls \ {c}) \cup {d}
  BY DEF Serving
<1>3. /\ d \in PageCall /\ d.act = c.act /\ d.row = c.row /\ d.saw = c.saw /\ d.id = c.id
      /\ d.at = at /\ d.card = card
  BY <1>1, <1>2 DEF PageCall
<1> HIDE DEF d
<1> QED
  BY <1>2, <1>3

LEMMA ServeCallServes ==
  ASSUME PageInv, NEW c \in calls, ServeCall(c)
  PROVE  \/ \E card \in Card : Serving(c, "ok", card)
         \/ /\ \E card \in Card : Serving(c, "refused", card)
            /\ srv[c.row].st \notin DOMAIN Act(c.act).makes \/ Act(c.act).unseen
         \/ \E card \in Card : Serving(c, "partly", card)
<1> DEFINE row == srv[c.row]
<1>1. /\ c \in PageCall /\ c.act \in DOMAIN Screen.acts /\ c.row \in ShownRows /\ c.saw.st \in DOMAIN Screen.offers
      /\ srv \in Cards /\ row \in Card /\ row.rev \in Nat /\ row.st \in DOMAIN Screen.offers
  BY DEF PageInv, PageShape, PageCall, Cards, Card
<1>2. /\ Act(c.act).unshown => ~Act(c.act).asRead /\ \A st \in DOMAIN Act(c.act).makes : Act(c.act).makes[st] = st
      /\ \A st \in DOMAIN Act(c.act).makes : Act(c.act).makes[st] \in DOMAIN Screen.offers
  BY <1>1, ScreensAssumption DEF PageInv, PageShape, Screen, Act
<1>3. ASSUME row.st \in DOMAIN Act(c.act).makes, NEW card,
             card = [st |-> Result(c), rev |-> row.rev + (IF Act(c.act).unshown THEN 0 ELSE 1)],
             srv' = [srv EXCEPT ![c.row] = card],
             calls' = (calls \ {c}) \cup {[c EXCEPT !.at = "ok", !.card = card]}
      PROVE  Serving(c, "ok", card)
  <2>1. Result(c) \in DOMAIN Screen.offers
    BY <1>1, <1>2, <1>3 DEF Result
  <2>2. card \in Card
    BY <1>1, <1>3, <2>1 DEF Card
  <2>3. card = row \/ card.rev = row.rev + 1
    <3>1. CASE Act(c.act).unshown
      <4>1. card = [st |-> row.st, rev |-> row.rev]
        BY <1>1, <1>2, <1>3, <3>1 DEF Result
      <4> QED
        BY <1>1, <4>1 DEF Card
    <3> QED
      BY <1>3, <3>1
  <2> QED
    BY <1>1, <1>3, <2>2, <2>3 DEF Serving, Cards
<1>4. ASSUME calls' = (calls \ {c}) \cup {[c EXCEPT !.at = "refused", !.card = row]}, srv' = srv
      PROVE  Serving(c, "refused", row)
  BY <1>1, <1>4 DEF Serving
<1>5. ASSUME srv' = [srv EXCEPT ![c.row].rev = srv[c.row].rev + 1],
             calls' = (calls \ {c}) \cup {[c EXCEPT !.at = "partly", !.card = srv'[c.row]]}
      PROVE  Serving(c, "partly", srv'[c.row])
  <2> DEFINE card == [row EXCEPT !.rev = row.rev + 1]
  <2>1. card \in Card /\ card.rev = row.rev + 1
    BY <1>1 DEF Card
  <2>2. srv' = [srv EXCEPT ![c.row] = card]
    BY <1>5
  <2> HIDE DEF card, row
  <2>3. srv' \in Cards /\ srv'[c.row] = card /\ \A r \in ShownRows : r # c.row => srv'[r] = srv[r]
    BY <1>1, <2>1, <2>2 DEF Cards
  <2> QED
    BY <1>1, <1>5, <2>1, <2>3 DEF Serving, row
<1>6. \A at, card : Serving(c, at, card) => card \in Card
  BY DEF Serving
<1> QED
  BY <1>3, <1>4, <1>5, <1>6 DEF ServeCall

LEMMA ServeCallKeeps == ASSUME PageInv, NEW c \in calls, ServeCall(c) PROVE PageInv'
<1>1. PICK at \in {"ok", "refused", "partly"}, card \in Card : Serving(c, at, card)
  BY ServeCallServes
<1>2. \E d \in PageCall : /\ calls' = (calls \ {c}) \cup {d}
                          /\ d.act = c.act /\ d.row = c.row /\ d.saw = c.saw /\ d.id = c.id
                          /\ d.card \in Card /\ d.card = srv'[d.row]
  <2>1. card \in Card /\ srv'[c.row] = card
    BY <1>1 DEF Serving
  <2> QED
    BY <1>1, <2>1, ServedCall
<1>3. srv' \in Cards /\ \A r \in ShownRows : srv'[r] = srv[r] \/ srv'[r].rev = srv[r].rev + 1
  BY <1>1 DEF Serving
<1> QED
  BY <1>2, <1>3, WorldKeeps DEF ServeCall

-----------------------------------------------------------------------------
(* Answers of calls. *)

\* A call is over and the page loads again; the load may keep the call's flag.
LEMMA ReloadedKeeps ==
  ASSUME PageInv, NEW c \in calls, AndReload(c), calls' = calls \ {c}, asked' = asked \/ asked' = Nothing,
         UNCHANGED <<page, query, srv, acted, left>>,
         mine' \in [ShownRows -> Nat], \A r \in ShownRows : mine'[r] <= srv[r].rev
  PROVE  PageInv'
<1> DEFINE flag == Flag(c.act, c.row)
<1>1. /\ c.act \in DOMAIN Screen.acts /\ c.row \in ShownRows
      /\ reads \in Seq(Read) /\ error \in BOOLEAN /\ loading \in BOOLEAN /\ query \in Nat
  BY DEF PageInv, PageShape, PageCall
<1>2. flag \in Flags /\ flag[1] = Act(c.act).lock /\ Act(c.act).silent \in BOOLEAN
  BY <1>1, ControlFlag DEF PageInv, PageShape
<1>3. \/ /\ StartLoad(query, Act(c.act).silent, flag) /\ held' = KeepFlags(held)
      \/ /\ StartLoad(query, Act(c.act).silent, <<"none", Nothing>>) /\ held' = KeepFlags(Give(flag))
  BY DEF AndReload
<1> HIDE DEF flag
<1>4. /\ \/ Started(query, flag) /\ held' = KeepFlags(held)
         \/ Started(query, <<"none", Nothing>>) /\ held' = KeepFlags(Give(flag))
      /\ UNCHANGED <<view, loadedOnce, overtaken, dirty>> /\ loading' \in BOOLEAN /\ error' \in BOOLEAN
  BY <1>1, <1>2, <1>3, StartLoadStarts, NoFlag
<1>5. PICK frees : Started(query, frees)
  BY <1>4
<1>6. reads' \in Seq(Read) /\ AnswersSeen
  BY <1>1, <1>5, StartedReads, StartedSeen DEF PageInv
<1>7. held' \subseteq held
  BY <1>4, FlagsStay
<1>8. PageShape'
  BY <1>4, <1>6, <1>7, SamePage DEF PageInv, PageShape
<1>9. SeenInv'
  BY <1>4, <1>6, UntouchedSeen, SeenStays DEF PageInv
<1>10. FreshInv' /\ SaidInv'
  BY <1>5, StartedIsFresh DEF PageInv
<1>11. LockInv'
  <2>1. ASSUME NEW L \in FlagNames, StrictLock(L), HeldOnce(L) PROVE HeldOnce(L)'
    <3>1. CASE Started(query, flag) /\ held' = KeepFlags(held)
      <4>1. HeldKept(L)
        BY <2>1, <3>1, FlagsKept DEF HeldKept
      <4> QED
        BY <1>1, <1>2, <2>1, <3>1, <4>1, MovedHeldOnce
    <3>2. CASE Started(query, <<"none", Nothing>>) /\ held' = KeepFlags(Give(flag))
      <4>1. FreesKept(L)
        <5>1. /\ DOMAIN reads' = 1..(Len(reads) + 1) /\ DOMAIN reads = 1..Len(reads)
              /\ Len(reads') = Len(reads) + 1 /\ Len(reads) \in Nat
              /\ \A j \in DOMAIN reads : reads'[j] = reads[j]
              /\ reads'[Len(reads')].frees[1] = "none"
          BY <1>1, <3>2, StartedReads, LenProperties, NoFlag
        <5>2. \A j \in DOMAIN reads' : j \in DOMAIN reads \/ j = Len(reads')
          BY <5>1
        <5>3. L # "none"
          BY <2>1 DEF StrictLock
        <5> QED
          BY <5>1, <5>2, <5>3 DEF FreesKept
      <4>2. Act(c.act).lock # L => HeldKept(L)
        BY <1>2, <2>1, <3>2, FlagsKept, GiveKeeps DEF HeldKept
      <4> QED
        BY <2>1, <4>1, <4>2, GivenHeldOnce
    <3> QED
      BY <1>4, <3>1, <3>2
  <2> QED
    BY <2>1, LockSteps DEF PageInv
<1>12. IdsInv'
  BY DEF PageInv, IdsInv
<1> QED
  BY <1>8, <1>9, <1>10, <1>11, <1>12 DEF PageInv

\* A call is over, its flag given back, and what the page shows is as it was, or is left.
LEMMA ReleasedKeeps ==
  ASSUME PageInv, NEW c \in calls, calls' = calls \ {c}, asked' = asked \/ asked' = Nothing,
         UNCHANGED <<page, query, srv, acted, reads, view, loading, loadedOnce, overtaken, dirty>>,
         error' \in BOOLEAN, error => error', left' \in BOOLEAN,
         held' = Give(Flag(c.act, c.row)) \/ held' = KeepFlags(Give(Flag(c.act, c.row))),
         mine' \in [ShownRows -> Nat], \A r \in ShownRows : mine'[r] <= srv[r].rev,
         left' \/ UNCHANGED <<left, mine>>
  PROVE  PageInv'
<1>1. Flag(c.act, c.row)[1] = Act(c.act).lock
  BY ControlFlag DEF PageInv, PageShape, PageCall
<1>2. held' \subseteq held
  BY FlagsStay
<1>3. PageShape'
  BY <1>2, SamePage DEF PageInv, PageShape
<1>4. SeenInv'
  BY SameReads, UntouchedSeen, SeenStays DEF PageInv
<1>5. FreshInv' /\ SaidInv'
  <2>1. CASE left'
    BY <2>1, SamePage DEF FreshInv, SaidInv, PageInv
  <2>2. CASE UNCHANGED <<left, mine>>
    BY <2>2, UntouchedIsFresh DEF PageInv
  <2> QED
    BY <2>1, <2>2
<1>6. LockInv'
  <2>1. ASSUME NEW L \in FlagNames, StrictLock(L), HeldOnce(L) PROVE HeldOnce(L)'
    <3>1. Act(c.act).lock # L => HeldKept(L)
      BY <1>1, <2>1, FlagsKept, GiveKeeps DEF HeldKept
    <3> QED
      BY <2>1, <3>1, SameReads, GivenHeldOnce DEF PageInv
  <2> QED
    BY <2>1, LockSteps DEF PageInv
<1>7. IdsInv'
  BY DEF PageInv, IdsInv
<1> QED
  BY <1>3, <1>4, <1>5, <1>6, <1>7 DEF PageInv

\* A call is over and the card of its answer shown.
LEMMA PatchedKeeps ==
  ASSUME PageInv, NEW c \in calls, c.at # "out", Patch(c), Release(c), Told(c), calls' = calls \ {c},
         asked' = asked \/ asked' = Nothing, UNCHANGED <<page, query, srv, acted, left>>
  PROVE  PageInv'
<1>1. /\ UNCHANGED <<loading, error, loadedOnce>> /\ held' = Give(Flag(c.act, c.row))
      /\ reads' = [j \in DOMAIN reads |-> [reads[j] EXCEPT !.late = TRUE]]
      /\ view' = [view EXCEPT !.rows[c.row] = c.card]
      /\ overtaken' \in BOOLEAN /\ dirty' \in BOOLEAN
  BY DEF Patch, Release, PageInv, PageShape
<1>2. /\ reads' \in Seq(Read) /\ DOMAIN reads' = DOMAIN reads
      /\ \A j \in DOMAIN reads : reads'[j].answer = reads[j].answer /\ reads'[j].frees = reads[j].frees
  BY <1>1, PatchedReads DEF PageInv, PageShape
<1>3. /\ view' \in [query : Nat, rows : Cards]
      /\ \A r \in ShownRows : view'.rows[r] = IF r = c.row THEN c.card ELSE view.rows[r]
      /\ view # NoView
  BY <1>1, PatchedView DEF PageInv, PageShape
<1>4. mine' \in [ShownRows -> Nat] /\ \A r \in ShownRows : mine'[r] <= srv[r].rev
  BY ToldType DEF PageInv
<1>5. PageShape'
  <2>1. held' \subseteq held
    BY <1>1, FlagsStay
  <2> QED
    BY <1>1, <1>2, <1>3, <1>4, <2>1, CardsAreAnswers, SamePage DEF PageInv, PageShape
<1>6. SeenInv'
  <2>1. AnswersSeen
    BY <1>2 DEF AnswersSeen, PageInv, SeenInv
  <2>2. \A r \in ShownRows : Agrees(view'.rows[r], r)
    BY <1>3 DEF PageInv, SeenInv
  <2> QED
    BY <1>4, <2>1, <2>2, SeenStays DEF PageInv
<1>7. FreshInv' /\ SaidInv'
  BY PatchedIsFresh DEF PageInv
<1>8. LockInv'
  <2>1. Flag(c.act, c.row)[1] = Act(c.act).lock
    BY ControlFlag DEF PageInv, PageShape, PageCall
  <2>2. ASSUME NEW L \in FlagNames, StrictLock(L), HeldOnce(L) PROVE HeldOnce(L)'
    <3>1. FreesKept(L)
      BY <1>2 DEF FreesKept
    <3>2. Act(c.act).lock # L => HeldKept(L)
      BY <1>1, <2>1, GiveKeeps DEF HeldKept
    <3> QED
      BY <2>2, <3>1, <3>2, GivenHeldOnce
  <2> QED
    BY <2>2, LockSteps DEF PageInv
<1>9. IdsInv'
  BY DEF PageInv, IdsInv
<1> QED
  BY <1>5, <1>6, <1>7, <1>8, <1>9 DEF PageInv

LEMMA ClosedCloses == \A c : Closed(c) = asked \/ Closed(c) = Nothing
BY DEF Closed

LEMMA DoneKeeps == ASSUME PageInv, NEW c \in calls, Done(c) PROVE PageInv'
<1>1. /\ UNCHANGED <<page, query, srv, acted>> /\ calls' = calls \ {c} /\ Told(c) /\ c.at # "out"
  BY DEF Done, pageVars, worldVars
<1>2. asked' = asked \/ asked' = Nothing
  BY ClosedCloses, KeepDialogKeeps DEF Done
<1>3. /\ mine' \in [ShownRows -> Nat] /\ \A r \in ShownRows : mine'[r] <= srv[r].rev
      /\ Act(c.act).unshown => mine' = mine
  BY <1>1, ToldType DEF PageInv
<1>4. /\ Act(c.act).after \in {"reload", "patch", "leave", "stay"}
      /\ Act(c.act).after = "stay" => Act(c.act).unshown
  BY ScreensAssumption DEF PageInv, PageShape, PageCall, Screen, Act
<1>5. CASE Act(c.act).after = "reload"
  BY <1>1, <1>2, <1>3, <1>5, ReloadedKeeps DEF Done
<1>6. CASE Act(c.act).after = "patch"
  BY <1>1, <1>2, <1>6, PatchedKeeps DEF Done
<1>7. CASE Act(c.act).after \in {"leave", "stay"}
  <2>1. /\ UNCHANGED loadVars /\ held' = Give(Flag(c.act, c.row))
        /\ left' = TRUE \/ (left' = left /\ Act(c.act).unshown)
    BY <1>4, <1>7 DEF Done, Release
  <2>2. error \in BOOLEAN /\ left \in BOOLEAN
    BY DEF PageInv, PageShape
  <2> QED
    BY <1>1, <1>2, <1>3, <2>1, <2>2, ReleasedKeeps DEF loadVars
<1> QED
  BY <1>4, <1>5, <1>6, <1>7

LEMMA FailedKeeps == ASSUME PageInv, NEW c \in calls, NEW refused, Failed(c, refused) PROVE PageInv'
<1>1. /\ UNCHANGED <<page, query, srv, mine, acted, left>> /\ calls' = calls \ {c}
  BY DEF Failed, pageVars
<1>2. asked' = asked \/ asked' = Nothing
  BY ClosedCloses, KeepDialogKeeps DEF Failed
<1>3. mine \in [ShownRows -> Nat] /\ \A r \in ShownRows : mine[r] <= srv[r].rev
  BY DEF PageInv, PageShape, SeenInv
<1>4. CASE LoadsAgain(c, refused)
  <2>1. AndReload(c)
    BY <1>4 DEF Failed
  <2> QED
    BY <1>1, <1>2, <1>3, <2>1, ReloadedKeeps
<1>5. CASE ~LoadsAgain(c, refused)
  <2>1. /\ error' = (error \/ Act(c.act).errorTo = "page")
        /\ UNCHANGED <<reads, view, loading, loadedOnce, overtaken, dirty>>
        /\ held' = KeepFlags(Give(Flag(c.act, c.row)))
    BY <1>5 DEF Failed
  <2>2. error' \in BOOLEAN /\ (error => error') /\ left' \in BOOLEAN
    BY <1>1, <2>1 DEF PageInv, PageShape
  <2> QED
    BY <1>1, <1>2, <1>3, <2>1, <2>2, ReleasedKeeps
<1> QED
  BY <1>4, <1>5

LEMMA DoneInPartKeeps == ASSUME PageInv, NEW c \in calls, DoneInPart(c) PROVE PageInv'
<1>1. CASE Act(c.act).parts = "stay"
  BY <1>1, FailedKeeps DEF DoneInPart
<1>2. CASE Act(c.act).parts # "stay"
  <2>1. /\ UNCHANGED <<page, query, srv, acted, left>> /\ calls' = calls \ {c} /\ Told(c) /\ AndReload(c)
        /\ c.at # "out" /\ asked' = KeepDialog(asked)
    BY <1>2 DEF DoneInPart, pageVars
  <2>2. mine' \in [ShownRows -> Nat] /\ \A r \in ShownRows : mine'[r] <= srv[r].rev
    BY <2>1, ToldType DEF PageInv
  <2> QED
    BY <2>1, <2>2, KeepDialogKeeps, ReloadedKeeps
<1> QED
  BY <1>1, <1>2

-----------------------------------------------------------------------------
(* All steps together. *)

LEMMA PageStarts == PageInit => PageInv
<1> SUFFICES ASSUME PageInit PROVE PageInv
  OBVIOUS
<1>1. PICK s \in Screen.start : srv = [r \in ShownRows |-> [st |-> s, rev |-> 0]]
  BY DEF PageInit
<1>2. srv \in Cards /\ \A r \in ShownRows : srv[r].rev = 0
  <2>1. s \in DOMAIN Screen.offers
    BY <1>1, ScreensAssumption DEF PageInit, Screen
  <2> QED
    BY <1>1, <2>1 DEF Cards, Card
<1>3. /\ calls = {} /\ held = {} /\ asked = Nothing /\ query = 0 /\ acted = 0
      /\ mine = [r \in ShownRows |-> 0]
      /\ error = FALSE /\ loadedOnce = FALSE /\ overtaken = FALSE /\ dirty = FALSE /\ left = FALSE
      /\ loading = (Screen.reads /\ Screen.skeleton # "never") /\ page \in DOMAIN Screens
  BY DEF PageInit
<1>4. CASE Screen.reads
  <2> DEFINE n == [query |-> 0, answer |-> NoAnswer, late |-> FALSE, silent |-> FALSE, frees |-> <<"none", Nothing>>]
  <2>1. reads = <<n>> /\ view = NoView
    BY <1>4 DEF PageInit
  <2>2. n \in Read /\ n.query = 0 /\ n.answer = NoAnswer /\ n.frees = <<"none", Nothing>>
    BY NoFlag DEF Read
  <2> HIDE DEF n
  <2>3. reads \in Seq(Read) /\ Len(reads) = 1 /\ reads[1] = n /\ DOMAIN reads = {1} /\ reads # <<>>
    BY <2>1, <2>2
  <2>4. PageShape
    BY <1>2, <1>3, <2>1, <2>3 DEF PageShape
  <2>5. SeenInv
    BY <1>2, <1>3, <2>1, <2>2, <2>3 DEF SeenInv
  <2>6. FreshInv /\ SaidInv
    BY <1>3, <2>2, <2>3 DEF FreshInv, LastReadCurrent, SaidInv
  <2>7. LockInv
    <3>1. reads[1].frees[1] = "none"
      BY <2>2, <2>3, NoFlag
    <3> QED
      BY <1>3, <2>3, <3>1 DEF LockInv, StrictLock, HeldOnce
  <2> QED
    BY <1>3, <2>4, <2>5, <2>6, <2>7 DEF PageInv, IdsInv
<1>5. CASE ~Screen.reads
  <2>1. reads = <<>> /\ view = [query |-> 0, rows |-> srv]
    BY <1>5 DEF PageInit
  <2>2. reads \in Seq(Read) /\ DOMAIN reads = {}
    BY <2>1
  <2>3. view \in [query : Nat, rows : Cards] /\ view.rows = srv /\ view.query = 0
    BY <1>2, <2>1
  <2>4. PageShape
    BY <1>2, <1>3, <2>2, <2>3 DEF PageShape
  <2>5. SeenInv
    BY <1>2, <1>3, <2>2, <2>3 DEF SeenInv, Agrees
  <2>6. FreshInv /\ SaidInv
    BY <1>2, <1>3, <1>5, <2>2, <2>3 DEF FreshInv, NewestEnded, ViewCurrent, SaidInv
  <2> QED
    BY <1>3, <2>2, <2>4, <2>5, <2>6 DEF PageInv, LockInv, HeldOnce, IdsInv
<1> QED
  BY <1>4, <1>5

LEMMA PageSteps == PageInv /\ [PageNext]_allPageVars => PageInv'
<1> SUFFICES ASSUME PageInv, [PageNext]_allPageVars PROVE PageInv'
  OBVIOUS
<1>1. CASE ChangeQuery \/ Retry \/ OrderEvent
  <2>1. query \in Nat /\ query + 1 \in Nat
    BY DEF PageInv, PageShape
  <2> QED
    BY <1>1, <2>1, LoadKeeps DEF ChangeQuery, Retry, OrderEvent, pageVars, worldVars
<1>2. CASE OthersChange
  BY <1>2, OthersChangeKeeps
<1>3. CASE Edit \/ Leave \/ Cancel
  BY <1>3, CancelKeeps
<1>4. CASE Confirm
  BY <1>4, ConfirmKeeps
<1>5. CASE \E name \in DOMAIN Screen.acts, r \in ShownRows : Press(name, r)
  BY <1>5, PressKeeps
<1>6. CASE ~left /\ \E i \in DOMAIN reads : ServeRead(i) \/ Deliver(i) \/ ReadFails(i)
  BY <1>6, ServeReadKeeps, EndReadKeeps
<1>7. CASE \E c \in calls : ServeCall(c) \/ Done(c) \/ Refused(c) \/ DoneInPart(c) \/ AnswerLost(c)
  BY <1>7, ServeCallKeeps, DoneKeeps, FailedKeeps, DoneInPartKeeps DEF Refused, AnswerLost
<1>8. CASE UNCHANGED allPageVars
  <2>1. /\ UNCHANGED <<pageVars, loadVars, held, asked, mine, acted, left>> /\ calls' = calls
        /\ srv' = srv /\ srv' \in Cards
    BY <1>8 DEF allPageVars, callVars, worldVars, PageInv, PageShape
  <2> QED
    BY <2>1, WorldKeeps
<1> QED
  BY <1>1, <1>2, <1>3, <1>4, <1>5, <1>6, <1>7, <1>8 DEF PageNext

-----------------------------------------------------------------------------
(* What follows. *)

LEMMA PageInductive == PageSpec => []PageInv
<1> QED
  BY PageStarts, PageSteps, PTL DEF PageSpec

\* A page at rest, without an error and without an overtaken answer, shows what its filters ask for
\* and every change that its tab was told it made, for any pages, rows, reads and calls.
THEOREM SettledAlwaysCurrent == PageSpec => []SettledViewIsCurrent
<1>1. PageInv => SettledViewIsCurrent
  BY DEF PageInv, FreshInv, LastReadCurrent, NewestEnded, ViewCurrent, SettledViewIsCurrent, Quiet
<1> QED
  BY <1>1, PageInductive, PTL

\* A control that guards itself with a flag of its page or its dialog has one call out at most.
THEOREM GuardedAlwaysSingle == PageSpec => []GuardedActsAreSingle
<1>1. PageInv => GuardedActsAreSingle
  <2> SUFFICES ASSUME PageInv, NEW c \in calls, NEW d \in calls,
                      Act(c.act).lock = Act(d.act).lock,
                      Act(c.act).lock \notin {"none", "row"},
                      ~Act(c.act).unmounts,
                      \A name \in DOMAIN Screen.acts : Act(name).lock = Act(c.act).lock => ~Act(name).loose,
                      Act(c.act).lock \notin Screen.local
               PROVE  c = d
    BY DEF GuardedActsAreSingle
  <2> DEFINE L == Act(c.act).lock
  <2>1. c.act \in DOMAIN Screen.acts /\ page \in DOMAIN Screens
    BY DEF PageInv, PageShape, PageCall
  <2>2. \A name \in DOMAIN Screen.acts : Act(name).lock = L => ~Act(name).unmounts
    BY <2>1, ScreensAssumption DEF Screen, Act
  <2>3. StrictLock(L) /\ L \in FlagNames
    BY <2>1, <2>2 DEF StrictLock, FlagNames
  <2> QED
    BY <2>3 DEF PageInv, LockInv, HeldOnce
<1> QED
  BY <1>1, PageInductive, PTL

\* A page that reads never says "nothing here yet" before it has read anything: at rest it
\* shows an answer or an error.
THEOREM NothingReadAlwaysSaid == PageSpec => []NothingReadIsSaid
<1>1. PageInv => NothingReadIsSaid
  BY DEF PageInv, SaidInv, NothingReadIsSaid, Quiet
<1> QED
  BY <1>1, PageInductive, PTL

\* Who is in the tab's hands after a step: calls that were there, one that was just sent, or the
\* one that was served.
LEMMA SentOrServed ==
  ASSUME PageInv, PageNext
  PROVE  \/ calls' \subseteq calls
         \/ \E d \in calls' : /\ calls' = calls \cup {d} /\ d.at = "out" /\ d.id = acted
                              /\ \/ \E name \in DOMAIN Screen.acts, r \in ShownRows :
                                      Press(name, r) /\ ~Act(name).asks /\ d.act = name /\ d.saw = view.rows[r]
                                 \/ Confirm /\ d.act = asked.act /\ d.saw = asked.saw
         \/ \E c \in calls : ServeCall(c)
<1>1. CASE ChangeQuery \/ Retry \/ OrderEvent \/ OthersChange \/ Edit \/ Leave \/ Cancel
  BY <1>1 DEF ChangeQuery, Retry, OrderEvent, OthersChange, Edit, Leave, Cancel, callVars
<1>2. ASSUME NEW name, NEW r, NEW saw, Send(name, r, saw)
      PROVE  \E d \in calls' : /\ calls' = calls \cup {d} /\ d.at = "out" /\ d.id = acted
                               /\ d.act = name /\ d.saw = saw
  <2> DEFINE d == [act |-> name, row |-> r, saw |-> saw, at |-> "out", card |-> NoCard, id |-> acted]
  <2>1. calls' = calls \cup {d}
    BY <1>2 DEF Send
  <2>2. d.at = "out" /\ d.id = acted /\ d.act = name /\ d.saw = saw
    OBVIOUS
  <2> HIDE DEF d
  <2> QED
    BY <2>1, <2>2
<1>3. CASE Confirm
  BY <1>2, <1>3 DEF Confirm
<1>4. ASSUME NEW name \in DOMAIN Screen.acts, NEW r \in ShownRows, Press(name, r)
      PROVE  calls' \subseteq calls \/
             \E d \in calls' : /\ calls' = calls \cup {d} /\ d.at = "out" /\ d.id = acted
                               /\ ~Act(name).asks /\ d.act = name /\ d.saw = view.rows[r]
  BY <1>2, <1>4 DEF Press
<1>5. CASE \E i \in DOMAIN reads : ServeRead(i) \/ Deliver(i) \/ ReadFails(i)
  BY <1>5 DEF ServeRead, Deliver, ReadFails, EndLoad, callVars
<1>6. CASE \E c \in calls : Done(c) \/ Refused(c) \/ DoneInPart(c) \/ AnswerLost(c)
  BY <1>6 DEF Done, Refused, DoneInPart, AnswerLost, Failed
<1> QED
  BY <1>1, <1>3, <1>4, <1>5, <1>6 DEF PageNext

\* A tab stays on its page.
LEMMA PageStays == [PageNext]_allPageVars => page' = page
BY DEF PageNext, allPageVars, pageVars, ChangeQuery, Retry, OrderEvent, OthersChange, Edit, Leave, Confirm,
       Cancel, Press, ServeRead, Deliver, ReadFails, EndLoad, ServeCall, Done, Refused, DoneInPart, AnswerLost,
       Failed

LEMMA TakenSteps ==
  ASSUME OffersAreTaken, PageInv, TakenInv, [PageNext]_allPageVars
  PROVE  TakenInv'
<1>1. page' = page
  BY PageStays
<1>2. ASSUME NEW name \in DOMAIN Screen.acts, NEW r \in ShownRows, Press(name, r)
      PROVE  Taken(name, view.rows[r]) /\ (Act(name).fresh => Taken(name, srv[r]))
  <2>1. name \in Screen.offers[view.rows[r].st] /\ view.rows[r].st \in DOMAIN Screen.offers
    BY <1>2 DEF Press, Offered, Rendered, PageInv, PageShape, Cards, Card
  <2>2. page \in DOMAIN Screens
    BY DEF PageInv, PageShape
  <2> QED
    BY <2>1, <2>2 DEF OffersAreTaken, Taken, Act, Screen
<1>3. \A c \in calls' : Taken(c.act, c.saw)
  <2>1. CASE PageNext
    <3>1. CASE calls' \subseteq calls
      BY <3>1 DEF TakenInv
    <3>2. ASSUME NEW d \in calls', calls' = calls \cup {d},
                 \/ \E name \in DOMAIN Screen.acts, r \in ShownRows :
                      Press(name, r) /\ d.act = name /\ d.saw = view.rows[r]
                 \/ Confirm /\ d.act = asked.act /\ d.saw = asked.saw
          PROVE  \A c \in calls' : Taken(c.act, c.saw)
      <4>1. Taken(d.act, d.saw)
        BY <1>2, <3>2 DEF TakenInv, Confirm, DialogShown
      <4> QED
        BY <3>2, <4>1 DEF TakenInv
    <3>3. ASSUME NEW c \in calls, ServeCall(c) PROVE \A d \in calls' : Taken(d.act, d.saw)
      <4>1. PICK at \in {"ok", "refused", "partly"}, card \in Card : Serving(c, at, card)
        BY <3>3, ServeCallServes
      <4>2. PICK d \in PageCall : calls' = (calls \ {c}) \cup {d} /\ d.act = c.act /\ d.saw = c.saw
        BY <4>1, ServedCall
      <4> QED
        BY <4>2 DEF TakenInv
    <3> QED
      BY <2>1, <3>1, <3>2, <3>3, SentOrServed
  <2>2. CASE UNCHANGED allPageVars
    BY <2>2 DEF allPageVars, callVars, TakenInv
  <2> QED
    BY <2>1, <2>2
<1>4. asked' # Nothing => Taken(asked'.act, asked'.saw)
  <2>1. CASE asked' = asked \/ asked' = Nothing
    BY <2>1 DEF TakenInv
  <2>2. ASSUME NEW name \in DOMAIN Screen.acts, NEW r \in ShownRows, Press(name, r), Act(name).asks
        PROVE  Taken(asked'.act, asked'.saw)
    BY <1>2, <2>2 DEF Press
  <2>3. asked' = asked \/ asked' = Nothing \/
        \E name \in DOMAIN Screen.acts, r \in ShownRows : Press(name, r) /\ Act(name).asks
    <3>1. CASE ChangeQuery \/ Retry \/ OrderEvent \/ OthersChange \/ Edit \/ Leave \/ Confirm \/ Cancel
      BY <3>1, KeepDialogKeeps DEF ChangeQuery, Retry, OrderEvent, OthersChange, Edit, Leave, Confirm, Cancel, callVars
    <3>2. CASE \E name \in DOMAIN Screen.acts, r \in ShownRows : Press(name, r)
      BY <3>2 DEF Press
    <3>3. CASE \E i \in DOMAIN reads : ServeRead(i) \/ Deliver(i) \/ ReadFails(i)
      BY <3>3, KeepDialogKeeps DEF ServeRead, Deliver, ReadFails, EndLoad, callVars
    <3>4. ASSUME NEW c \in calls, ServeCall(c) \/ Done(c) \/ Refused(c) \/ DoneInPart(c) \/ AnswerLost(c)
          PROVE  asked' = asked \/ asked' = Nothing
      <4>1. \/ asked' = asked \/ asked' = Closed(c)
            \/ asked' = KeepDialog(asked) \/ asked' = KeepDialog(Closed(c))
        BY <3>4 DEF ServeCall, Done, Refused, DoneInPart, AnswerLost, Failed
      <4> QED
        BY <4>1, ClosedCloses, KeepDialogKeeps
    <3>5. CASE UNCHANGED allPageVars
      BY <3>5 DEF allPageVars, callVars
    <3> QED
      BY <3>1, <3>2, <3>3, <3>4, <3>5 DEF PageNext
  <2> QED
    BY <2>1, <2>2, <2>3
<1> QED
  BY <1>1, <1>3, <1>4, SamePage DEF TakenInv

\* Where the panel offers nothing that the server would not take, except in the states named for it,
\* a control is refused only because the row has changed since the page read it, for something the
\* page does not show, or in one of those states.
THEOREM RefusedAlwaysStale == OffersAreTaken => (PageSpec => RefusedOnlyWhenStale)
<1> SUFFICES ASSUME OffersAreTaken PROVE PageSpec => RefusedOnlyWhenStale
  OBVIOUS
<1>1. PageInit => TakenInv
  BY DEF PageInit, TakenInv
<1>2. PageInv /\ TakenInv /\ [PageNext]_allPageVars => TakenInv'
  BY TakenSteps
<1>3. PageInv /\ TakenInv /\ [PageNext]_allPageVars =>
        [\A c \in calls : c.at = "out" =>
           \A d \in calls' : (d.at = "refused" /\ d.id = c.id) =>
             srv[c.row].rev # c.saw.rev \/ Act(c.act).unseen \/ c.saw.st \in Act(c.act).vain]_allPageVars
  <2> SUFFICES ASSUME PageInv, TakenInv, PageNext,
                      NEW c \in calls, c.at = "out", NEW d \in calls', d.at = "refused", d.id = c.id
               PROVE  srv[c.row].rev # c.saw.rev \/ Act(c.act).unseen \/ c.saw.st \in Act(c.act).vain
    OBVIOUS
  <2>1. d \notin calls
    BY DEF PageInv, IdsInv
  <2>2. c.id # acted
    BY DEF PageInv, PageShape, PageCall, IdsInv
  <2>3. PICK e \in calls : ServeCall(e)
    BY <2>1, <2>2, SentOrServed
  <2>4. PICK at \in {"ok", "refused", "partly"}, card \in Card :
          /\ Serving(e, at, card)
          /\ at = "refused" => srv[e.row].st \notin DOMAIN Act(e.act).makes \/ Act(e.act).unseen
    BY <2>3, ServeCallServes
  <2>5. PICK f \in PageCall : calls' = (calls \ {e}) \cup {f} /\ f.id = e.id /\ f.at = at
    BY <2>4, ServedCall
  <2>6. e = c /\ at = "refused"
    BY <2>1, <2>5 DEF PageInv, IdsInv
  <2>7. Taken(c.act, c.saw) /\ Agrees(c.saw, c.row)
    BY DEF PageInv, SeenInv, TakenInv
  <2> QED
    BY <2>4, <2>6, <2>7 DEF Taken, Agrees
<1> QED
  BY <1>1, <1>2, <1>3, PageInductive, PTL DEF PageSpec, RefusedOnlyWhenStale

\* No answer of a call edits a form.
LEMMA CallsKeepEdits ==
  ASSUME PageInv, NEW c \in calls,
         ServeCall(c) \/ Done(c) \/ Refused(c) \/ DoneInPart(c) \/ AnswerLost(c)
  PROVE  dirty' => dirty
<1>1. AndReload(c) => dirty' = dirty
  BY DEF AndReload, StartLoad
<1>2. ASSUME NEW refused, Failed(c, refused) PROVE dirty' = dirty
  BY <1>1, <1>2 DEF Failed
<1>3. CASE Done(c)
  <2>1. Act(c.act).after \in {"reload", "patch", "leave", "stay"}
    BY ScreensAssumption DEF PageInv, PageShape, PageCall, Screen, Act
  <2>2. Patch(c) => (dirty' => dirty)
    BY DEF Patch
  <2> QED
    BY <1>1, <1>3, <2>1, <2>2 DEF Done, loadVars
<1>4. CASE DoneInPart(c)
  BY <1>1, <1>2, <1>4 DEF DoneInPart
<1>5. CASE ServeCall(c)
  BY <1>5 DEF ServeCall, loadVars
<1> QED
  BY <1>2, <1>3, <1>4, <1>5 DEF Refused, AnswerLost

\* While nothing was pressed since the form was edited at rest, there is nothing out that could fill
\* it anew, and no error with a retry.
RestInv ==
  /\ dirty => Screen.form
  /\ typed \in Int /\ -1 <= typed /\ typed <= acted
  /\ dirty /\ typed = acted =>
       reads = <<>> /\ calls = {} /\ view # NoView /\ ~(error /\ Screen.hides)

LEMMA RestSteps ==
  ASSUME PageInv, RestInv, [PageNext]_allPageVars
  PROVE  RestInv'
<1>1. page' = page /\ Screen' = Screen
  BY PageStays, SamePage
<1>2. acted \in Nat /\ page \in DOMAIN Screens
  BY DEF PageInv, PageShape
<1>3. Screen.form => ~Screen.filters /\ ~Screen.live
  BY <1>2, ScreensAssumption DEF Screen
<1>4. \A name, r, shown : Send(name, r, shown) => acted' = acted + 1
  BY DEF Send
<1> SUFFICES ASSUME PageNext PROVE RestInv'
  BY <1>1 DEF allPageVars, pageVars, loadVars, callVars, RestInv
<1>5. CASE Edit
  BY <1>1, <1>2, <1>5 DEF Edit, Quiet, Rendered, callVars, RestInv
<1>6. CASE Confirm \/ \E name \in DOMAIN Screen.acts, r \in ShownRows : Press(name, r)
  <2>1. typed' = typed /\ dirty' = dirty /\ UNCHANGED <<reads, view, error>>
    BY <1>6 DEF Confirm, Press, pageVars, loadVars
  <2>2. acted' = acted + 1 \/ UNCHANGED <<acted, calls>>
    BY <1>4, <1>6 DEF Confirm, Press
  <2> QED
    BY <1>1, <1>2, <2>1, <2>2 DEF RestInv
<1>7. CASE ChangeQuery \/ Retry \/ OrderEvent
  <2>1. ~(dirty /\ typed = acted)
    BY <1>3, <1>7 DEF ChangeQuery, Retry, OrderEvent, RestInv
  <2>2. typed' = typed /\ acted' = acted
    BY <1>7 DEF ChangeQuery, Retry, OrderEvent, pageVars, callVars
  <2>3. dirty' = dirty
    BY <1>7 DEF ChangeQuery, Retry, OrderEvent, StartLoad
  <2> QED
    BY <1>1, <2>1, <2>2, <2>3 DEF RestInv
<1>8. CASE OthersChange \/ Leave \/ Cancel
  BY <1>1, <1>8 DEF OthersChange, Leave, Cancel, pageVars, loadVars, callVars, RestInv
<1>9. ASSUME typed' = typed, acted' = acted, dirty' => dirty, reads # <<>> \/ calls # {}
      PROVE  RestInv'
  BY <1>1, <1>9 DEF RestInv
<1>10. ASSUME NEW i \in DOMAIN reads, ServeRead(i) \/ Deliver(i) \/ ReadFails(i)
       PROVE  RestInv'
  <2>1. reads # <<>>
    BY <1>10
  <2> QED
    BY <1>9, <1>10, <2>1 DEF ServeRead, Deliver, ReadFails, EndLoad, pageVars, callVars
<1>11. ASSUME NEW c \in calls, ServeCall(c) \/ Done(c) \/ Refused(c) \/ DoneInPart(c) \/ AnswerLost(c)
       PROVE  RestInv'
  <2>1. typed' = typed /\ acted' = acted
    BY <1>11 DEF ServeCall, Done, Refused, DoneInPart, AnswerLost, Failed, pageVars
  <2>2. dirty' => dirty
    BY <1>11, CallsKeepEdits
  <2> QED
    BY <1>9, <1>11, <2>1, <2>2
<1> QED
  BY <1>5, <1>6, <1>7, <1>8, <1>10, <1>11 DEF PageNext

\* What was typed while nothing was out is taken from the form only after another control was pressed.
THEOREM RestingEditsAlwaysStay == PageSpec => RestingEditsStay
<1>1. PageInit => RestInv
  BY DEF PageInit, RestInv
<1>2. PageInv /\ RestInv /\ [PageNext]_allPageVars => RestInv'
  BY RestSteps
<1>3. PageInv /\ RestInv /\ [PageNext]_allPageVars => [dirty /\ ~dirty' => acted > typed]_allPageVars
  <2> SUFFICES ASSUME PageInv, RestInv, PageNext, dirty, ~dirty' PROVE acted > typed
    OBVIOUS
  <2>1. reads # <<>> \/ calls # {}
    <3>1. CASE \E i \in DOMAIN reads : ServeRead(i) \/ Deliver(i) \/ ReadFails(i)
      BY <3>1
    <3>2. CASE \E c \in calls : ServeCall(c) \/ Done(c) \/ Refused(c) \/ DoneInPart(c) \/ AnswerLost(c)
      BY <3>2
    <3>3. CASE ChangeQuery \/ Retry \/ OrderEvent \/ OthersChange \/ Edit \/ Leave \/ Confirm \/ Cancel
      BY <3>3 DEF ChangeQuery, Retry, OrderEvent, OthersChange, Edit, Leave, Confirm, Cancel, StartLoad, loadVars
    <3>4. CASE \E name \in DOMAIN Screen.acts, r \in ShownRows : Press(name, r)
      BY <3>4 DEF Press, loadVars
    <3> QED
      BY <3>1, <3>2, <3>3, <3>4 DEF PageNext
  <2>2. acted \in Nat
    BY DEF PageInv, PageShape
  <2> QED
    BY <2>1, <2>2 DEF RestInv
<1> QED
  BY <1>1, <1>2, <1>3, PageInductive, PTL DEF PageSpec, RestingEditsStay

-----------------------------------------------------------------------------
(* A form that creates. *)

\* What was created is the form's last: no other attempt is on its way, and the form has been
\* left, is about to learn of it, or shows what it became.
NothingMore ==
  /\ \A c \in calls : c.at = "out" => ~Act(c.act).creates
  /\ \/ left
     \/ \E c \in calls : c.at = "ok"
     \/ ~Creates(Screen, view.rows[FirstRow].st)

\* Each attempt that created was lost, but for the last.
OnceInv ==
  /\ reads = <<>> /\ asked = Nothing /\ made \in Nat /\ lost \in Nat
  /\ \A c \in calls : c.at # "partly" /\ (c.at = "ok" => ~Creates(Screen, c.card.st))
  /\ made <= lost \/ (made = lost + 1 /\ NothingMore)

\* The form's record, in the words of the page.
LEMMA FormControls ==
  ASSUME page \in DOMAIN Screens, ~Screen.reads
  PROVE  /\ ShownRows = {FirstRow} /\ ~Screen.filters /\ ~Screen.live
         /\ \A name \in DOMAIN Screen.acts :
              /\ Act(name).lock \notin {"none", "row"} \cup Screen.local
              /\ ~Act(name).loose /\ ~Act(name).unmounts /\ ~Act(name).asks /\ ~Act(name).asRead
              /\ \A other \in DOMAIN Screen.acts : Act(other).lock = Act(name).lock
              /\ Act(name).parts = "none" /\ Act(name).onFail = "stay" /\ Act(name).after \in {"leave", "patch"}
              /\ \A st \in DOMAIN Act(name).makes : ~Creates(Screen, Act(name).makes[st])
BY FormsAssumption DEF Screen, ShownRows, Act

\* One call is out at most, and none while the flag is free.
LEMMA FormIsSingle ==
  ASSUME PageInv, ~Screen.reads
  PROVE  /\ \A c, d \in calls : c = d
         /\ \A name \in DOMAIN Screen.acts, r \in ShownRows : Flag(name, r) \notin held => calls = {}
<1>1. page \in DOMAIN Screens /\ \A c \in calls : c.act \in DOMAIN Screen.acts
  BY DEF PageInv, PageShape, PageCall
<1>2. ASSUME NEW name \in DOMAIN Screen.acts
      PROVE  HeldOnce(Act(name).lock) /\ \A other \in DOMAIN Screen.acts : Act(other).lock = Act(name).lock
  <2>1. StrictLock(Act(name).lock) /\ Act(name).lock \in FlagNames
    BY <1>1, FormControls DEF StrictLock, FlagNames
  <2> QED
    BY <1>1, <2>1, FormControls DEF PageInv, LockInv
<1>3. \A c, d \in calls : c = d
  BY <1>1, <1>2 DEF HeldOnce
<1>4. ASSUME NEW name \in DOMAIN Screen.acts, NEW r \in ShownRows, Flag(name, r) \notin held
      PROVE  calls = {}
  <2>1. Flag(name, r) = <<Act(name).lock, Nothing>>
    BY <1>1, FormControls, ControlFlag
  <2> QED
    BY <1>1, <1>2, <1>4, <2>1 DEF HeldOnce
<1> QED
  BY <1>3, <1>4

\* A press sends the form's only call; after the last creation none that creates is offered.
LEMMA PressOnce ==
  ASSUME PageInv, ~Screen.reads, OnceInv, NEW name \in DOMAIN Screen.acts, NEW r \in ShownRows, Press(name, r)
  PROVE  OnceInv'
<1> DEFINE d == [act |-> name, row |-> r, saw |-> view.rows[r], at |-> "out", card |-> NoCard, id |-> acted]
<1>1. /\ page \in DOMAIN Screens /\ ~Act(name).asks /\ ~Act(name).loose /\ r = FirstRow
      /\ Flag(name, r) \notin held
  BY FormControls DEF PageInv, PageShape, Press, Offered, Free
<1>2. /\ UNCHANGED <<page, reads, view, asked, made, lost, left>> /\ calls' = calls \cup {d} /\ calls = {}
      /\ ~left /\ name \in Screen.offers[view.rows[r].st]
  BY <1>1, FormIsSingle DEF Press, Send, Offered, Rendered, pageVars, loadVars, worldVars
<1>3. d.at = "out" /\ d.act = name
  OBVIOUS
<1> HIDE DEF d
<1>4. calls' = {d} /\ Screen' = Screen /\ \A n : Act(n)' = Act(n)
  BY <1>2, <1>3, SamePage
<1>5. NothingMore => NothingMore'
  <2>1. ASSUME NothingMore PROVE ~Creates(Screen, view.rows[FirstRow].st) /\ ~Act(name).creates
    BY <1>1, <1>2, <2>1 DEF NothingMore, Creates, Act
  <2> QED
    BY <1>2, <1>3, <1>4, <2>1 DEF NothingMore
<1> QED
  BY <1>2, <1>3, <1>4, <1>5 DEF OnceInv

\* The server creates for the one call that is out, which is answered from then on.
LEMMA ServeOnce ==
  ASSUME PageInv, ~Screen.reads, OnceInv, NEW c \in calls, ServeCall(c)
  PROVE  OnceInv'
<1>1. /\ page \in DOMAIN Screens /\ c \in PageCall /\ c.act \in DOMAIN Screen.acts
  BY DEF PageInv, PageShape, PageCall
<1>2. /\ UNCHANGED <<page, reads, view, asked, left, lost>> /\ c.at = "out" /\ calls = {c}
      /\ Act(c.act).parts = "none" /\ ~Act(c.act).asRead
      /\ \A st \in DOMAIN Act(c.act).makes : ~Creates(Screen, Act(c.act).makes[st])
  BY <1>1, FormIsSingle, FormControls DEF ServeCall, pageVars, loadVars
<1>3. Screen' = Screen /\ \A name : Act(name)' = Act(name)
  BY <1>2, SamePage
<1>4. ASSUME NEW card, ~Creates(Screen, card.st),
             calls' = (calls \ {c}) \cup {[c EXCEPT !.at = "ok", !.card = card]},
             made' = IF Act(c.act).creates THEN made + 1 ELSE made
      PROVE  OnceInv'
  <2> DEFINE d == [c EXCEPT !.at = "ok", !.card = card]
  <2>1. calls' = {d} /\ d.at = "ok" /\ d.card = card
    BY <1>1, <1>2, <1>4 DEF PageCall
  <2> HIDE DEF d
  <2>2. NothingMore'
    BY <2>1 DEF NothingMore
  <2>3. Act(c.act).creates => made <= lost
    BY <1>2 DEF OnceInv, NothingMore
  <2>4. made' \in Nat /\ (made' <= lost \/ made' = lost + 1)
    BY <1>4, <2>3 DEF OnceInv
  <2> QED
    BY <1>2, <1>3, <1>4, <2>1, <2>2, <2>4 DEF OnceInv
<1>5. ASSUME NEW card, calls' = (calls \ {c}) \cup {[c EXCEPT !.at = "refused", !.card = card]}, made' = made
      PROVE  OnceInv'
  <2> DEFINE d == [c EXCEPT !.at = "refused", !.card = card]
  <2>1. calls' = {d} /\ d.at = "refused"
    BY <1>1, <1>2, <1>5 DEF PageCall
  <2> HIDE DEF d
  <2>2. NothingMore => NothingMore'
    BY <1>2, <1>3, <2>1 DEF NothingMore
  <2> QED
    BY <1>2, <1>3, <1>5, <2>1, <2>2 DEF OnceInv
<1>6. srv[c.row].st \in DOMAIN Act(c.act).makes => ~Creates(Screen, Result(c))
  BY <1>2 DEF Result
<1>7. \/ \E card : /\ srv[c.row].st \in DOMAIN Act(c.act).makes /\ card.st = Result(c)
                   /\ calls' = (calls \ {c}) \cup {[c EXCEPT !.at = "ok", !.card = card]}
                   /\ made' = IF Act(c.act).creates THEN made + 1 ELSE made
      \/ /\ calls' = (calls \ {c}) \cup {[c EXCEPT !.at = "refused", !.card = srv[c.row]]}
         /\ made' = made
  <2> DEFINE card == [st |-> Result(c), rev |-> srv[c.row].rev + (IF Act(c.act).unshown THEN 0 ELSE 1)]
  <2>1. card.st = Result(c)
    OBVIOUS
  <2>2. \/ /\ srv[c.row].st \in DOMAIN Act(c.act).makes
           /\ calls' = (calls \ {c}) \cup {[c EXCEPT !.at = "ok", !.card = card]}
           /\ made' = IF Act(c.act).creates THEN made + 1 ELSE made
        \/ /\ calls' = (calls \ {c}) \cup {[c EXCEPT !.at = "refused", !.card = srv[c.row]]}
           /\ made' = made
    BY <1>2 DEF ServeCall
  <2> QED
    BY <2>1, <2>2
<1> QED
  BY <1>4, <1>5, <1>6, <1>7

\* The answer takes the form away, or shows what it became.
LEMMA DoneOnce ==
  ASSUME PageInv, ~Screen.reads, OnceInv, NEW c \in calls, Done(c)
  PROVE  OnceInv'
<1>1. /\ page \in DOMAIN Screens /\ c.act \in DOMAIN Screen.acts /\ c.row = FirstRow /\ c.at = "ok"
      /\ Act(c.act).after \in {"leave", "patch"}
  BY FormControls DEF PageInv, PageShape, PageCall, Done
<1>2. /\ UNCHANGED <<page, made, lost>> /\ calls' = {} /\ asked = Nothing /\ asked' = Nothing
      /\ ~Creates(Screen, c.card.st)
  BY <1>1, FormIsSingle, ClosedCloses, KeepDialogKeeps DEF Done, pageVars, worldVars, OnceInv
<1>3. Screen' = Screen
  BY <1>2, SamePage
<1>4. reads' = <<>> /\ (left' = TRUE \/ ~Creates(Screen, view'.rows[FirstRow].st))
  <2>1. CASE Act(c.act).after = "leave"
    BY <2>1 DEF Done, loadVars, OnceInv
  <2>2. CASE Act(c.act).after = "patch"
    <3>1. Patch(c)
      BY <2>2 DEF Done
    <3>2. reads' = <<>>
      BY <3>1 DEF Patch, OnceInv
    <3>3. view' = [view EXCEPT !.rows[FirstRow] = c.card] /\ view \in [query : Nat, rows : Cards]
      BY <1>1, <3>1 DEF Patch, PageInv, PageShape
    <3>4. view'.rows[FirstRow] = c.card
      BY <3>3, CardsAreAnswers DEF Cards
    <3> QED
      BY <1>2, <3>2, <3>4
  <2> QED
    BY <1>1, <2>1, <2>2
<1>5. NothingMore'
  BY <1>2, <1>3, <1>4 DEF NothingMore
<1> QED
  BY <1>2, <1>4, <1>5 DEF OnceInv

\* After a failure the form is as it was; of a lost answer the next attempt may be the second.
LEMMA FailedOnce ==
  ASSUME PageInv, ~Screen.reads, OnceInv, NEW c \in calls, Refused(c) \/ AnswerLost(c)
  PROVE  OnceInv'
<1>1. /\ page \in DOMAIN Screens /\ c.act \in DOMAIN Screen.acts /\ Act(c.act).onFail = "stay"
  BY FormControls DEF PageInv, PageShape, PageCall
<1>2. PICK refused : Failed(c, refused)
  BY DEF Refused, AnswerLost
<1>3. /\ UNCHANGED <<page, made, left, reads, view>> /\ calls' = {} /\ asked' = Nothing
  <2>1. ~LoadsAgain(c, refused) /\ calls' = calls \ {c}
    BY <1>1, <1>2 DEF LoadsAgain, Failed
  <2>2. asked' = Nothing
    BY <1>2, ClosedCloses, KeepDialogKeeps DEF Failed, OnceInv
  <2> QED
    BY <1>2, <2>1, <2>2, FormIsSingle DEF Failed, pageVars
<1>4. Screen' = Screen
  BY <1>3, SamePage
<1>5. CASE Refused(c)
  <2>1. lost' = lost /\ \A d \in calls : d.at # "ok"
    BY <1>5, FormIsSingle DEF Refused
  <2>2. NothingMore => NothingMore'
    BY <1>3, <1>4, <2>1 DEF NothingMore
  <2> QED
    BY <1>3, <2>1, <2>2 DEF OnceInv
<1>6. CASE AnswerLost(c)
  BY <1>3, <1>6 DEF AnswerLost, OnceInv
<1> QED
  BY <1>5, <1>6

\* What is left to do on a form touches neither its calls nor what it shows.
LEMMA OnceSteps ==
  ASSUME PageInv, ~Screen.reads, OnceInv, [PageNext]_allPageVars
  PROVE  OnceInv'
<1>1. ASSUME UNCHANGED <<page, reads, view, asked, calls, made, lost>>, left => left' PROVE OnceInv'
  <2>1. Screen' = Screen /\ \A name : Act(name)' = Act(name)
    BY <1>1, SamePage
  <2> QED
    BY <1>1, <2>1 DEF OnceInv, NothingMore
<1>2. ~Screen.filters /\ ~Screen.live
  BY FormControls DEF PageInv, PageShape
<1>3. CASE ChangeQuery \/ Retry \/ OrderEvent \/ Confirm \/ Cancel
  BY <1>2, <1>3 DEF ChangeQuery, Retry, OrderEvent, Confirm, Cancel, DialogShown, OnceInv
<1>4. CASE OthersChange \/ Edit \/ Leave
  BY <1>1, <1>4 DEF OthersChange, Edit, Leave, pageVars, loadVars, callVars, worldVars
<1>5. CASE UNCHANGED allPageVars
  BY <1>1, <1>5 DEF allPageVars, pageVars, loadVars, callVars, worldVars
<1>6. CASE \E i \in DOMAIN reads : ServeRead(i) \/ Deliver(i) \/ ReadFails(i)
  BY <1>6 DEF OnceInv
<1>7. CASE \E c \in calls : DoneInPart(c)
  BY <1>7 DEF DoneInPart, OnceInv
<1> QED
  BY <1>3, <1>4, <1>5, <1>6, <1>7, PressOnce, ServeOnce, DoneOnce, FailedOnce DEF PageNext

\* A form creates one thing, and one more for each answer that was lost after its thing was made, for
\* any number of attempts: with its first success it closes or shows what offers no more to create.
THEOREM FormsCreateOnce == PageSpec => []CreatedOnce
<1> DEFINE I == Screen.reads \/ OnceInv
<1>1. PageInit => I
  <2> SUFFICES ASSUME PageInit, ~Screen.reads PROVE OnceInv
    OBVIOUS
  <2> QED
    BY DEF PageInit, OnceInv
<1>2. PageInv /\ I /\ [PageNext]_allPageVars => I'
  <2> SUFFICES ASSUME PageInv, I, [PageNext]_allPageVars, ~Screen'.reads PROVE OnceInv'
    OBVIOUS
  <2>1. page' = page
    BY PageStays
  <2> QED
    BY <2>1, SamePage, OnceSteps
<1>3. I => CreatedOnce
  BY DEF OnceInv, CreatedOnce
<1> QED
  BY <1>1, <1>2, <1>3, PageInductive, PTL DEF PageSpec

-----------------------------------------------------------------------------
(* The shape of a page, its bounds included. *)

ReadsWithin == Len(reads) <= MaxReads /\ \A i \in DOMAIN reads : reads[i].query <= query
EventsWithin == others \in Nat /\ acted + query + others <= MaxEvents
WithinBounds == ReadsWithin /\ EventsWithin

\* How the reads that are out move: none is new but one that is started under the bound.
ReadsMove ==
  \/ reads' = reads
  \/ Len(reads) < MaxReads /\ \E frees : Started(query', frees)
  \/ \E i \in DOMAIN reads : \/ reads' = Without(OthersLate(i), i)
                             \/ reads' = [reads EXCEPT ![i].answer = srv]
  \/ reads' = [j \in DOMAIN reads |-> [reads[j] EXCEPT !.late = TRUE]]

LEMMA ReadsStayWithin ==
  ASSUME PageInv, ReadsWithin, ReadsMove, query' \in Nat, query' >= query
  PROVE  ReadsWithin'
<1>1. /\ reads \in Seq(Read) /\ srv \in Cards /\ query \in Nat /\ MaxReads \in Nat
      /\ Len(reads) \in Nat /\ DOMAIN reads = 1..Len(reads) /\ \A i \in DOMAIN reads : reads[i].query \in Nat
  <2>1. /\ reads \in Seq(Read) /\ srv \in Cards /\ query \in Nat /\ MaxReads \in Nat
        /\ Len(reads) \in Nat /\ DOMAIN reads = 1..Len(reads)
    BY BoundsAssumption, LenProperties DEF PageInv, PageShape
  <2>2. \A i \in DOMAIN reads : reads[i] \in Read
    BY <2>1
  <2> QED
    BY <2>1, <2>2 DEF Read
<1>2. CASE reads' = reads
  BY <1>1, <1>2 DEF ReadsWithin
<1>3. CASE Len(reads) < MaxReads /\ \E frees : Started(query', frees)
  <2>1. PICK frees : Started(query', frees)
    BY <1>3
  <2>2. /\ Len(reads') = Len(reads) + 1 /\ DOMAIN reads' = 1..(Len(reads) + 1)
        /\ \A j \in DOMAIN reads : reads'[j] = reads[j]
        /\ reads'[Len(reads')].query = query'
    BY <1>1, <2>1, StartedReads
  <2>3. \A j \in DOMAIN reads' : reads'[j].query <= query'
    BY <1>1, <2>2 DEF ReadsWithin
  <2> QED
    BY <1>1, <1>3, <2>2, <2>3 DEF ReadsWithin
<1>4. ASSUME NEW i \in DOMAIN reads, reads' = Without(OthersLate(i), i)
      PROVE  ReadsWithin'
  <2>1. /\ Len(reads') = Len(reads) - 1 /\ DOMAIN reads' = 1..(Len(reads) - 1)
        /\ \A j \in DOMAIN reads' : /\ j < i => reads'[j].query = reads[j].query
                                    /\ j >= i => reads'[j] = reads[j + 1]
    BY <1>1, <1>4, EndedReads
  <2>2. ASSUME NEW j \in DOMAIN reads' PROVE reads'[j].query <= query'
    <3>1. j \in DOMAIN reads /\ j + 1 \in DOMAIN reads /\ j \in Nat /\ i \in Nat
      BY <1>1, <2>1
    <3>2. reads[j].query <= query /\ reads[j + 1].query <= query
      BY <3>1 DEF ReadsWithin
    <3>3. reads'[j].query = reads[j].query \/ reads'[j].query = reads[j + 1].query
      BY <2>1, <3>1
    <3> QED
      BY <1>1, <3>1, <3>2, <3>3
  <2> QED
    BY <1>1, <2>1, <2>2 DEF ReadsWithin
<1>5. ASSUME NEW i \in DOMAIN reads, reads' = [reads EXCEPT ![i].answer = srv]
      PROVE  ReadsWithin'
  <2>1. DOMAIN reads' = DOMAIN reads /\ Len(reads') = Len(reads)
        /\ \A j \in DOMAIN reads : reads'[j].query = reads[j].query
    BY <1>1, <1>5, ServedReads
  <2> QED
    BY <1>1, <2>1 DEF ReadsWithin
<1>6. CASE reads' = [j \in DOMAIN reads |-> [reads[j] EXCEPT !.late = TRUE]]
  <2>1. DOMAIN reads' = DOMAIN reads /\ Len(reads') = Len(reads)
        /\ \A j \in DOMAIN reads : reads'[j].query = reads[j].query
    BY <1>1, <1>6, PatchedReads
  <2> QED
    BY <1>1, <2>1 DEF ReadsWithin
<1> QED
  BY <1>2, <1>3, <1>4, <1>5, <1>6 DEF ReadsMove

LEMMA LoadMovesReads ==
  ASSUME PageInv, NEW q \in Nat, query' = q, NEW silent \in BOOLEAN, NEW frees \in Flags,
         StartLoad(q, silent, frees)
  PROVE  ReadsMove
<1>1. Started(q, frees)
  BY StartLoadStarts DEF PageInv, PageShape
<1> QED
  BY <1>1 DEF StartLoad, ReadsMove

LEMMA ReloadMovesReads ==
  ASSUME PageInv, NEW c \in calls, AndReload(c), query' = query
  PROVE  ReadsMove
<1>1. page \in DOMAIN Screens /\ c.act \in DOMAIN Screen.acts /\ c.row \in ShownRows /\ query' \in Nat
  BY DEF PageInv, PageShape, PageCall
<1>2. Act(c.act).silent \in BOOLEAN /\ Flag(c.act, c.row) \in Flags
  BY <1>1, ScreensAssumption, ControlFlag DEF Act, Screen
<1>3. PICK frees \in Flags : StartLoad(query, Act(c.act).silent, frees)
  BY <1>2, NoFlag DEF AndReload
<1> QED
  BY <1>1, <1>2, <1>3, LoadMovesReads

LEMMA FailureMovesReads ==
  ASSUME PageInv, NEW c \in calls, NEW refused, Failed(c, refused)
  PROVE  ReadsMove
<1>1. CASE LoadsAgain(c, refused)
  <2>1. AndReload(c) /\ UNCHANGED pageVars
    BY <1>1 DEF Failed
  <2>2. query' = query
    BY <2>1 DEF pageVars
  <2> QED
    BY <2>1, <2>2, ReloadMovesReads
<1>2. CASE ~LoadsAgain(c, refused)
  BY <1>2 DEF Failed, ReadsMove
<1> QED
  BY <1>1, <1>2

LEMMA CallsMoveReads ==
  ASSUME PageInv, NEW c \in calls,
         ServeCall(c) \/ Done(c) \/ Refused(c) \/ DoneInPart(c) \/ AnswerLost(c)
  PROVE  ReadsMove /\ UNCHANGED <<query, acted, others>>
<1>1. UNCHANGED <<query, acted, others>>
  BY DEF ServeCall, Done, Refused, DoneInPart, AnswerLost, Failed, pageVars, worldVars
<1>2. CASE ServeCall(c)
  <2>1. reads' = reads
    BY <1>2 DEF ServeCall, loadVars
  <2> QED
    BY <1>1, <2>1 DEF ReadsMove
<1>3. CASE Done(c)
  <2>1. Act(c.act).after \in {"reload", "patch", "leave", "stay"}
    BY ScreensAssumption DEF PageInv, PageShape, PageCall, Act, Screen
  <2>2. CASE Act(c.act).after = "reload"
    <3>1. AndReload(c)
      BY <1>3, <2>2 DEF Done
    <3> QED
      BY <1>1, <3>1, ReloadMovesReads
  <2>3. CASE Act(c.act).after = "patch"
    <3>1. Patch(c)
      BY <1>3, <2>3 DEF Done
    <3> QED
      BY <1>1, <3>1 DEF Patch, ReadsMove
  <2>4. CASE Act(c.act).after \in {"leave", "stay"}
    <3>1. reads' = reads
      BY <1>3, <2>4 DEF Done, loadVars
    <3> QED
      BY <1>1, <3>1 DEF ReadsMove
  <2> QED
    BY <2>1, <2>2, <2>3, <2>4
<1>4. CASE Refused(c)
  <2>1. Failed(c, TRUE)
    BY <1>4 DEF Refused
  <2> QED
    BY <1>1, <2>1, FailureMovesReads
<1>5. CASE AnswerLost(c)
  BY <1>1, <1>5, FailureMovesReads DEF AnswerLost
<1>6. CASE DoneInPart(c)
  <2>1. CASE AndReload(c)
    BY <1>1, <2>1, ReloadMovesReads
  <2>2. CASE Failed(c, TRUE)
    BY <1>1, <2>2, FailureMovesReads
  <2> QED
    BY <1>6, <2>1, <2>2 DEF DoneInPart
<1> QED
  BY <1>1, <1>2, <1>3, <1>4, <1>5, <1>6

LEMMA BoundsStep ==
  ASSUME PageInv, WithinBounds, [PageNext]_allPageVars
  PROVE  WithinBounds'
<1>1. query \in Nat /\ acted \in Nat /\ others \in Nat /\ MaxEvents \in Nat /\ MaxReads \in Nat
  BY BoundsAssumption DEF PageInv, PageShape, WithinBounds, EventsWithin
<1>2. ASSUME ReadsMove, UNCHANGED <<query, acted, others>>
      PROVE  WithinBounds'
  BY <1>1, <1>2, ReadsStayWithin DEF WithinBounds, EventsWithin
<1>3. CASE ChangeQuery
  <2>1. query' = query + 1 /\ UNCHANGED <<acted, others>> /\ acted + query + others < MaxEvents
    BY <1>3 DEF ChangeQuery, callVars, worldVars, EventsLeft
  <2>2. StartLoad(query + 1, FALSE, <<"none", Nothing>>)
    BY <1>3, Zenon DEF ChangeQuery
  <2>3. ReadsMove
    <3>1. PICK q \in Nat : q = query + 1
      BY <1>1
    <3>2. StartLoad(q, FALSE, <<"none", Nothing>>) /\ query' = q
      BY <2>1, <2>2, <3>1
    <3> QED
      BY <3>2, NoFlag, LoadMovesReads
  <2> QED
    BY <1>1, <2>1, <2>3, ReadsStayWithin DEF WithinBounds, EventsWithin
<1>4. CASE Retry \/ OrderEvent
  <2>1. UNCHANGED <<query, acted, others>>
    BY <1>4 DEF Retry, OrderEvent, pageVars, callVars, worldVars
  <2>2. ReadsMove
    BY <1>1, <1>4, <2>1, NoFlag, LoadMovesReads DEF Retry, OrderEvent
  <2> QED
    BY <1>2, <2>1, <2>2
<1>5. CASE OthersChange
  <2>1. /\ others' = others + 1 /\ UNCHANGED <<acted, query, reads>> /\ acted + query + others < MaxEvents
    BY <1>5 DEF OthersChange, pageVars, loadVars, callVars, EventsLeft
  <2> QED
    BY <1>1, <2>1, ReadsStayWithin DEF WithinBounds, EventsWithin, ReadsMove
<1>6. CASE Edit \/ Leave \/ Cancel
  BY <1>2, <1>6 DEF Edit, Leave, Cancel, pageVars, loadVars, callVars, worldVars, ReadsMove
<1>7. CASE Confirm \/ \E name \in DOMAIN Screen.acts, r \in ShownRows : Press(name, r)
  <2>1. /\ acted' \in {acted, acted + 1} /\ UNCHANGED <<query, others, reads>>
        /\ acted + query + others < MaxEvents
    BY <1>7 DEF Confirm, Press, Send, pageVars, loadVars, worldVars, EventsLeft
  <2> QED
    BY <1>1, <2>1, ReadsStayWithin DEF WithinBounds, EventsWithin, ReadsMove
<1>8. CASE \E i \in DOMAIN reads : ServeRead(i) \/ Deliver(i) \/ ReadFails(i)
  <2>1. ReadsMove
    BY <1>8 DEF ServeRead, Deliver, ReadFails, ReadsMove
  <2>2. UNCHANGED <<query, acted, others>>
    BY <1>8 DEF ServeRead, Deliver, ReadFails, EndLoad, pageVars, callVars, worldVars
  <2> QED
    BY <1>2, <2>1, <2>2
<1>9. CASE UNCHANGED allPageVars
  BY <1>2, <1>9 DEF allPageVars, pageVars, loadVars, callVars, worldVars, ReadsMove
<1> QED
  BY <1>2, <1>3, <1>4, <1>5, <1>6, <1>7, <1>8, <1>9, CallsMoveReads DEF PageNext

\* Every page keeps its shape: the cards are of the rows it shows, the flags and the calls of controls
\* it has, and the reads and events stay within their bounds.
THEOREM PageTypeCorrect == PageSpec => []PageTypeOK
<1>1. PageInit => WithinBounds
  <2> SUFFICES ASSUME PageInit PROVE WithinBounds
    OBVIOUS
  <2>1. query = 0 /\ acted = 0 /\ others = 0 /\ MaxEvents \in Nat /\ MaxReads \in Nat \ {0}
    BY BoundsAssumption DEF PageInit
  <2>2. CASE Screen.reads
    <3>1. reads = <<[query |-> 0, answer |-> NoAnswer, late |-> FALSE, silent |-> FALSE, frees |-> <<"none", Nothing>>]>>
      BY <2>2 DEF PageInit
    <3>2. Len(reads) = 1 /\ DOMAIN reads = 1..1 /\ reads[1].query = 0
      BY <3>1
    <3> QED
      BY <2>1, <3>2 DEF WithinBounds, ReadsWithin, EventsWithin
  <2>3. CASE ~Screen.reads
    <3>1. reads = <<>>
      BY <2>3 DEF PageInit
    <3>2. Len(reads) = 0 /\ DOMAIN reads = {}
      BY <3>1
    <3> QED
      BY <2>1, <3>2 DEF WithinBounds, ReadsWithin, EventsWithin
  <2> QED
    BY <2>2, <2>3
<1>2. PageInv /\ WithinBounds /\ RestInv => PageTypeOK
  <2> SUFFICES ASSUME PageInv, WithinBounds, RestInv PROVE PageTypeOK
    OBVIOUS
  <2>1. /\ query \in Nat /\ acted \in Nat /\ others \in Nat /\ MaxEvents \in Nat
        /\ acted <= MaxEvents /\ query <= MaxEvents
    BY BoundsAssumption DEF PageInv, PageShape, WithinBounds, EventsWithin
  <2>2. \A i \in DOMAIN reads : reads[i].query \in 0..MaxEvents /\ reads[i].late \in BOOLEAN
    <3>1. \A i \in DOMAIN reads : reads[i] \in Read
      BY LenProperties DEF PageInv, PageShape
    <3> QED
      BY <2>1, <3>1 DEF WithinBounds, ReadsWithin, Read
  <2>3. view = NoView \/ DOMAIN view.rows = ShownRows
    BY DEF PageInv, PageShape, Cards
  <2>4. \A f \in held : f[2] \in ShownRows \cup {Nothing}
    BY DEF PageInv, PageShape, Flags
  <2>5. \A c \in calls : c.act \in DOMAIN Screen.acts /\ c.at \in {"out", "ok", "partly", "refused"}
    BY DEF PageInv, PageShape, PageCall
  <2>6. typed \in -1..MaxEvents
    BY <2>1 DEF RestInv
  <2> QED
    BY <2>1, <2>2, <2>3, <2>4, <2>5, <2>6 DEF PageTypeOK, PageInv, PageShape, Cards, WithinBounds, ReadsWithin
<1>3. PageInit => RestInv
  BY DEF PageInit, RestInv
<1> QED
  BY <1>1, <1>2, <1>3, BoundsStep, RestSteps, PageInductive, PTL DEF PageSpec
=============================================================================
