------------------------- MODULE MobileSession_proofs -------------------------
(***************************************************************************)
(* Proofs about the mobile app's session, for any accounts and bounds: the *)
(* variables keep their types, the profile kept for the next launch        *)
(* belongs to the account it is kept for, the data shown is that of the    *)
(* account that is signed in, and the profile shown is another's only if   *)
(* an answer of an earlier session was taken.  All need to know that at    *)
(* most one account is involved at a time: sign-in is not offered while a  *)
(* sync is out or the listener has something to hear, so the account of    *)
(* the sync, of Firebase and of all waiting calls is the same.             *)
(***************************************************************************)
EXTENDS MobileSession, TLAPS

(* The listener, the reads of the cached profile, the sync and Firebase    *)
(* have to do with one account p, and with nobody.                         *)
OneParty(p) ==
  /\ fb \in {p, NoOne}
  /\ \A i \in DOMAIN calls : calls[i] \in {p, NoOne}
  /\ \A i \in DOMAIN reading : reading[i].who = p
  /\ sync.at # "none" => sync.who = p

(* A sync sends the token of its own account, or none.                     *)
TokenIsTheirs == sync.at = "out" => sync.token.as \in {sync.who, NoOne}

SessionInv ==
  /\ CacheIsTheirs
  /\ TokenIsTheirs
  /\ \E p \in Somebody : OneParty(p)
-----------------------------------------------------------------------------
(* Type correctness. *)

SyncType == [at : {"none", "out", "wait", "leaving"}, who : Somebody, tries : 0..MaxTries, token : Token]
AskType == [at : {"none", "reload", "me", "link"}, token : Token]
AddrType == [at : {"none", "data", "failed"}, as : Somebody, any : BOOLEAN]

LEMMA SyncWaits ==
  ASSUME NEW s \in SyncType, s.tries < MaxTries
  PROVE  [s EXCEPT !.at = "wait", !.tries = @ + 1] \in SyncType
<1>1. s.tries \in 0..MaxTries /\ s.tries + 1 \in 0..MaxTries
  BY SessionAssumption DEF SyncType
<1>2. [s EXCEPT !.at = "wait"] \in SyncType
  BY DEF SyncType
<1>3. \A r \in SyncType, n \in 0..MaxTries : [r EXCEPT !.tries = n] \in SyncType
  BY DEF SyncType
<1> QED
  BY <1>1, <1>2, <1>3

LEMMA SyncStarts ==
  ASSUME NEW s \in SyncType, NEW t \in Token
  PROVE  [s EXCEPT !.at = "out", !.token = t] \in SyncType
BY DEF SyncType

LEMMA SyncIsNew ==
  ASSUME NEW u \in Somebody, NEW t \in Token
  PROVE  [at |-> "out", who |-> u, tries |-> 0, token |-> t] \in SyncType
BY SessionAssumption DEF SyncType

LEMMA NoSyncTyped == NoSync \in SyncType
BY SessionAssumption DEF NoSync, SyncType, NoToken, Token, Somebody

LEMMA TokenTyped == ASSUME TypeOK PROVE TokenNow \in Token
BY DEF TypeOK, TokenNow, Token

LEMMA TailTyped ==
  ASSUME NEW S, NEW s \in Seq(S), s # <<>>
  PROVE  Head(s) \in S /\ Tail(s) \in Seq(S)
OBVIOUS

LEMMA AppendTyped ==
  ASSUME NEW S, NEW s \in Seq(S), NEW x \in S
  PROVE  Append(s, x) \in Seq(S)
OBVIOUS

LEMMA InitTyped == Init => TypeOK
<1> SUFFICES ASSUME Init PROVE TypeOK
  OBVIOUS
<1>1. cache \in [uid : Somebody, user : Profile]
  <2>1. [who |-> fb, verified |-> fb \in proven] \in Profile /\ NoProfile \in Profile
    BY DEF Init, Somebody, Profile, NoProfile
  <2> QED
    BY <2>1 DEF Init, NoCache, Somebody
<1>2. /\ fb \in Somebody /\ calls \in Seq(Somebody)
      /\ reading \in Seq([who : Accounts, cached : Profile])
  BY DEF Init, Somebody
<1>3. /\ proven \subseteq Accounts /\ claims \subseteq proven
      /\ banned \subseteq Accounts /\ homes \subseteq Accounts
  BY SessionAssumption DEF Init
<1>4. sync \in SyncType /\ ask \in AskType /\ user \in Profile
  BY SessionAssumption DEF Init, Somebody, SyncType, NoSync, AskType, NoAsk, Token, NoToken, Profile, NoProfile
<1>5. addr \in AddrType /\ read \in [out : BOOLEAN, as : Somebody]
  BY DEF Init, Somebody, AddrType, NoAddresses, NoRead
<1>6. /\ status = "restoring" /\ who \in Somebody /\ synced \in Somebody
      /\ leaving \in Nat /\ pending = NoOne /\ screen = "tabs" /\ strayed = FALSE /\ events \in 0..MaxEvents
  BY SessionAssumption DEF Init, Somebody
<1> QED
  BY <1>1, <1>2, <1>3, <1>4, <1>5, <1>6 DEF TypeOK, SyncType, AskType, AddrType

LEMMA BeginTyped ==
  ASSUME TypeOK, NEW u \in Somebody, BeginSync(u)
  PROVE  sync' \in SyncType
<1>1. sync \in SyncType
  BY DEF TypeOK, SyncType
<1> QED
  BY <1>1, TokenTyped, SyncIsNew DEF BeginSync

LEMMA SomebodyTyped == TypeOK /\ SomebodySignedIn => TypeOK'
<1> SUFFICES ASSUME TypeOK, SomebodySignedIn PROVE TypeOK'
  OBVIOUS
<1>1. calls' \in Seq(Somebody) /\ who' \in Accounts
  BY DEF TypeOK, SomebodySignedIn, Somebody
<1>2. reading' \in Seq([who : Accounts, cached : Profile])
  <2> DEFINE p == IF cache.uid = who' THEN cache.user ELSE NoProfile
  <2>1. p \in Profile
    BY DEF TypeOK, Profile, NoProfile, Somebody
  <2>2. [who |-> who', cached |-> p] \in [who : Accounts, cached : Profile]
    BY <1>1, <2>1
  <2>3. reading \in Seq([who : Accounts, cached : Profile])
    BY DEF TypeOK
  <2>4. \/ reading' = reading
        \/ reading' = Append(reading, [who |-> who', cached |-> p])
    BY DEF SomebodySignedIn
  <2>5. Append(reading, [who |-> who', cached |-> p]) \in Seq([who : Accounts, cached : Profile])
    BY <2>2, <2>3, AppendTyped
  <2> HIDE DEF p
  <2> QED
    BY <2>3, <2>4, <2>5
<1>3. sync' \in SyncType
  <2>1. sync \in SyncType
    BY DEF TypeOK, SyncType
  <2>2. sync' = sync \/ BeginSync(who')
    BY DEF SomebodySignedIn
  <2> QED
    BY <1>1, <2>1, <2>2, TokenTyped, SyncIsNew DEF BeginSync, Somebody
<1> QED
  BY <1>1, <1>2, <1>3 DEF TypeOK, SyncType, SomebodySignedIn, Somebody, server, query

LEMMA CacheReadTyped == TypeOK /\ CacheRead => TypeOK'
<1> SUFFICES ASSUME TypeOK, CacheRead PROVE TypeOK'
  OBVIOUS
<1> DEFINE r == Head(reading)
<1>1. r \in [who : Accounts, cached : Profile] /\ reading' \in Seq([who : Accounts, cached : Profile])
  BY TailTyped DEF TypeOK, CacheRead
<1>2. r.who \in Somebody /\ r.cached \in Profile
  BY <1>1 DEF Somebody
<1>3. /\ user' \in Profile /\ strayed' \in BOOLEAN
      /\ status' \in {"restoring", "unauthenticated", "verifyingEmail", "authenticated"}
  BY <1>2 DEF TypeOK, CacheRead
<1>4. sync' \in SyncType
  BY <1>2, BeginTyped DEF CacheRead
<1> QED
  BY <1>1, <1>3, <1>4 DEF TypeOK, SyncType, CacheRead, server, query

LEMMA SyncFailsTyped == TypeOK /\ SyncFails => TypeOK'
<1> SUFFICES ASSUME TypeOK, SyncFails PROVE TypeOK'
  OBVIOUS
<1>1. sync \in SyncType /\ MaxTries \in Nat
  BY SessionAssumption DEF TypeOK, SyncType
<1>2. sync' \in SyncType
  BY <1>1, SyncWaits, NoSyncTyped DEF SyncFails
<1>3. \/ UNCHANGED <<status, user, synced>>
      \/ synced' = NoOne /\ UNCHANGED <<status, user>>
      \/ synced' = NoOne /\ status' = "unauthenticated" /\ user' = NoProfile
  BY DEF SyncFails
<1>4. NoOne \in Somebody /\ NoProfile \in Profile
  BY DEF Profile, NoProfile, Somebody
<1> QED
  BY <1>2, <1>3, <1>4 DEF TypeOK, SyncType, SyncFails, server, query

LEMMA SyncAgainTyped == TypeOK /\ SyncAgain => TypeOK'
<1> SUFFICES ASSUME TypeOK, SyncAgain PROVE TypeOK'
  OBVIOUS
<1>1. sync' \in SyncType
  <2>1. sync \in SyncType
    BY DEF TypeOK, SyncType
  <2> QED
    BY <2>1, TokenTyped, SyncStarts DEF SyncAgain
<1> QED
  BY <1>1 DEF TypeOK, SyncType, SyncAgain, server, query

LEMMA ReloadedTyped == TypeOK /\ Reloaded => TypeOK'
<1> SUFFICES ASSUME TypeOK, Reloaded PROVE TypeOK'
  OBVIOUS
<1>1. claims' \subseteq proven
  BY DEF TypeOK, Reloaded
<1>2. calls' \in Seq(Somebody)
  <2>1. calls \in Seq(Somebody) /\ fb \in Somebody
    BY DEF TypeOK
  <2>2. calls' = calls \/ calls' = Append(calls, fb)
    BY DEF Reloaded
  <2> QED
    BY <2>1, <2>2
<1>3. ask' \in AskType
  <2>1. [as |-> fb, verified |-> fb \in proven] \in Token
    BY DEF TypeOK, Token
  <2>2. NoAsk \in AskType
    BY DEF NoAsk, AskType, NoToken, Token, Somebody
  <2> QED
    BY <2>1, <2>2 DEF Reloaded, AskType
<1> QED
  BY <1>1, <1>2, <1>3 DEF TypeOK, AskType, Reloaded, server, query

LEMMA RelaunchTyped == TypeOK /\ Relaunch => TypeOK'
<1> SUFFICES ASSUME TypeOK, Relaunch PROVE TypeOK'
  OBVIOUS
<1>1. calls' \in Seq(Somebody) /\ reading' \in Seq([who : Accounts, cached : Profile])
  BY DEF TypeOK, Relaunch
<1>2. sync' \in SyncType /\ ask' \in AskType /\ user' \in Profile
  BY NoSyncTyped DEF Relaunch, AskType, NoAsk, Token, NoToken, Profile, NoProfile, Somebody
<1>3. addr' \in AddrType /\ read' \in [out : BOOLEAN, as : Somebody]
  BY DEF Relaunch, AddrType, NoAddresses, NoRead, Somebody
<1>4. who' \in Somebody /\ synced' \in Somebody /\ events' \in 0..MaxEvents
  BY SessionAssumption DEF TypeOK, Relaunch, Event, Somebody
<1> QED
  BY <1>1, <1>2, <1>3, <1>4 DEF TypeOK, SyncType, AskType, AddrType, Relaunch, server

LEMMA NextTyped == TypeOK /\ [Next]_vars => TypeOK'
<1> SUFFICES ASSUME TypeOK, [Next]_vars PROVE TypeOK'
  OBVIOUS
<1> USE SessionAssumption DEF TypeOK, Somebody, Profile, NoProfile, Token, NoToken, NoSync, NoAsk, NoRead,
        NoAddresses, NoCache, server, store, query
<1>1. CASE NobodySignedIn
  BY <1>1 DEF NobodySignedIn
<1>2. CASE SomebodySignedIn
  BY <1>2, SomebodyTyped
<1>3. CASE CacheRead
  BY <1>3, CacheReadTyped
<1>4. CASE SyncServed
  BY <1>4 DEF SyncServed, Answer, Settled, Refused
<1>5. CASE GiveUpQuietly
  BY <1>5 DEF GiveUpQuietly
<1>6. CASE SyncRefused
  <2>1. sync' \in SyncType
    BY <1>6 DEF SyncRefused, SyncType
  <2> QED
    BY <1>6, <2>1 DEF SyncRefused, SyncType
<1>7. CASE SyncFails
  BY <1>7, SyncFailsTyped
<1>8. CASE SyncAgain
  BY <1>8, SyncAgainTyped
<1>9. CASE RefusedIsOut
  BY <1>9 DEF RefusedIsOut, SignOutOfFirebase
<1>10. CASE Reloaded
  BY <1>10, ReloadedTyped
<1>11. CASE AskAnswered
  BY <1>11 DEF AskAnswered, Answer, Settled, Refused
<1>12. CASE AskFails
  BY <1>12 DEF AskFails
<1>13. CASE ReadServed
  BY <1>13 DEF ReadServed
<1>14. CASE ReadFails
  <2>1. addr' \in AddrType
    BY <1>14 DEF ReadFails, NotRead, AddrType
  <2> QED
    BY <1>14, <2>1 DEF ReadFails, AddrType
<1>15. CASE ReadRejected
  BY <1>15 DEF ReadRejected, NotRead
<1>16. CASE LogoutDone
  BY <1>16 DEF LogoutDone, SignOutOfFirebase
<1>17. CASE Gate
  BY <1>17 DEF Gate
<1>18. CASE ReadAddresses
  BY <1>18 DEF ReadAddresses, Event
<1>19. ASSUME NEW u \in Password, LoginScreen(u) PROVE TypeOK'
  BY <1>19 DEF LoginScreen, Login, MaySignIn, SignedInAs, Event
<1>20. ASSUME NEW u \in Password, GoogleExists(u) PROVE TypeOK'
  BY <1>20 DEF GoogleExists, Event
<1>21. ASSUME NEW u \in Accounts \ Password, LoginWithPhone(u) PROVE TypeOK'
  BY <1>21 DEF LoginWithPhone, MaySignIn, SignedInAs, Event
<1>22. ASSUME NEW u \in Accounts, VerifyEmail(u) PROVE TypeOK'
  BY <1>22 DEF VerifyEmail
<1>23. ASSUME NEW u \in Accounts, Ban(u) PROVE TypeOK'
  BY <1>23 DEF Ban, Event
<1>24. CASE LinkAccountScreen
  BY <1>24 DEF LinkAccountScreen, Login, MaySignIn, SignedInAs, Event
<1>25. CASE BackToSignIn
  BY <1>25 DEF BackToSignIn
<1>26. CASE Logout
  BY <1>26 DEF Logout, Event
<1>27. CASE Check
  <2>1. ask' \in AskType
    BY <1>27 DEF Check, AskType
  <2> QED
    BY <1>27, <2>1 DEF Check, Event, AskType
<1>28. CASE AddPhone
  BY <1>28 DEF AddPhone, Event, TokenNow
<1>29. CASE CreateAddress
  BY <1>29 DEF CreateAddress, ChangedTo, Event
<1>30. CASE DeleteAddress
  BY <1>30 DEF DeleteAddress, ChangedTo, Event
<1>31. CASE OpenLink
  BY <1>31 DEF OpenLink, Event
<1>32. CASE LeaveLink
  BY <1>32 DEF LeaveLink
<1>33. CASE Renew
  BY <1>33 DEF Renew, SignedInAs, Event
<1>34. CASE Relaunch
  BY <1>34, RelaunchTyped
<1>35. CASE UNCHANGED vars
  BY <1>35 DEF vars
<1> QED
  BY <1>1, <1>2, <1>3, <1>4, <1>5, <1>6, <1>7, <1>8, <1>9, <1>10, <1>11, <1>12, <1>13, <1>14, <1>15,
     <1>16, <1>17, <1>18, <1>19, <1>20, <1>21, <1>22, <1>23, <1>24, <1>25, <1>26, <1>27, <1>28,
     <1>29, <1>30, <1>31, <1>32, <1>33, <1>34, <1>35 DEF Next, Listener, SyncStep, AskStep, ReadStep

(* Every variable of the app's session keeps its shape: sync, cached       *)
(* profile, listener calls and requests are always ones the code can have. *)
THEOREM SessionTypeCorrect == Spec => []TypeOK
<1>1. Init => TypeOK
  BY InitTyped
<1>2. TypeOK /\ [Next]_vars => TypeOK'
  BY NextTyped
<1> QED
  BY <1>1, <1>2, PTL DEF Spec

-----------------------------------------------------------------------------
(* One account at a time. *)

\* A sync is begun for the account that is involved already.
LEMMA BeginKeepsParty ==
  ASSUME TokenIsTheirs, NEW p \in Somebody, OneParty(p), BeginSync(p)
  PROVE  TokenIsTheirs' /\ (sync'.at # "none" => sync'.who = p)
BY DEF BeginSync, TokenNow, TokenIsTheirs, OneParty

\* What is heard was waiting.
LEMMA TailOf ==
  ASSUME NEW S, NEW s \in Seq(S), s # <<>>
  PROVE  /\ 1 \in DOMAIN s /\ Head(s) = s[1]
         /\ \A i \in DOMAIN Tail(s) : i + 1 \in DOMAIN s /\ Tail(s)[i] = s[i + 1]
OBVIOUS

LEMMA AppendOf ==
  ASSUME NEW S, NEW s \in Seq(S), NEW x \in S
  PROVE  \A i \in DOMAIN Append(s, x) :
           \/ i \in DOMAIN s /\ Append(s, x)[i] = s[i]
           \/ Append(s, x)[i] = x
OBVIOUS

LEMMA InitSafe == Init => SessionInv
<1> SUFFICES ASSUME Init PROVE SessionInv
  OBVIOUS
<1>1. CacheIsTheirs
  BY DEF Init, CacheIsTheirs, NoCache, NoProfile
<1>2. TokenIsTheirs
  BY DEF Init, TokenIsTheirs, NoSync
<1>3. OneParty(fb) /\ fb \in Somebody
  BY DEF Init, OneParty, NoSync
<1> QED
  BY <1>1, <1>2, <1>3 DEF SessionInv

(* The profile is written by a sync alone; its answer is about the token   *)
(* that was sent, and that is the sync's own account.                      *)
LEMMA CacheStays == TypeOK /\ SessionInv /\ [Next]_vars => CacheIsTheirs'
<1> SUFFICES ASSUME TypeOK, SessionInv, [Next]_vars PROVE CacheIsTheirs'
  OBVIOUS
<1> USE DEF SessionInv, CacheIsTheirs
<1>1. CASE NobodySignedIn
  BY <1>1 DEF NobodySignedIn, NoCache, NoProfile
<1>2. CASE SyncServed
  <2>1. sync.token.as # NoOne
    BY <1>2 DEF SyncServed, Refused
  <2>2. sync.token.as = sync.who
    BY <1>2, <2>1 DEF SyncServed, TokenIsTheirs
  <2>3. cache' = [uid |-> sync.who, user |-> Answer(sync.token)]
    BY <1>2 DEF SyncServed
  <2> QED
    BY <2>2, <2>3 DEF Answer
<1>3. CASE SyncRefused
  BY <1>3 DEF SyncRefused, NoCache, NoProfile
<1>4. CASE UNCHANGED cache
  BY <1>4
<1> QED
  BY <1>1, <1>2, <1>3, <1>4
  DEF Next, vars, Listener, SyncStep, AskStep, ReadStep, SomebodySignedIn, CacheRead, GiveUpQuietly,
      SyncFails, SyncAgain, RefusedIsOut, Reloaded, AskAnswered, AskFails, ReadServed, ReadFails,
      ReadRejected, LogoutDone, Gate, ReadAddresses, LoginScreen, Login, GoogleExists, LoginWithPhone,
      VerifyEmail, Ban, LinkAccountScreen, BackToSignIn, Logout, Check, AddPhone, CreateAddress,
      DeleteAddress, ChangedTo, OpenLink, LeaveLink, Renew, Relaunch

(* Each step leaves the one account that is involved, or begins with a     *)
(* sign-in while no other is.                                              *)
LEMMA PartyStays ==
  TypeOK /\ SessionInv /\ [Next]_vars => TokenIsTheirs' /\ \E p \in Somebody : OneParty(p)'
<1> SUFFICES ASSUME TypeOK, SessionInv, [Next]_vars
             PROVE  TokenIsTheirs' /\ \E p \in Somebody : OneParty(p)'
  OBVIOUS
<1> PICK p \in Somebody : OneParty(p)
  BY DEF SessionInv
<1>0. TokenIsTheirs
  BY DEF SessionInv
<1> DEFINE Kept == TokenIsTheirs' /\ OneParty(p)'
<1>1. CASE NobodySignedIn
  <2>1. \A i \in DOMAIN calls' : calls'[i] \in {p, NoOne}
    BY <1>1, TailOf DEF NobodySignedIn, TypeOK, OneParty
  <2> QED
    BY <1>0, <1>1, <2>1 DEF NobodySignedIn, TokenIsTheirs, OneParty
<1>2. CASE SomebodySignedIn
  <2>1. /\ \A i \in DOMAIN calls' : calls'[i] \in {p, NoOne}
        /\ who' = p
    BY <1>2, TailOf DEF SomebodySignedIn, TypeOK, OneParty
  <2>2. \A i \in DOMAIN reading' : reading'[i].who = p
    <3>1. CASE reading' = reading
      BY <3>1 DEF OneParty
    <3>2. CASE reading' # reading
      <4> DEFINE x == [who |-> who', cached |-> IF cache.uid = who' THEN cache.user ELSE NoProfile]
      <4>1. reading' = Append(reading, x) /\ x.who = p
        BY <1>2, <2>1, <3>2 DEF SomebodySignedIn
      <4>2. reading \in Seq([who : Accounts, cached : Profile]) /\ reading' \in Seq([who : Accounts, cached : Profile])
        BY <1>2, SomebodyTyped DEF TypeOK
      <4> HIDE DEF x
      <4> QED
        BY <4>1, <4>2 DEF OneParty
    <3> QED
      BY <3>1, <3>2
  <2>3. TokenIsTheirs' /\ (sync'.at # "none" => sync'.who = p)
    BY <1>0, <1>2, <2>1, BeginKeepsParty DEF SomebodySignedIn, TokenIsTheirs, OneParty
  <2> QED
    BY <1>2, <2>1, <2>2, <2>3 DEF SomebodySignedIn, OneParty
<1>3. CASE CacheRead
  <2>1. /\ \A i \in DOMAIN reading' : reading'[i].who = p
        /\ Head(reading).who = p
    BY <1>3, TailOf DEF CacheRead, TypeOK, OneParty
  <2>2. TokenIsTheirs' /\ (sync'.at # "none" => sync'.who = p)
    BY <1>0, <1>3, <2>1, BeginKeepsParty DEF CacheRead
  <2> QED
    BY <1>3, <2>1, <2>2 DEF CacheRead, OneParty
<1>4. CASE SyncServed \/ GiveUpQuietly \/ SyncRefused \/ SyncFails
  <2>1. /\ UNCHANGED <<fb, reading, calls>>
        /\ sync'.at # "out"
        /\ sync'.at # "none" => sync.at # "none" /\ sync'.who = sync.who
    <3>1. CASE SyncServed \/ GiveUpQuietly
      BY <3>1 DEF SyncServed, GiveUpQuietly, NoSync
    <3>2. CASE SyncRefused
      BY <3>2 DEF SyncRefused, TypeOK, SyncType
    <3>3. CASE SyncFails
      <4>1. sync.at = "out" /\ UNCHANGED <<fb, reading, calls>>
        BY <3>3 DEF SyncFails
      <4>2. CASE sync' = NoSync
        BY <4>1, <4>2 DEF NoSync
      <4>3. CASE sync' = [sync EXCEPT !.at = "wait", !.tries = @ + 1]
        <5>1. sync \in SyncType
          BY DEF TypeOK, SyncType
        <5>2. sync'.at = "wait" /\ sync'.who = sync.who
          BY <4>3, <5>1 DEF SyncType
        <5> QED
          BY <4>1, <5>2
      <4> QED
        BY <3>3, <4>2, <4>3 DEF SyncFails
    <3> QED
      BY <1>4, <3>1, <3>2, <3>3
  <2> QED
    BY <1>0, <2>1 DEF TokenIsTheirs, OneParty
<1>5. CASE SyncAgain
  BY <1>5 DEF SyncAgain, TokenNow, TokenIsTheirs, OneParty, TypeOK
<1>6. CASE RefusedIsOut \/ LogoutDone
  <2>1. calls \in Seq(Somebody) /\ NoOne \in Somebody
    BY DEF TypeOK, Somebody
  <2>2. \A i \in DOMAIN calls' : calls'[i] \in {p, NoOne}
    BY <1>6, <2>1, AppendOf DEF RefusedIsOut, LogoutDone, SignOutOfFirebase, OneParty
  <2> QED
    BY <1>0, <1>6, <2>2
    DEF RefusedIsOut, LogoutDone, SignOutOfFirebase, NoSync, store, TokenIsTheirs, OneParty
<1>7. CASE Reloaded
  <2>1. calls \in Seq(Somebody) /\ fb \in Somebody
    BY DEF TypeOK
  <2>2. \A i \in DOMAIN calls' : calls'[i] \in {p, NoOne}
    BY <1>7, <2>1, AppendOf DEF Reloaded, OneParty
  <2> QED
    BY <1>0, <1>7, <2>2 DEF Reloaded, TokenIsTheirs, OneParty
<1>8. ASSUME NEW u \in Accounts, MaySignIn, SignedInAs(u), UNCHANGED store
      PROVE  TokenIsTheirs' /\ OneParty(u)'
  BY <1>8 DEF MaySignIn, SignedInAs, store, NoSync, TokenIsTheirs, OneParty
<1>9. ASSUME NEW u \in Accounts, Login(u) \/ LoginWithPhone(u)
      PROVE  \E q \in Somebody : TokenIsTheirs' /\ OneParty(q)'
  BY <1>8, <1>9 DEF Login, LoginWithPhone, Somebody
<1>10. CASE Renew
  BY <1>0, <1>10 DEF Renew, SignedInAs, store, TokenIsTheirs, OneParty
<1>11. CASE Relaunch
  BY <1>11 DEF Relaunch, NoSync, TokenIsTheirs, OneParty
<1>12. CASE UNCHANGED <<fb, calls, reading, sync>>
  BY <1>0, <1>12 DEF TokenIsTheirs, OneParty
<1>13. \/ UNCHANGED <<fb, calls, reading, sync>>
       \/ NobodySignedIn \/ SomebodySignedIn \/ CacheRead \/ SyncStep \/ LogoutDone \/ Reloaded
       \/ \E u \in Accounts : Login(u) \/ LoginWithPhone(u)
       \/ Renew \/ Relaunch
  <2> USE SessionAssumption
      DEF AskAnswered, AskFails, ReadServed, ReadFails, ReadRejected, Gate, ReadAddresses, LoginScreen,
          GoogleExists, VerifyEmail, Ban, LinkAccountScreen, BackToSignIn, Logout, Check, AddPhone,
          CreateAddress, DeleteAddress, ChangedTo, OpenLink, LeaveLink, store, vars
  <2> QED
    BY DEF Next, Listener, AskStep, ReadStep, TypeOK
<1> QED
  BY <1>1, <1>2, <1>3, <1>4, <1>5, <1>6, <1>7, <1>9, <1>10, <1>11, <1>12, <1>13 DEF SyncStep

(* The profile kept for the next launch belongs to the account it is kept  *)
(* for: though a sync is joined by whoever signs in meanwhile, and sends   *)
(* the token of the moment, nobody else can sign in before it has ended.   *)
THEOREM CacheAlwaysTheirs == Spec => []CacheIsTheirs
<1>1. Init => TypeOK /\ SessionInv
  BY InitTyped, InitSafe
<1>2. (TypeOK /\ SessionInv) /\ [Next]_vars => (TypeOK /\ SessionInv)'
  BY NextTyped, CacheStays, PartyStays DEF SessionInv
<1>3. SessionInv => CacheIsTheirs
  BY DEF SessionInv
<1> QED
  BY <1>1, <1>2, <1>3, PTL DEF Spec

-----------------------------------------------------------------------------
(* What else holds in every state. The parts follow a session from its     *)
(* restoring to its end.                                                   *)

\* Firebase signed somebody out and the listener has not been called yet.
SignOutUnheard == \E i \in DOMAIN calls : calls[i] = NoOne

\* While somebody is signed in the listener hears of nobody else.
NewsOfNow == fb # NoOne => \A i \in DOMAIN calls : calls[i] = fb

\* Who is let in is shown a profile of their own, unless an answer came late.
LetInIsTheirs ==
  status = "authenticated" => strayed \/ user.who = fb \/ (fb = NoOne /\ SignOutUnheard)

LetsIn(p) == p # NoProfile /\ ~NeedsEmail(p)
Unproven(u) == u \in Password \ proven

\* What says that an address is verified belongs to somebody whose token says so as well.
VerifiedIsKnown ==
  /\ cache.user.verified => cache.uid \in claims
  /\ sync.at = "out" /\ sync.token.verified => sync.token.as \in claims
  /\ ask.at = "me" /\ ask.token.verified => ask.token.as \in claims
  /\ \A i \in DOMAIN reading :
       reading[i].cached # NoProfile =>
         /\ reading[i].cached.who = reading[i].who
         /\ reading[i].cached.verified => reading[i].who \in claims

\* Until the splash screen goes there is no profile, no question and no address.
Fresh ==
  status = "restoring" =>
    /\ leaving = 0 /\ ask = NoAsk /\ screen = "tabs" /\ synced = NoOne
    /\ addr = NoAddresses /\ read = NoRead
    /\ calls # <<>> => Tail(calls) = <<>> /\ reading = <<>>

\* Who is synced has a profile.
SyncedHasProfile ==
  /\ synced # NoOne => user # NoProfile
  /\ sync.at = "leaving" => synced = NoOne

\* The cached profile is read for one call at a time.
OneRead == reading # <<>> => Tail(reading) = <<>>

\* If the backend's answer is faster than that read, no sync is out until it ends.
ReadLast ==
  reading # <<>> /\ fb # NoOne /\ status # "restoring" =>
    /\ sync.at = "none"
    /\ \/ status = "unauthenticated" /\ ask = NoAsk /\ calls = <<>> /\ screen # "verify"
       \/ status # "unauthenticated" /\ synced = fb

\* What is asked meanwhile is about the same account, and a profile that lets in agrees with it.
AskIsOwn ==
  \A i \in DOMAIN reading :
    ask.at = "me" =>
      /\ ask.token.as = reading[i].who
      /\ LetsIn(reading[i].cached) => ~NeedsEmail(Answer(ask.token))

\* No sync is out, nor will there be one before somebody signs in again.
Quiet == synced = fb /\ sync.at = "none" /\ reading = <<>>

\* Addresses of somebody are there, or on their way.
Exposed == addr.at = "data" \/ (read.out /\ read.as # NoOne)

\* They belong to the one who is signed in, and while they are there no failing sync
\* can bring back the sign-in screen: only a sign-out does, and that drops them.
ExposedTo ==
  IF fb = NoOne THEN Exposed => SignOutUnheard
  ELSE /\ addr.at = "data" => addr.as = fb
       /\ read.out /\ read.as # NoOne => read.as = fb
       /\ Exposed => status = "authenticated" \/ (status = "verifyingEmail" /\ Quiet)

\* Before the sync has ended nobody who is in is sent back to verify an address.
NoWayBack ==
  fb # NoOne /\ status = "authenticated" /\ ~Quiet =>
    /\ ask.at = "me" => ~NeedsEmail(Answer(ask.token))
    /\ ask.at = "reload" => ~Unproven(fb)
    /\ screen = "verify" => ~Unproven(fb)

\* A question of an earlier session is answered before the next one comes to ask.
LateAskFirst ==
  fb # NoOne /\ ask.at = "me" /\ ask.token.as # fb /\ ~Quiet =>
    status # "verifyingEmail" /\ (Unproven(fb) => screen # "verify")

Told == NewsOfNow /\ LetInIsTheirs /\ VerifiedIsKnown /\ SyncedHasProfile
Restored == Fresh /\ OneRead /\ ReadLast /\ AskIsOwn
Shown == ExposedTo /\ NoWayBack /\ LateAskFirst

IInv == TypeOK /\ SessionInv /\ Told /\ Restored /\ Shown
-----------------------------------------------------------------------------
(* The kinds of steps, by what they do to the state that matters here.     *)

\* Somebody signs in at Firebase.
SignIn(u) ==
  /\ MaySignIn /\ SignedInAs(u) /\ screen \in {"login", "link"}
  /\ UNCHANGED <<server, store, cache, leaving, query, screen, strayed>>

\* Firebase forgets the user.
SignOut ==
  /\ leaving > 0 /\ leaving' = leaving - 1 /\ SignOutOfFirebase
  /\ UNCHANGED <<claims, server, store, cache, query, screen, strayed>>

\* The addresses are asked for.
ReadBegins ==
  /\ status = "authenticated" /\ read' = [out |-> TRUE, as |-> fb]
  /\ UNCHANGED <<fb, calls, claims, proven, store, cache, leaving, addr, screen, strayed>>

\* The answer comes, or none.
ReadEnds ==
  /\ read.out /\ read' = NoRead
  /\ \/ read.as # NoOne /\ addr' = [at |-> "data", as |-> read.as, any |-> read.as \in homes]
     \/ NotRead
  /\ UNCHANGED <<fb, calls, claims, server, store, cache, screen, strayed>>

\* Around the session: an address is verified, an account banned, a button pressed, a screen left.
Around ==
  /\ UNCHANGED <<fb, calls, claims, store, cache, query, strayed>> /\ proven \subseteq proven'
  /\ status = "restoring" => leaving' = leaving /\ (screen' = screen \/ screen # "tabs")
  /\ screen' = "verify" => screen = "verify" \/ status = "verifyingEmail"

LEMMA StepKinds ==
  ASSUME TypeOK, [Next]_vars
  PROVE  \/ NobodySignedIn \/ SomebodySignedIn \/ CacheRead
         \/ SyncServed \/ GiveUpQuietly \/ SyncRefused \/ SyncFails \/ SyncAgain \/ RefusedIsOut
         \/ Reloaded \/ AskAnswered \/ AskFails \/ Check \/ AddPhone
         \/ \E u \in Accounts : SignIn(u)
         \/ SignOut \/ ReadBegins \/ ReadEnds \/ Around \/ Renew \/ Relaunch
<1>1. CASE \/ \E u \in Password : LoginScreen(u)
           \/ \E u \in Accounts \ Password : LoginWithPhone(u)
           \/ LinkAccountScreen
  BY <1>1, SessionAssumption
  DEF LoginScreen, LinkAccountScreen, Login, LoginWithPhone, MaySignIn, SignIn, TypeOK
<1>2. CASE LogoutDone
  BY <1>2 DEF LogoutDone, SignOut
<1>3. CASE ReadAddresses \/ CreateAddress \/ DeleteAddress
  BY <1>3 DEF ReadAddresses, Enabled, CreateAddress, DeleteAddress, ChangedTo, ReadBegins, server, query
<1>4. CASE ReadStep
  BY <1>4 DEF ReadStep, ReadServed, ReadFails, ReadRejected, ReadEnds, query
<1>5. CASE Gate \/ BackToSignIn \/ Logout \/ OpenLink \/ LeaveLink \/ \E u \in Password : GoogleExists(u)
  BY <1>5 DEF Gate, BackToSignIn, Logout, OpenLink, LeaveLink, GoogleExists, Around, server
<1>6. CASE \E u \in Accounts : VerifyEmail(u) \/ Ban(u)
  BY <1>6 DEF VerifyEmail, Ban, Around, server
<1>7. CASE UNCHANGED vars
  BY <1>7 DEF vars, Around, server
<1> QED
  BY <1>1, <1>2, <1>3, <1>4, <1>5, <1>6, <1>7 DEF Next, Listener, SyncStep, AskStep

\* The account that is signed in is the one of the sync and of the reads.
LEMMA PartyIsNow ==
  ASSUME SessionInv, fb # NoOne
  PROVE  /\ sync.at # "none" => sync.who = fb
         /\ \A i \in DOMAIN reading : reading[i].who = fb
BY DEF SessionInv, OneParty

LEMMA FirstOf ==
  ASSUME NEW S, NEW s \in Seq(S), s # <<>>
  PROVE  1 \in DOMAIN s /\ s[1] = Head(s)
OBVIOUS

\* What a sync that is out becomes.
LEMMA FailedSync ==
  ASSUME TypeOK, SyncFails
  PROVE  sync' = NoSync \/ (sync'.at = "wait" /\ sync'.who = sync.who)
<1>1. sync \in SyncType
  BY DEF TypeOK, SyncType
<1>2. CASE sync' = [sync EXCEPT !.at = "wait", !.tries = @ + 1]
  BY <1>1, <1>2 DEF SyncType
<1> QED
  BY <1>2 DEF SyncFails

LEMMA RefusedSync ==
  ASSUME TypeOK, SyncRefused
  PROVE  sync'.at = "leaving" /\ sync'.who = sync.who
<1>1. sync \in SyncType
  BY DEF TypeOK, SyncType
<1> QED
  BY <1>1 DEF SyncRefused, SyncType

LEMMA RepeatedSync ==
  ASSUME TypeOK, SyncAgain
  PROVE  sync'.at = "out" /\ sync'.who = sync.who /\ sync'.token = TokenNow
<1>1. sync \in SyncType
  BY DEF TypeOK, SyncType
<1> QED
  BY <1>1 DEF SyncAgain, SyncType

LEMMA NoSyncAt == NoSync.at = "none"
BY DEF NoSync

\* What waits while the app asks who is signed in.
LEMMA CheckedAsk ==
  /\ Check => ask'.at = "reload"
  /\ NoAsk.at = "none"
BY DEF Check, NoAsk

\* Whatever the step, a sign-out is not forgotten before it is heard of.
LEMMA UnheardStays ==
  ASSUME TypeOK, [Next]_vars, SignOutUnheard, fb = NoOne, fb' = NoOne, ~NobodySignedIn, ~Relaunch
  PROVE  SignOutUnheard'
<1>1. PICK i \in DOMAIN calls : calls[i] = NoOne
  BY DEF SignOutUnheard
<1>2. calls \in Seq(Somebody)
  BY DEF TypeOK
<1>3. CASE calls' = calls
  BY <1>3 DEF SignOutUnheard
<1>4. CASE SomebodySignedIn
  <2>1. calls' = Tail(calls) /\ calls # <<>> /\ Head(calls) # NoOne
    BY <1>4 DEF SomebodySignedIn
  <2>2. i - 1 \in DOMAIN Tail(calls) /\ Tail(calls)[i - 1] = calls[i]
    BY <1>1, <1>2, <2>1
  <2> QED
    BY <1>1, <2>1, <2>2 DEF SignOutUnheard
<1>5. CASE \E u \in Accounts : SignIn(u)
  BY <1>1, <1>5 DEF SignIn, MaySignIn
<1> QED
  BY <1>3, <1>4, <1>5, StepKinds
  DEF CacheRead, SyncServed, GiveUpQuietly, SyncRefused, SyncFails, SyncAgain, RefusedIsOut, SignOut,
      SignOutOfFirebase, Reloaded, AskAnswered, AskFails, Check, AddPhone, ReadBegins, ReadEnds, Around, Renew
-----------------------------------------------------------------------------
(* Each part is kept by every step. *)

LEMMA NewsStays == ASSUME IInv, [Next]_vars PROVE NewsOfNow'
<1> USE DEF NewsOfNow
<1>0. NewsOfNow /\ calls \in Seq(Somebody) /\ fb \in Somebody /\ NoOne \in Somebody
  BY DEF IInv, Told, TypeOK, Somebody
<1>1. CASE calls # <<>> /\ calls' = Tail(calls) /\ fb' = fb
  BY <1>0, <1>1, TailOf
<1>2. CASE calls' = Append(calls, fb) /\ fb' = fb
  BY <1>0, <1>2, AppendOf
<1>3. CASE fb' = NoOne
  BY <1>3
<1>4. CASE \E u \in Accounts : calls' = <<u>> /\ fb' = u
  BY <1>4
<1>5. CASE calls' = <<fb>> /\ fb' = fb
  BY <1>5
<1>6. CASE calls' = calls /\ fb' = fb
  BY <1>0, <1>6
<1> QED
  BY <1>1, <1>2, <1>3, <1>4, <1>5, <1>6, StepKinds
  DEF IInv, NobodySignedIn, SomebodySignedIn, CacheRead, SyncServed, GiveUpQuietly, SyncRefused, SyncFails,
      SyncAgain, RefusedIsOut, Reloaded, AskAnswered, AskFails, Check, AddPhone, SignIn, SignedInAs,
      SignOut, SignOutOfFirebase, ReadBegins, ReadEnds, Around, Renew, Relaunch

LEMMA LetInStays == ASSUME IInv, [Next]_vars PROVE LetInIsTheirs'
<1> USE DEF LetInIsTheirs
<1>0. TypeOK /\ LetInIsTheirs /\ calls \in Seq(Somebody)
  BY DEF IInv, Told, TypeOK
<1>1. CASE CacheRead
  <2>1. 1 \in DOMAIN reading /\ reading[1] = Head(reading)
    BY <1>0, <1>1, FirstOf DEF CacheRead, TypeOK
  <2>2. Head(reading).cached # NoProfile => Head(reading).cached.who = Head(reading).who
    BY <2>1 DEF IInv, Told, VerifiedIsKnown
  <2>3. UNCHANGED <<fb, calls>>
    BY <1>1 DEF CacheRead
  <2> QED
    BY <1>0, <1>1, <2>2, <2>3 DEF CacheRead, SignOutUnheard
<1>2. CASE SyncServed
  BY <1>2 DEF SyncServed, Answer
<1>3. CASE AskAnswered
  BY <1>3 DEF AskAnswered, Answer
<1>4. CASE SignOut \/ RefusedIsOut
  <2>1. CASE fb = NoOne
    BY <1>0, <1>4, <2>1 DEF SignOut, RefusedIsOut, SignOutOfFirebase, SignOutUnheard, store
  <2>2. CASE fb # NoOne
    <3>1. fb' = NoOne /\ calls' = Append(calls, NoOne)
      BY <1>4, <2>2 DEF SignOut, RefusedIsOut, SignOutOfFirebase
    <3>2. Len(calls) + 1 \in DOMAIN Append(calls, NoOne) /\ Append(calls, NoOne)[Len(calls) + 1] = NoOne
      BY <1>0
    <3> QED
      BY <3>1, <3>2 DEF SignOutUnheard
  <2> QED
    BY <2>1, <2>2
<1>5. CASE NobodySignedIn \/ Relaunch \/ \E u \in Accounts : SignIn(u)
  BY <1>5 DEF NobodySignedIn, Relaunch, SignIn, MaySignIn, store
<1>6. CASE SyncFails
  BY <1>0, <1>6 DEF SyncFails, SignOutUnheard
<1>7. CASE UNCHANGED <<fb, status, user, strayed>>
  BY <1>0, <1>5, <1>7, UnheardStays
<1> QED
  BY <1>0, <1>1, <1>2, <1>3, <1>4, <1>5, <1>6, <1>7, StepKinds
  DEF SomebodySignedIn, GiveUpQuietly, SyncRefused, SyncAgain, Reloaded, AskFails, Check, AddPhone,
      ReadBegins, ReadEnds, Around, Renew, SignedInAs, store

LEMMA ClaimsGrow == ASSUME IInv, [Next]_vars PROVE claims \subseteq claims' /\ proven \subseteq proven'
<1>0. TypeOK
  BY DEF IInv
<1> QED
  BY <1>0, StepKinds
  DEF NobodySignedIn, SomebodySignedIn, CacheRead, SyncServed, GiveUpQuietly, SyncRefused, SyncFails,
      SyncAgain, RefusedIsOut, Reloaded, AskAnswered, AskFails, Check, AddPhone, SignIn, SignedInAs,
      SignOut, ReadBegins, ReadEnds, Around, Renew, Relaunch, server

LEMMA VerifiedStays == ASSUME IInv, [Next]_vars PROVE VerifiedIsKnown'
<1>0. TypeOK /\ VerifiedIsKnown /\ CacheIsTheirs /\ claims \subseteq claims'
  BY ClaimsGrow DEF IInv, Told, SessionInv
\* What a sync sends says what the claims say.
<1>1. ASSUME NEW u, BeginSync(u), UNCHANGED <<fb, claims>>
      PROVE  sync'.at = "out" /\ sync'.token.verified => sync'.token.as \in claims'
  BY <1>0, <1>1 DEF BeginSync, TokenNow, VerifiedIsKnown
\* The reads that are left.
<1>2. ASSUME reading # <<>>, reading' = Tail(reading)
      PROVE  \A i \in DOMAIN reading' : reading'[i].cached # NoProfile =>
               /\ reading'[i].cached.who = reading'[i].who
               /\ reading'[i].cached.verified => reading'[i].who \in claims'
  BY <1>0, <1>2, TailOf DEF VerifiedIsKnown, TypeOK
<1>3. CASE NobodySignedIn
  BY <1>0, <1>3 DEF NobodySignedIn, VerifiedIsKnown, NoCache, NoProfile
<1>4. CASE SomebodySignedIn
  <2>1. sync'.at = "out" /\ sync'.token.verified => sync'.token.as \in claims'
    BY <1>0, <1>1, <1>4 DEF SomebodySignedIn, VerifiedIsKnown
  <2>2. \A i \in DOMAIN reading' : reading'[i].cached # NoProfile =>
          /\ reading'[i].cached.who = reading'[i].who
          /\ reading'[i].cached.verified => reading'[i].who \in claims'
    <3>1. CASE reading' = reading
      BY <1>0, <3>1 DEF VerifiedIsKnown
    <3>2. CASE reading' # reading
      <4> DEFINE x == [who |-> who', cached |-> IF cache.uid = who' THEN cache.user ELSE NoProfile]
      <4>1. reading' = Append(reading, x)
        BY <1>4, <3>2 DEF SomebodySignedIn
      <4>2. x.cached # NoProfile => x.cached.who = x.who /\ (x.cached.verified => x.who \in claims')
        BY <1>0 DEF CacheIsTheirs, VerifiedIsKnown
      <4>3. reading \in Seq([who : Accounts, cached : Profile]) /\ reading' \in Seq([who : Accounts, cached : Profile])
        BY <1>0, <1>4, SomebodyTyped DEF TypeOK
      <4> HIDE DEF x
      <4>4. \A i \in DOMAIN reading' : (i \in DOMAIN reading /\ reading'[i] = reading[i]) \/ reading'[i] = x
        BY <4>1, <4>3
      <4> QED
        BY <1>0, <4>2, <4>4 DEF VerifiedIsKnown
    <3> QED
      BY <3>1, <3>2
  <2> QED
    BY <1>0, <1>4, <2>1, <2>2 DEF SomebodySignedIn, VerifiedIsKnown
<1>5. CASE CacheRead
  BY <1>0, <1>1, <1>2, <1>5 DEF CacheRead, VerifiedIsKnown
<1>6. CASE SyncServed
  <2>1. sync.token.as = sync.who
    BY <1>6 DEF SyncServed, Refused, IInv, SessionInv, TokenIsTheirs
  <2> QED
    BY <1>0, <1>6, <2>1 DEF SyncServed, Answer, NoSync, VerifiedIsKnown
<1>7. CASE GiveUpQuietly \/ SyncFails \/ RefusedIsOut
  <2>1. sync'.at # "out" /\ UNCHANGED <<cache, reading, ask>>
    BY <1>0, <1>7, FailedSync, NoSyncAt DEF GiveUpQuietly, SyncFails, RefusedIsOut
  <2> QED
    BY <1>0, <2>1 DEF VerifiedIsKnown
<1>8. CASE SyncRefused
  BY <1>0, <1>8, RefusedSync DEF SyncRefused, VerifiedIsKnown, NoCache, NoProfile
<1>9. CASE SyncAgain
  <2>1. sync'.token.verified => sync'.token.as \in claims
    <3>1. sync'.token = TokenNow
      BY <1>0, <1>9, RepeatedSync
    <3>2. TokenNow.verified => TokenNow.as \in claims
      BY DEF TokenNow
    <3> QED
      BY <3>1, <3>2
  <2> QED
    BY <1>0, <1>9, <2>1 DEF SyncAgain, VerifiedIsKnown
<1>10. CASE Reloaded
  <2>1. CASE fb = NoOne
    BY <1>0, <1>10, <2>1, CheckedAsk DEF Reloaded, VerifiedIsKnown
  <2>2. CASE fb # NoOne
    <3>1. ask'.token = [as |-> fb, verified |-> fb \in proven] /\ (fb \in proven => fb \in claims')
      BY <1>10, <2>2 DEF Reloaded
    <3>2. ask'.token.verified => ask'.token.as \in claims'
      <4>1. ask'.token.verified = (fb \in proven) /\ ask'.token.as = fb
        BY <3>1
      <4> QED
        BY <3>1, <4>1
    <3> QED
      BY <1>0, <1>10, <3>2 DEF Reloaded, VerifiedIsKnown
  <2> QED
    BY <2>1, <2>2
<1>11. CASE Check
  BY <1>0, <1>11, CheckedAsk DEF Check, VerifiedIsKnown
<1>12. CASE AskAnswered \/ AskFails \/ AddPhone
  <2>1. ask'.at # "me"
    BY <1>12 DEF AskAnswered, AskFails, AddPhone, NoAsk
  <2> QED
    BY <1>0, <1>12, <2>1 DEF AskAnswered, AskFails, AddPhone, VerifiedIsKnown
<1>13. CASE Relaunch
  BY <1>0, <1>13 DEF Relaunch, NoSync, NoAsk, VerifiedIsKnown
<1>14. CASE UNCHANGED <<cache, sync, ask, reading>>
  BY <1>0, <1>14 DEF VerifiedIsKnown
<1> QED
  BY <1>0, <1>3, <1>4, <1>5, <1>6, <1>7, <1>8, <1>9, <1>10, <1>11, <1>12, <1>13, <1>14, StepKinds
  DEF SignIn, SignOut, ReadBegins, ReadEnds, Around, Renew, store

LEMMA SyncedStays == ASSUME IInv, [Next]_vars PROVE SyncedHasProfile'
<1> USE DEF SyncedHasProfile
<1>0. TypeOK /\ SyncedHasProfile
  BY DEF IInv, Told
<1>1. CASE SyncServed
  BY <1>0, <1>1 DEF SyncServed, Answer, Refused, NoProfile, NoSync
<1>2. CASE AskAnswered
  BY <1>0, <1>2 DEF AskAnswered, Answer, Refused, NoProfile
<1>3. CASE SomebodySignedIn \/ CacheRead
  BY <1>0, <1>3 DEF SomebodySignedIn, CacheRead, BeginSync
<1>4. CASE SyncRefused
  BY <1>0, <1>4 DEF SyncRefused
<1>5. CASE SyncFails
  BY <1>0, <1>5, FailedSync, NoSyncAt DEF SyncFails
<1>6. CASE SyncAgain
  BY <1>0, <1>6 DEF SyncAgain, TypeOK, SyncType
<1>7. CASE GiveUpQuietly \/ RefusedIsOut \/ NobodySignedIn \/ Relaunch
  BY <1>0, <1>7 DEF GiveUpQuietly, RefusedIsOut, NobodySignedIn, Relaunch, NoSync
<1>8. CASE UNCHANGED <<synced, user, sync>>
  BY <1>0, <1>8
<1> QED
  BY <1>0, <1>1, <1>2, <1>3, <1>4, <1>5, <1>6, <1>7, <1>8, StepKinds
  DEF Reloaded, AskFails, Check, AddPhone, SignIn, SignOut, ReadBegins, ReadEnds, Around, Renew, store

LEMMA FreshStays == ASSUME IInv, [Next]_vars PROVE Fresh'
<1>0. TypeOK /\ Fresh
  BY DEF IInv, Restored
<1>1. SUFFICES ASSUME status' = "restoring" PROVE Fresh'
  BY DEF Fresh
<1>2. CASE Relaunch
  BY <1>2 DEF Relaunch, Fresh
<1>3. CASE status = "restoring"
  <2>0. /\ leaving = 0 /\ ask = NoAsk /\ screen = "tabs" /\ synced = NoOne /\ addr = NoAddresses /\ read = NoRead
        /\ calls # <<>> => Tail(calls) = <<>> /\ reading = <<>>
    BY <1>0, <1>3 DEF Fresh
  <2>1. CASE SomebodySignedIn
    <3>1. calls' = <<>> /\ UNCHANGED <<leaving, ask, screen, synced, addr, read>>
      BY <2>0, <2>1 DEF SomebodySignedIn, query
    <3> QED
      BY <2>0, <3>1 DEF Fresh
  <2>2. CASE CacheRead
    BY <2>0, <2>2 DEF CacheRead, query, Fresh
  <2>3. CASE GiveUpQuietly \/ SyncRefused \/ SyncFails \/ SyncAgain
    BY <2>0, <2>3, <1>1 DEF GiveUpQuietly, SyncRefused, SyncFails, SyncAgain, query, Fresh
  <2>4. CASE Renew
    <3>1. calls' = <<fb>> /\ reading' = <<>> /\ UNCHANGED <<leaving, ask, screen, synced, addr, read>>
      BY <2>4 DEF Renew, SignedInAs, store, query
    <3> QED
      BY <2>0, <3>1 DEF Fresh
  <2>5. CASE Around
    BY <2>0, <1>3, <2>5 DEF Around, store, query, Fresh
  <2>6. ~(SyncServed \/ RefusedIsOut \/ NobodySignedIn)
    BY <1>1 DEF SyncServed, Settled, RefusedIsOut, NobodySignedIn
  <2>7. ~(Reloaded \/ AskAnswered \/ AskFails \/ Check \/ AddPhone)
    BY <1>3, <2>0, CheckedAsk DEF Reloaded, AskAnswered, AskFails, Check, AddPhone
  <2>8. ~(SignOut \/ ReadBegins \/ ReadEnds \/ \E u \in Accounts : SignIn(u))
    BY <2>0, <1>3 DEF SignOut, ReadBegins, ReadEnds, NoRead, SignIn, MaySignIn
  <2> QED
    BY <1>0, <1>2, <2>1, <2>2, <2>3, <2>4, <2>5, <2>6, <2>7, <2>8, StepKinds
<1>4. CASE status # "restoring"
  BY <1>0, <1>1, <1>2, <1>4, StepKinds
  DEF NobodySignedIn, SomebodySignedIn, CacheRead, SyncServed, Settled, GiveUpQuietly, SyncRefused,
      SyncFails, SyncAgain, RefusedIsOut, Reloaded, AskAnswered, AskFails, Check, AddPhone, SignIn,
      SignOut, ReadBegins, ReadEnds, Around, Renew, store
<1> QED
  BY <1>3, <1>4

LEMMA OneReadStays == ASSUME IInv, [Next]_vars PROVE OneRead'
<1> USE DEF OneRead
<1>0. TypeOK /\ OneRead /\ Fresh
  BY DEF IInv, Restored
<1>1. CASE SomebodySignedIn
  <2>1. CASE reading' = reading
    BY <1>0, <2>1
  <2>2. CASE reading' # reading
    <3> DEFINE x == [who |-> who', cached |-> IF cache.uid = who' THEN cache.user ELSE NoProfile]
    <3>1. reading = <<>> /\ reading' = Append(reading, x)
      BY <1>0, <1>1, <2>2 DEF SomebodySignedIn, Fresh
    <3> HIDE DEF x
    <3>2. Tail(Append(<<>>, x)) = <<>>
      OBVIOUS
    <3> QED
      BY <3>1, <3>2
  <2> QED
    BY <2>1, <2>2
<1>2. CASE CacheRead
  BY <1>0, <1>2 DEF CacheRead
<1>3. CASE Relaunch
  BY <1>3 DEF Relaunch
<1>4. CASE UNCHANGED reading
  BY <1>0, <1>4
<1> QED
  BY <1>0, <1>1, <1>2, <1>3, <1>4, StepKinds
  DEF NobodySignedIn, SyncServed, GiveUpQuietly, SyncRefused, SyncFails, SyncAgain, RefusedIsOut,
      Reloaded, AskAnswered, AskFails, Check, AddPhone, SignIn, SignOut, ReadBegins, ReadEnds, Around,
      Renew, store

\* Whom the listener hears of is synced already, so nothing begins.
LEMMA SyncedHears ==
  ASSUME IInv, SomebodySignedIn, fb # NoOne, synced = fb, status # "restoring"
  PROVE  UNCHANGED <<sync, reading>>
<1>1. 1 \in DOMAIN calls /\ calls[1] = Head(calls)
  BY FirstOf DEF IInv, TypeOK, SomebodySignedIn
<1>2. who' = fb /\ user # NoProfile
  BY <1>1 DEF SomebodySignedIn, IInv, Told, NewsOfNow, SyncedHasProfile
<1> QED
  BY <1>2 DEF SomebodySignedIn

\* While somebody is signed in the listener does not hear of nobody.
LEMMA NobodyIsNews == ASSUME IInv, NobodySignedIn PROVE fb = NoOne
<1>1. 1 \in DOMAIN calls /\ calls[1] = Head(calls) /\ Head(calls) = NoOne
  BY FirstOf DEF IInv, TypeOK, NobodySignedIn
<1> QED
  BY <1>1 DEF IInv, Told, NewsOfNow

LEMMA ReadLastStays == ASSUME IInv, [Next]_vars PROVE ReadLast'
<1>0. TypeOK /\ ReadLast /\ Fresh /\ OneRead /\ SessionInv
  BY DEF IInv, Restored
<1>1. SUFFICES ASSUME reading' # <<>>, fb' # NoOne, status' # "restoring" PROVE ReadLast'
  BY DEF ReadLast
<1> DEFINE Early == /\ sync.at = "none"
                    /\ \/ status = "unauthenticated" /\ ask = NoAsk /\ calls = <<>> /\ screen # "verify"
                       \/ status # "unauthenticated" /\ synced = fb
<1>2. reading # <<>> /\ fb # NoOne /\ status # "restoring" => Early
  BY <1>0 DEF ReadLast
<1>3. SUFFICES Early'
  BY DEF ReadLast
<1>4. ~(NobodySignedIn \/ RefusedIsOut \/ SignOut \/ Renew \/ Relaunch \/ \E u \in Accounts : SignIn(u))
  BY <1>1, NobodyIsNews
  DEF NobodySignedIn, RefusedIsOut, SignOut, SignOutOfFirebase, Renew, Relaunch, SignIn, MaySignIn, store
<1>5. ~CacheRead
  BY <1>0, <1>1 DEF CacheRead, OneRead
<1>6. CASE SomebodySignedIn
  <2>1. UNCHANGED <<fb, status, synced, ask, screen>> /\ status # "restoring" /\ calls # <<>>
    BY <1>1, <1>6 DEF SomebodySignedIn
  <2>2. reading # <<>>
    BY <1>1, <1>6, <2>1 DEF SomebodySignedIn
  <2>3. sync.at = "none" /\ status # "unauthenticated" /\ synced = fb
    BY <1>1, <1>2, <2>1, <2>2
  <2>4. UNCHANGED <<sync, reading>>
    BY <1>1, <1>6, <2>1, <2>3, SyncedHears
  <2> QED
    BY <2>1, <2>3, <2>4
<1>7. CASE SyncServed
  <2>1. sync.at # "none" /\ reading # <<>> /\ fb # NoOne
    BY <1>1, <1>7 DEF SyncServed
  <2>2. synced' = fb' /\ sync'.at = "none"
    BY <1>0, <1>7, <2>1, PartyIsNow, NoSyncAt DEF SyncServed
  <2>3. status' # "unauthenticated"
    BY <1>7 DEF SyncServed, Settled
  <2> QED
    BY <2>2, <2>3
<1>8. CASE SyncFails
  <2>1. sync.at # "none" /\ reading # <<>> /\ fb # NoOne /\ UNCHANGED <<ask, calls, screen>>
    BY <1>1, <1>8 DEF SyncFails
  <2>2. status = "restoring"
    BY <1>2, <2>1
  <2>3. ask = NoAsk /\ calls = <<>> /\ screen # "verify"
    BY <1>0, <2>1, <2>2 DEF Fresh
  <2>4. status' = "unauthenticated" /\ sync' = NoSync
    BY <1>1, <1>8, <2>2 DEF SyncFails
  <2> QED
    BY <2>1, <2>3, <2>4, NoSyncAt
<1>9. ~(GiveUpQuietly \/ SyncRefused \/ SyncAgain)
  BY <1>1, <1>2 DEF GiveUpQuietly, SyncRefused, SyncAgain
<1>10. CASE Reloaded \/ AskAnswered \/ AskFails
  <2>1. /\ UNCHANGED <<fb, sync, synced, reading>> /\ ask # NoAsk
        /\ status' = status \/ status' \in {"verifyingEmail", "authenticated"}
    BY <1>10, CheckedAsk DEF Reloaded, AskAnswered, AskFails, Settled
  <2>2. status # "restoring"
    BY <1>0, <2>1 DEF Fresh
  <2>3. Early /\ status # "unauthenticated" /\ synced = fb
    BY <1>1, <1>2, <2>1, <2>2
  <2> QED
    BY <2>1, <2>3
<1>11. CASE Check \/ AddPhone
  <2>1. UNCHANGED <<fb, sync, synced, reading, status>>
    BY <1>11 DEF Check, AddPhone
  <2>2. Early /\ status # "unauthenticated" /\ synced = fb
    BY <1>1, <1>2, <1>11, <2>1 DEF Check, AddPhone
  <2> QED
    BY <2>1, <2>2
<1>12. CASE ReadBegins \/ ReadEnds \/ Around
  <2>1. UNCHANGED <<fb, sync, synced, reading, status, ask, calls>>
        /\ (screen' = "verify" => screen = "verify" \/ status = "verifyingEmail")
    BY <1>12 DEF ReadBegins, ReadEnds, Around, store
  <2>2. Early
    BY <1>1, <1>2, <2>1
  <2> QED
    BY <2>1, <2>2
<1> QED
  BY <1>0, <1>4, <1>5, <1>6, <1>7, <1>8, <1>9, <1>10, <1>11, <1>12, StepKinds

LEMMA AskIsOwnStays == ASSUME IInv, [Next]_vars PROVE AskIsOwn'
<1>0. TypeOK /\ AskIsOwn /\ Fresh /\ SessionInv /\ VerifiedIsKnown
  BY DEF IInv, Restored, Told
<1>1. CASE ask'.at # "me"
  BY <1>1 DEF AskIsOwn
<1>2. CASE Reloaded
  <2>1. CASE fb = NoOne
    BY <1>1, <1>2, <2>1, CheckedAsk DEF Reloaded
  <2>2. CASE fb # NoOne
    <3>1. UNCHANGED <<reading>> /\ ask'.token = [as |-> fb, verified |-> fb \in proven]
      BY <1>2, <2>2 DEF Reloaded
    <3>2. ask'.token.as = fb /\ ask'.token.verified = (fb \in proven)
      BY <3>1
    <3>3. ASSUME NEW i \in DOMAIN reading, LetsIn(reading[i].cached)
          PROVE  ~NeedsEmail(Answer(ask'.token))
      <4>1. reading[i].who = fb /\ reading[i].cached.who = fb
            /\ (reading[i].cached.verified => fb \in claims)
        BY <1>0, <2>2, <3>3, PartyIsNow DEF VerifiedIsKnown, LetsIn
      <4>2. fb \in Password => fb \in proven
        BY <1>0, <3>3, <4>1 DEF LetsIn, NeedsEmail, TypeOK
      <4> QED
        BY <3>2, <4>2 DEF NeedsEmail, Answer
    <3> QED
      BY <1>0, <2>2, <3>1, <3>2, <3>3, PartyIsNow DEF AskIsOwn
  <2> QED
    BY <2>1, <2>2
<1>3. CASE SomebodySignedIn
  <2>1. CASE reading' = reading
    BY <1>0, <1>3, <2>1 DEF SomebodySignedIn, AskIsOwn
  <2>2. CASE reading' # reading
    <3>1. status = "restoring" /\ ask' = ask
      BY <1>3, <2>2 DEF SomebodySignedIn
    <3> QED
      BY <1>0, <1>1, <3>1, CheckedAsk DEF Fresh
  <2> QED
    BY <2>1, <2>2
<1>4. CASE CacheRead
  <2>1. reading # <<>> /\ reading' = Tail(reading) /\ ask' = ask
    BY <1>4 DEF CacheRead
  <2> QED
    BY <1>0, <2>1, TailOf DEF AskIsOwn, TypeOK
<1>5. CASE \E u \in Accounts : SignIn(u)
  BY <1>5 DEF SignIn, MaySignIn, store, AskIsOwn
<1>6. CASE UNCHANGED <<reading, ask>>
  BY <1>0, <1>6 DEF AskIsOwn
<1>7. Check \/ AddPhone \/ AskAnswered \/ AskFails \/ Relaunch => ask'.at # "me"
  BY CheckedAsk DEF AddPhone, AskAnswered, AskFails, Relaunch
<1> QED
  BY <1>0, <1>1, <1>2, <1>3, <1>4, <1>5, <1>6, <1>7, StepKinds
  DEF NobodySignedIn, SyncServed, GiveUpQuietly, SyncRefused, SyncFails, SyncAgain, RefusedIsOut,
      SignOut, ReadBegins, ReadEnds, Around, Renew, store

-----------------------------------------------------------------------------
(* The addresses. *)

\* Once nothing is out, nothing begins while the same account stays and the app runs.
LEMMA QuietStays ==
  ASSUME IInv, [Next]_vars, Quiet, fb # NoOne, fb' = fb, ~Relaunch
  PROVE  Quiet'
<1> USE DEF Quiet
<1>0. TypeOK /\ Fresh
  BY DEF IInv, Restored
<1>1. CASE SomebodySignedIn
  <2>1. UNCHANGED <<sync, reading>>
    BY <1>0, <1>1, SyncedHears DEF Fresh
  <2> QED
    BY <1>1, <2>1 DEF SomebodySignedIn
<1>2. ~(NobodySignedIn \/ CacheRead)
  BY NobodyIsNews DEF CacheRead
<1>3. ~(SyncServed \/ GiveUpQuietly \/ SyncRefused \/ SyncFails \/ SyncAgain \/ RefusedIsOut)
  BY DEF SyncServed, GiveUpQuietly, SyncRefused, SyncFails, SyncAgain, RefusedIsOut
<1>4. CASE UNCHANGED <<synced, sync, reading>>
  BY <1>4
<1> QED
  BY <1>0, <1>1, <1>2, <1>3, <1>4, StepKinds
  DEF Reloaded, AskAnswered, AskFails, Check, AddPhone, SignIn, SignOut, ReadBegins, ReadEnds, Around,
      Renew, store

\* Who is told to sign in has nobody's addresses.
LEMMA NothingShown == ASSUME IInv, MaySignIn PROVE ~Exposed
<1>1. ExposedTo /\ status = "unauthenticated" /\ calls = <<>>
  BY DEF IInv, Shown, MaySignIn
<1>2. ~SignOutUnheard
  BY <1>1 DEF SignOutUnheard
<1> QED
  BY <1>1, <1>2 DEF ExposedTo

LEMMA ExposedStays == ASSUME IInv, [Next]_vars PROVE ExposedTo'
<1>0. TypeOK /\ ExposedTo /\ ReadLast /\ NoWayBack /\ SessionInv
  BY DEF IInv, Shown, Restored
\* Nobody is signed in afterwards.
<1>1. CASE fb' = NoOne
  <2>1. CASE SignOut \/ RefusedIsOut
    <3>1. UNCHANGED query
      BY <2>1 DEF SignOut, RefusedIsOut
    <3>2. Exposed' = Exposed
      BY <3>1 DEF Exposed, query
    <3>3. CASE fb = NoOne
      <4>1. calls' = calls
        BY <2>1, <3>3 DEF SignOut, RefusedIsOut, SignOutOfFirebase
      <4> QED
        BY <1>0, <1>1, <3>2, <3>3, <4>1 DEF ExposedTo, SignOutUnheard
    <3>4. CASE fb # NoOne
      <4>1. calls' = Append(calls, NoOne) /\ calls \in Seq(Somebody)
        BY <1>0, <2>1, <3>4 DEF SignOut, RefusedIsOut, SignOutOfFirebase, TypeOK
      <4>2. Len(calls) + 1 \in DOMAIN Append(calls, NoOne) /\ Append(calls, NoOne)[Len(calls) + 1] = NoOne
        BY <4>1
      <4>3. SignOutUnheard'
        BY <4>1, <4>2 DEF SignOutUnheard
      <4> QED
        BY <1>1, <4>3 DEF ExposedTo
    <3> QED
      BY <3>3, <3>4
  <2>2. CASE NobodySignedIn \/ Relaunch
    BY <1>1, <2>2 DEF NobodySignedIn, Relaunch, NoAddresses, NoRead, Exposed, ExposedTo
  <2>3. CASE fb = NoOne /\ ~NobodySignedIn /\ ~Relaunch
    <3>1. Exposed' => Exposed
      <4>1. CASE ReadBegins
        BY <2>3, <4>1 DEF ReadBegins, Exposed
      <4>2. CASE ReadEnds
        BY <1>0, <4>2 DEF ReadEnds, NotRead, NoRead, Exposed, TypeOK
      <4>3. CASE UNCHANGED query
        BY <4>3 DEF Exposed, query
      <4> QED
        BY <1>0, <2>3, <4>1, <4>2, <4>3, StepKinds
        DEF SomebodySignedIn, CacheRead, SyncServed, GiveUpQuietly, SyncRefused, SyncFails, SyncAgain,
            RefusedIsOut, Reloaded, AskAnswered, AskFails, Check, AddPhone, SignIn, SignOut, Around, Renew
    <3>2. SignOutUnheard => SignOutUnheard'
      BY <1>0, <1>1, <2>3, UnheardStays
    <3> QED
      BY <1>0, <1>1, <2>3, <3>1, <3>2 DEF ExposedTo
  <2>4. CASE fb # NoOne /\ ~(SignOut \/ RefusedIsOut \/ NobodySignedIn \/ Relaunch)
    BY <1>0, <1>1, <2>4, SessionAssumption, StepKinds
    DEF SomebodySignedIn, CacheRead, SyncServed, GiveUpQuietly, SyncRefused, SyncFails, SyncAgain,
        Reloaded, AskAnswered, AskFails, Check, AddPhone, SignIn, SignedInAs, ReadBegins, ReadEnds, Around,
        Renew
  <2> QED
    BY <2>1, <2>2, <2>3, <2>4
<1>2. CASE \E u \in Accounts : SignIn(u)
  <2>1. ~Exposed /\ UNCHANGED query
    BY <1>2, NothingShown DEF SignIn
  <2> QED
    BY <2>1 DEF Exposed, ExposedTo, query
<1>3. CASE Relaunch
  BY <1>3 DEF Relaunch, NoAddresses, NoRead, Exposed, ExposedTo
\* Somebody stays signed in.
<1>4. CASE fb' # NoOne /\ fb' = fb /\ ~Relaunch
  <2>0. fb # NoOne /\ (Quiet => Quiet')
    BY <1>4, QuietStays
  <2>1. CASE ReadBegins
    <3>1. UNCHANGED <<fb, addr, status>> /\ read'.as = fb /\ status = "authenticated"
      BY <2>1 DEF ReadBegins, store
    <3> QED
      BY <1>0, <2>0, <3>1 DEF ExposedTo
  <2>2. CASE ReadEnds
    <3>1. /\ addr'.at = "data" => addr'.as = fb
          /\ ~read'.out /\ UNCHANGED <<fb, status>>
      BY <1>0, <2>0, <2>2 DEF ReadEnds, NotRead, NoRead, ExposedTo, TypeOK, store
    <3>2. Exposed' => Exposed
      BY <1>0, <2>2 DEF ReadEnds, NotRead, NoRead, Exposed, TypeOK
    <3> QED
      BY <1>0, <2>0, <3>1, <3>2 DEF ExposedTo
  <2>3. CASE UNCHANGED query
    <3>1. /\ addr'.at = "data" => addr'.as = fb'
          /\ read'.out /\ read'.as # NoOne => read'.as = fb'
          /\ Exposed' = Exposed
      BY <1>0, <1>4, <2>0, <2>3 DEF ExposedTo, Exposed, query
    <3>2. SUFFICES ASSUME Exposed PROVE status' = "authenticated" \/ (status' = "verifyingEmail" /\ Quiet')
      BY <1>4, <3>1 DEF ExposedTo
    <3>3. status = "authenticated" \/ (status = "verifyingEmail" /\ Quiet)
      BY <1>0, <2>0, <3>2 DEF ExposedTo
    <3>4. CASE status' = status
      BY <2>0, <3>3, <3>4
    <3>5. CASE CacheRead
      BY <3>3, <3>5 DEF CacheRead, Quiet
    <3>6. CASE SyncServed
      <4>1. reading = <<>>
        BY <1>0, <2>0, <3>3, <3>6 DEF SyncServed, ReadLast
      <4>2. Quiet'
        BY <1>0, <2>0, <3>6, <4>1, PartyIsNow, NoSyncAt DEF SyncServed, Quiet
      <4> QED
        BY <3>6, <4>2 DEF SyncServed, Settled
    <3>7. CASE SyncFails
      BY <3>3, <3>7 DEF SyncFails, Quiet
    <3>8. CASE AskAnswered
      <4>1. CASE status' = "authenticated"
        BY <4>1
      <4>2. CASE status' # "authenticated" /\ status' # status
        <5>1. ask.at = "me" /\ NeedsEmail(Answer(ask.token)) /\ status' = "verifyingEmail"
          BY <3>8, <4>2 DEF AskAnswered, Settled
        <5>2. Quiet
          BY <1>0, <2>0, <3>3, <5>1 DEF NoWayBack
        <5> QED
          BY <2>0, <5>1, <5>2
      <4> QED
        BY <3>4, <4>1, <4>2
    <3>9. ~(NobodySignedIn \/ RefusedIsOut \/ \E u \in Accounts : SignIn(u))
      BY <1>4, <3>2, NobodyIsNews, NothingShown DEF RefusedIsOut, SignOutOfFirebase, SignIn
    <3> QED
      BY <1>0, <1>4, <3>4, <3>5, <3>6, <3>7, <3>8, <3>9, StepKinds
      DEF SomebodySignedIn, GiveUpQuietly, SyncRefused, SyncAgain, Reloaded, AskFails, Check, AddPhone,
          SignOut, ReadBegins, ReadEnds, Around, Renew, store
  <2>4. ~NobodySignedIn
    BY <1>4, NobodyIsNews
  <2> QED
    BY <1>0, <1>2, <1>4, <2>1, <2>2, <2>3, <2>4, StepKinds
    DEF SomebodySignedIn, CacheRead, SyncServed, GiveUpQuietly, SyncRefused, SyncFails, SyncAgain,
        RefusedIsOut, Reloaded, AskAnswered, AskFails, Check, AddPhone, SignOut, Around, Renew
<1>5. fb' = NoOne \/ fb' = fb \/ \E u \in Accounts : SignIn(u)
  BY <1>0, StepKinds
  DEF NobodySignedIn, SomebodySignedIn, CacheRead, SyncServed, GiveUpQuietly, SyncRefused, SyncFails,
      SyncAgain, RefusedIsOut, Reloaded, AskAnswered, AskFails, Check, AddPhone, SignOut,
      SignOutOfFirebase, ReadBegins, ReadEnds, Around, Renew, SignedInAs, Relaunch
<1> QED
  BY <1>1, <1>2, <1>3, <1>4, <1>5

LEMMA NoWayBackStays == ASSUME IInv, [Next]_vars PROVE NoWayBack'
<1>0. /\ TypeOK /\ NoWayBack /\ ReadLast /\ Fresh /\ AskIsOwn /\ LateAskFirst /\ VerifiedIsKnown /\ SessionInv
      /\ claims \subseteq claims' /\ proven \subseteq proven' /\ claims \subseteq proven
  BY ClaimsGrow DEF IInv, Shown, Restored, Told, TypeOK
<1>1. SUFFICES ASSUME fb' # NoOne, status' = "authenticated", ~Quiet' PROVE NoWayBack'
  BY DEF NoWayBack
<1>2. ~(NobodySignedIn \/ RefusedIsOut \/ SignOut \/ Relaunch \/ \E u \in Accounts : SignIn(u))
  BY <1>1
  DEF NobodySignedIn, RefusedIsOut, SignOut, SignOutOfFirebase, Relaunch, SignIn, MaySignIn, store
<1>3. fb' = fb
  BY <1>0, <1>2, StepKinds
  DEF SomebodySignedIn, CacheRead, SyncServed, GiveUpQuietly, SyncRefused, SyncFails, SyncAgain,
      Reloaded, AskAnswered, AskFails, Check, AddPhone, ReadBegins, ReadEnds, Around, Renew, SignedInAs
<1>4. fb # NoOne /\ ~Quiet /\ (Unproven(fb)' => Unproven(fb))
  BY <1>0, <1>1, <1>2, <1>3, QuietStays DEF Unproven
\* Who is let in by an own profile has no address to verify.
<1>5. ASSUME NEW q, q.who = fb, ~NeedsEmail(q), q.verified => fb \in claims
      PROVE  ~Unproven(fb)
  BY <1>0, <1>5 DEF NeedsEmail, Unproven
<1>6. CASE status = "authenticated" /\ UNCHANGED <<ask, screen>>
  BY <1>0, <1>3, <1>4, <1>6 DEF NoWayBack
<1>7. CASE status = "authenticated" /\ ask'.at \notin {"me", "reload"} /\ screen' = screen
  BY <1>0, <1>3, <1>4, <1>7 DEF NoWayBack
<1>8. CASE CacheRead /\ status # "authenticated"
  <2> DEFINE r == Head(reading)
  <2>1. 1 \in DOMAIN reading /\ reading[1] = r
    BY <1>0, <1>8, FirstOf DEF CacheRead, TypeOK
  <2>2. LetsIn(r.cached) /\ UNCHANGED <<ask, screen>>
    BY <1>1, <1>8 DEF CacheRead, LetsIn
  <2>3. r.cached.who = fb /\ (r.cached.verified => fb \in claims)
    BY <1>0, <1>4, <2>1, <2>2, PartyIsNow DEF VerifiedIsKnown, LetsIn
  <2>4. ~Unproven(fb)
    BY <1>5, <2>2, <2>3 DEF LetsIn
  <2>5. ask.at = "me" => ~NeedsEmail(Answer(ask.token))
    BY <1>0, <2>1, <2>2 DEF AskIsOwn
  <2> QED
    BY <1>3, <1>4, <2>2, <2>4, <2>5 DEF NoWayBack
<1>9. CASE SyncServed
  <2> DEFINE q == Answer(sync.token)
  <2>1. sync.at = "out" /\ ~NeedsEmail(q) /\ sync.token.as # NoOne /\ UNCHANGED <<ask, screen, reading>>
    BY <1>1, <1>9 DEF SyncServed, Settled, Refused
  <2>2. sync.token.as = fb
    BY <1>0, <1>4, <2>1, PartyIsNow DEF SessionInv, TokenIsTheirs
  <2>3. q.who = fb /\ (q.verified => fb \in claims)
    BY <1>0, <2>1, <2>2 DEF Answer, VerifiedIsKnown
  <2>4. ~Unproven(fb)
    BY <1>5, <2>1, <2>3
  <2>5. synced' = fb' /\ sync'.at = "none"
    BY <1>0, <1>3, <1>4, <1>9, PartyIsNow, NoSyncAt DEF SyncServed
  <2>6. reading # <<>>
    BY <1>1, <2>1, <2>5 DEF Quiet
  <2>7. ask = NoAsk
    BY <1>0, <1>4, <2>1, <2>6 DEF ReadLast, Fresh
  <2> QED
    BY <1>3, <1>4, <2>1, <2>4, <2>7, CheckedAsk DEF NoWayBack
<1>10. CASE AskAnswered /\ status # "authenticated"
  <2>1. /\ ask.at = "me" /\ ~NeedsEmail(Answer(ask.token)) /\ screen' = screen /\ ask'.at = "none"
    BY <1>1, <1>10, CheckedAsk DEF AskAnswered, Settled
  <2>2. CASE ask.token.as = fb
    <3>1. Answer(ask.token).who = fb /\ (Answer(ask.token).verified => fb \in claims)
      BY <1>0, <2>1, <2>2 DEF Answer, VerifiedIsKnown
    <3>2. ~Unproven(fb)
      BY <1>5, <2>1, <3>1
    <3> QED
      BY <1>3, <1>4, <2>1, <3>2 DEF NoWayBack
  <2>3. CASE ask.token.as # fb
    BY <1>0, <1>3, <1>4, <2>1, <2>3 DEF NoWayBack, LateAskFirst
  <2> QED
    BY <2>2, <2>3
<1>11. CASE Reloaded
  <2>1. status = "authenticated" /\ screen' = screen /\ ask.at = "reload"
    BY <1>1, <1>11 DEF Reloaded
  <2>2. ask'.at = "me" /\ ask'.token = [as |-> fb, verified |-> fb \in proven]
    BY <1>4, <1>11 DEF Reloaded
  <2>3. ~Unproven(fb)
    BY <1>0, <1>4, <2>1 DEF NoWayBack
  <2>4. ask'.token.as = fb /\ ask'.token.verified = (fb \in proven)
    BY <2>2
  <2>5. ~NeedsEmail(Answer(ask'.token))
    BY <2>3, <2>4 DEF Answer, NeedsEmail, Unproven
  <2> QED
    BY <1>3, <1>4, <2>1, <2>2, <2>3, <2>5 DEF NoWayBack
<1>12. CASE Check
  <2>1. status = "authenticated" /\ screen = "verify" /\ screen' = screen /\ ask'.at = "reload"
    BY <1>1, <1>12, CheckedAsk DEF Check
  <2>2. ~Unproven(fb)
    BY <1>0, <1>4, <2>1 DEF NoWayBack
  <2> QED
    BY <1>3, <1>4, <2>1, <2>2 DEF NoWayBack
<1>13. CASE Around
  <2>1. status = "authenticated" /\ ask' = ask /\ (screen' = "verify" => screen = "verify")
    BY <1>1, <1>13 DEF Around, store
  <2> QED
    BY <1>0, <1>3, <1>4, <2>1 DEF NoWayBack
<1>14. AskAnswered \/ AskFails \/ AddPhone => ask'.at \notin {"me", "reload"} /\ screen' = screen
  BY CheckedAsk DEF AskAnswered, AskFails, AddPhone
<1> QED
  BY <1>0, <1>1, <1>2, <1>6, <1>7, <1>8, <1>9, <1>10, <1>11, <1>12, <1>13, <1>14, StepKinds
  DEF SomebodySignedIn, CacheRead, GiveUpQuietly, SyncRefused, SyncFails, SyncAgain,
      AskFails, AddPhone, ReadBegins, ReadEnds, Renew, store

LEMMA LateAskStays == ASSUME IInv, [Next]_vars PROVE LateAskFirst'
<1>0. /\ TypeOK /\ LateAskFirst /\ AskIsOwn /\ SessionInv /\ proven \subseteq proven'
  BY ClaimsGrow DEF IInv, Shown, Restored
<1>1. SUFFICES ASSUME fb' # NoOne, ask'.at = "me", ask'.token.as # fb', ~Quiet' PROVE LateAskFirst'
  BY DEF LateAskFirst
<1>2. CASE \E u \in Accounts : SignIn(u)
  BY <1>2 DEF SignIn, MaySignIn, store, LateAskFirst
<1>3. ~(RefusedIsOut \/ SignOut \/ Relaunch \/ NobodySignedIn)
  <2>1. ~(RefusedIsOut \/ SignOut \/ Relaunch)
    BY <1>1, CheckedAsk DEF RefusedIsOut, SignOut, SignOutOfFirebase, Relaunch
  <2>2. ~NobodySignedIn
    BY <1>1, NobodyIsNews DEF NobodySignedIn
  <2> QED
    BY <2>1, <2>2
<1>4. CASE ~\E u \in Accounts : SignIn(u)
  <2>1. fb' = fb
    BY <1>0, <1>3, <1>4, StepKinds
    DEF SomebodySignedIn, CacheRead, SyncServed, GiveUpQuietly, SyncRefused, SyncFails, SyncAgain,
        Reloaded, AskAnswered, AskFails, Check, AddPhone, ReadBegins, ReadEnds, Around, Renew, SignedInAs
  <2>2. fb # NoOne /\ ~Quiet /\ (Unproven(fb)' => Unproven(fb))
    BY <1>0, <1>1, <1>3, <2>1, QuietStays DEF Unproven
  <2>3. ~(Reloaded \/ AskAnswered \/ AskFails \/ Check \/ AddPhone)
    <3>1. ~(AskAnswered \/ AskFails \/ Check \/ AddPhone)
      BY <1>1, CheckedAsk DEF AskAnswered, AskFails, AddPhone
    <3>2. ~Reloaded
      BY <1>1, <2>1, <2>2 DEF Reloaded
    <3> QED
      BY <3>1, <3>2
  <2>4. ask' = ask
    BY <1>0, <1>3, <1>4, <2>3, StepKinds
    DEF SomebodySignedIn, CacheRead, SyncServed, GiveUpQuietly, SyncRefused, SyncFails, SyncAgain,
        ReadBegins, ReadEnds, Around, Renew, store
  <2>5. status # "verifyingEmail" /\ (Unproven(fb) => screen # "verify")
    BY <1>0, <1>1, <2>1, <2>2, <2>4 DEF LateAskFirst
  <2>6. reading = <<>>
    <3>1. \A i \in DOMAIN reading : FALSE
      BY <1>0, <1>1, <2>1, <2>2, <2>4, PartyIsNow DEF AskIsOwn
    <3> QED
      BY <1>0, <3>1, FirstOf DEF TypeOK
  <2>7. ~SyncServed
    <3>1. SyncServed => Quiet'
      BY <1>0, <2>1, <2>2, <2>6, PartyIsNow, NoSyncAt DEF SyncServed, Quiet
    <3> QED
      BY <1>1, <3>1
  <2>8. status' # "verifyingEmail" /\ (screen' = "verify" => screen = "verify")
    BY <1>0, <1>1, <1>3, <1>4, <2>3, <2>5, <2>6, <2>7, StepKinds
    DEF SomebodySignedIn, CacheRead, GiveUpQuietly, SyncRefused, SyncFails, SyncAgain,
        ReadBegins, ReadEnds, Around, Renew, store
  <2> QED
    BY <2>1, <2>2, <2>5, <2>8 DEF LateAskFirst
<1> QED
  BY <1>2, <1>4

-----------------------------------------------------------------------------
(* The invariant and the theorems. *)

LEMMA InitHolds == Init => IInv
<1> SUFFICES ASSUME Init PROVE IInv
  OBVIOUS
<1>1. TypeOK /\ SessionInv
  BY InitTyped, InitSafe
<1>2. NewsOfNow /\ LetInIsTheirs /\ SyncedHasProfile
  BY NoSyncAt DEF Init, NewsOfNow, LetInIsTheirs, SyncedHasProfile
<1>3. VerifiedIsKnown
  <2>1. cache.user.verified => cache.uid \in claims
    <3>1. CASE cache = NoCache
      BY <3>1 DEF NoCache, NoProfile
    <3>2. CASE cache = [uid |-> fb, user |-> [who |-> fb, verified |-> fb \in proven]]
      <4>1. cache.uid = fb /\ cache.user.verified = (fb \in proven) /\ claims = proven
        BY <3>2 DEF Init
      <4> QED
        BY <4>1
    <3> QED
      BY <3>1, <3>2 DEF Init
  <2> QED
    BY <2>1, NoSyncAt, CheckedAsk DEF Init, VerifiedIsKnown
<1>4. Fresh
  BY DEF Init, Fresh
<1>5. OneRead /\ ReadLast /\ AskIsOwn
  BY DEF Init, OneRead, ReadLast, AskIsOwn
<1>6. ExposedTo /\ NoWayBack /\ LateAskFirst
  BY DEF Init, NoAddresses, NoRead, NoAsk, Exposed, ExposedTo, NoWayBack, LateAskFirst
<1> QED
  BY <1>1, <1>2, <1>3, <1>4, <1>5, <1>6 DEF IInv, Told, Restored, Shown

LEMMA NextHolds == IInv /\ [Next]_vars => IInv'
<1> SUFFICES ASSUME IInv, [Next]_vars PROVE IInv'
  OBVIOUS
<1>1. TypeOK' /\ SessionInv'
  BY NextTyped, CacheStays, PartyStays DEF IInv, SessionInv
<1>2. Told'
  BY NewsStays, LetInStays, VerifiedStays, SyncedStays DEF Told
<1>3. Restored'
  BY FreshStays, OneReadStays, ReadLastStays, AskIsOwnStays DEF Restored
<1>4. Shown'
  BY ExposedStays, NoWayBackStays, LateAskStays DEF Shown
<1> QED
  BY <1>1, <1>2, <1>3, <1>4 DEF IInv

(* Once the listener was called, the addresses that are shown, and that    *)
(* decide whether somebody is let past the first address, are those of the *)
(* account that is signed in. They are dropped when the listener hears of  *)
(* a sign-out, and nothing but a sign-out leads from a session with        *)
(* addresses back to a sign-in: not a sync that fails for good, though it  *)
(* may have waited since before the addresses were read, nor a check whose *)
(* answer sends the customer back to verify an address.                    *)
THEOREM DataAlwaysTheirs == Spec => []DataIsTheirs
<1>1. IInv => DataIsTheirs
  <2> SUFFICES ASSUME IInv, status = "authenticated", calls = <<>>, addr.at = "data" PROVE addr.as = fb
    BY DEF DataIsTheirs
  <2>1. Exposed /\ ~SignOutUnheard
    BY DEF Exposed, SignOutUnheard
  <2> QED
    BY <2>1 DEF IInv, Shown, ExposedTo
<1> QED
  BY <1>1, InitHolds, NextHolds, PTL DEF Spec

(* Whatever the order of sign-ins, renewals, cached profiles and syncs,    *)
(* whoever is let in is shown the own profile, unless an answer was taken  *)
(* for somebody who was not signed in any more.                            *)
THEOREM StrangerAlwaysLate == Spec => []StrangerNeedsLateAnswer
<1>1. IInv => StrangerNeedsLateAnswer
  BY DEF IInv, Told, LetInIsTheirs, SignOutUnheard, StrangerNeedsLateAnswer
<1> QED
  BY <1>1, InitHolds, NextHolds, PTL DEF Spec
-----------------------------------------------------------------------------
(* Who is let in has no address left to verify.                            *)

\* What a profile says is verified, a token of its owner said before; and a phone number is
\* only added by somebody who is in, so that its answer lets nobody else in.
LetInKnown ==
  /\ user.verified => user.who \in claims
  /\ ask.at = "link" => /\ ask.token.verified => ask.token.as \in claims
                        /\ strayed \/ ~NeedsEmail(Answer(ask.token))
  /\ status = "authenticated" => strayed \/ ~NeedsEmail(user)

LEMMA AddedPhoneKnown ==
  ASSUME IInv, LetInKnown, AddPhone
  PROVE  /\ TokenNow.verified => TokenNow.as \in claims
         /\ strayed \/ ~NeedsEmail(Answer(TokenNow))
<1>1. TokenNow.as = fb /\ TokenNow.verified = (fb \in claims)
  BY DEF TokenNow
<1>2. strayed \/ (user.who = fb /\ ~NeedsEmail(user))
  BY DEF AddPhone, LetInKnown, IInv, Told, LetInIsTheirs
<1>3. Answer(TokenNow).who = fb /\ Answer(TokenNow).verified = (fb \in claims)
  BY <1>1 DEF Answer
<1> QED
  BY <1>1, <1>2, <1>3 DEF LetInKnown, NeedsEmail

LEMMA LetInKnownStays == ASSUME IInv, LetInKnown, [Next]_vars PROVE LetInKnown'
<1>0. TypeOK /\ VerifiedIsKnown /\ claims \subseteq claims'
  BY ClaimsGrow DEF IInv, Told
<1>1. CASE NobodySignedIn \/ Relaunch
  BY <1>0, <1>1 DEF NobodySignedIn, Relaunch, LetInKnown, NoProfile, NoAsk
<1>2. CASE CacheRead
  <2>1. 1 \in DOMAIN reading /\ reading[1] = Head(reading)
    BY <1>0, <1>2, FirstOf DEF CacheRead, TypeOK
  <2> DEFINE p == Head(reading).cached
  <2>2. p # NoProfile => (p.verified => p.who \in claims)
    BY <1>0, <2>1 DEF VerifiedIsKnown
  <2>3. UNCHANGED <<ask, claims>> /\ (strayed => strayed')
    BY <1>2 DEF CacheRead
  <2>4. \/ UNCHANGED <<status, user, strayed>>
        \/ p # NoProfile /\ ~NeedsEmail(p) /\ user' = p
    BY <1>2 DEF CacheRead
  <2> QED
    BY <2>2, <2>3, <2>4 DEF LetInKnown, NeedsEmail
<1>3. CASE SyncServed
  <2> DEFINE p == Answer(sync.token)
  <2>1. p.who = sync.token.as /\ p.verified = sync.token.verified
    BY DEF Answer
  <2>2. p.verified => p.who \in claims
    BY <1>0, <1>3, <2>1 DEF SyncServed, VerifiedIsKnown
  <2>3. user' = p /\ status' = Settled(p) /\ UNCHANGED <<ask, claims>> /\ (strayed => strayed')
    BY <1>3 DEF SyncServed
  <2> HIDE DEF p
  <2> QED
    BY <2>2, <2>3 DEF LetInKnown, NeedsEmail, Settled
<1>4. CASE SyncFails
  BY <1>0, <1>4 DEF SyncFails, LetInKnown, NoProfile, NeedsEmail
<1>5. CASE RefusedIsOut
  BY <1>0, <1>5 DEF RefusedIsOut, LetInKnown, NoProfile, NeedsEmail
<1>6. CASE AskAnswered
  <2> DEFINE p == Answer(ask.token)
  <2>1. p.who = ask.token.as /\ p.verified = ask.token.verified
    BY DEF Answer
  <2>2. ask.at \in {"me", "link"} /\ (p.verified => p.who \in claims)
    BY <1>0, <1>6, <2>1 DEF AskAnswered, VerifiedIsKnown, LetInKnown
  <2>3. /\ user' = p /\ (ask.at = "me" => status' = Settled(p)) /\ ask'.at = "none"
        /\ claims' = claims /\ (strayed => strayed')
    BY <1>6 DEF AskAnswered, NoAsk
  <2>4. ask.at = "link" => strayed \/ ~NeedsEmail(p)
    BY DEF LetInKnown
  <2> HIDE DEF p
  <2> QED
    BY <2>2, <2>3, <2>4 DEF LetInKnown, NeedsEmail, Settled
<1>7. CASE AddPhone
  <2>1. ask'.token = TokenNow /\ UNCHANGED <<user, claims, status, strayed>>
    BY <1>7 DEF AddPhone
  <2> QED
    BY <1>7, <2>1, AddedPhoneKnown DEF LetInKnown, NeedsEmail, Answer
<1>8. CASE Reloaded \/ AskFails \/ Check
  <2>1. ask'.at # "link" /\ UNCHANGED <<user, status, strayed>>
    BY <1>8, CheckedAsk DEF Reloaded, AskFails, Check, NoAsk
  <2> QED
    BY <1>0, <2>1 DEF LetInKnown, NeedsEmail
<1>9. CASE UNCHANGED <<user, status, strayed, ask>>
  BY <1>0, <1>9 DEF LetInKnown, NeedsEmail, Answer
<1> QED
  BY <1>0, <1>1, <1>2, <1>3, <1>4, <1>5, <1>6, <1>7, <1>8, <1>9, StepKinds
  DEF SomebodySignedIn, GiveUpQuietly, SyncRefused, SyncAgain, SignIn, SignOut, ReadBegins, ReadEnds,
      Around, Renew, store

(* A customer who must still verify an e-mail address is let in by nothing *)
(* but an answer that was taken for somebody who had gone: not by the      *)
(* profile kept from the last launch, nor by the answer to a phone number  *)
(* that was added, which settles no status.                                *)
THEOREM UnverifiedAlwaysOut == Spec => []UnverifiedStayOut
<1>1. Init => LetInKnown
  BY DEF Init, LetInKnown, NoProfile, NoAsk
<1>2. IInv /\ LetInKnown /\ [Next]_vars => LetInKnown'
  BY LetInKnownStays
<1>3. LetInKnown => UnverifiedStayOut
  BY DEF LetInKnown, UnverifiedStayOut
<1> QED
  BY <1>1, <1>2, <1>3, InitHolds, NextHolds, PTL DEF Spec

=============================================================================
