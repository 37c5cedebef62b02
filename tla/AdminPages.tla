----------------------------- MODULE AdminPages -----------------------------
(***************************************************************************)
(* One page of the admin panel in one browser tab: what it has read, what  *)
(* it shows, and the calls and reads it has out.  Nothing in the panel     *)
(* cancels a request or numbers the answers, so reads answer in any order  *)
(* and each answer overwrites what is shown.  The Admin modules say of every   *)
(* page what it reads, when it reads again and what its controls do; here  *)
(* is what such a page then goes through.                                  *)
(* A row is what a page shows of one thing: a state, of which the page     *)
(* knows what its controls depend on, and the number of its changes.       *)
(* A definition named Slip_... is a plausible mistake in the one that      *)
(* follows it, kept to show that a property catches it.                    *)
(***************************************************************************)
EXTENDS Integers, Sequences, FiniteSets

CONSTANTS
  Screens,    \* the pages, by name (AdminLists, AdminDetails)
  Rows,       \* the things a list shows
  FirstRow,   \* the one thing a page about one thing shows
  Nothing,    \* no row, no dialog
  MaxReads,   \* bound: reads that are out at a time
  MaxEvents   \* bound: controls pressed, filters changed and changes by others

ASSUME BoundsAssumption ==
  /\ FirstRow \in Rows /\ Nothing \notin Rows
  /\ MaxReads \in Nat \ {0} /\ MaxEvents \in Nat   \* a page that reads starts with one read out

\* What the pages have in common.  A control leaves a row in a state that the page knows
\* (of which it starts in one); what a page does not show it changes neither in a row nor in
\* its number, and only after such a change it may leave the page as it is; the controls that
\* share a flag of the page keep it when their dialog closes, or none does.  A page with a form
\* has no filters and hears of no events.
ASSUME ScreensAssumption ==
  \A p \in DOMAIN Screens :
    LET s == Screens[p] IN
    /\ s.start \subseteq DOMAIN s.offers
    /\ s.form => ~s.filters /\ ~s.live
    /\ \A name \in DOMAIN s.acts :
         LET a == s.acts[name] IN
         /\ a.silent \in BOOLEAN
         /\ a.after \in {"reload", "patch", "leave", "stay"}
         /\ a.after = "stay" => a.unshown
         /\ a.unshown => ~a.asRead /\ \A st \in DOMAIN a.makes : a.makes[st] = st
         /\ \A st \in DOMAIN a.makes : a.makes[st] \in DOMAIN s.offers
         /\ \A other \in DOMAIN s.acts :
              s.acts[other].lock = a.lock /\ a.lock \notin {"none", "row"} \cup s.local =>
                (s.acts[other].unmounts <=> a.unmounts)

\* A form that creates reads nothing, now or later.  Its controls share one flag, which each of
\* them looks at and none forgets; they ask nothing first, succeed or fail as a whole, and close the
\* form or show what they made of it.  What they make offers nothing more to create.
Creates(s, st) == \E name \in DOMAIN s.acts : s.acts[name].creates /\ name \in s.offers[st]

ASSUME FormsAssumption ==
  \A p \in DOMAIN Screens :
    LET s == Screens[p] IN
    ~s.reads =>
      /\ ~s.many /\ ~s.filters /\ ~s.live
      /\ \A name \in DOMAIN s.acts :
           LET a == s.acts[name] IN
           /\ a.lock \notin {"none", "row"} \cup s.local /\ ~a.loose /\ ~a.unmounts
           /\ \A other \in DOMAIN s.acts : s.acts[other].lock = a.lock
           /\ ~a.asks /\ ~a.asRead /\ a.parts = "none"
           /\ a.after \in {"leave", "patch"} /\ a.onFail = "stay"
           /\ \A st \in DOMAIN a.makes : ~Creates(s, a.makes[st])

\* The server takes what the panel offers: a control is there in no state in which it would be
\* refused, except for what the page does not show, and except for the states in which it is
\* known to be offered in vain; one that reads the row anew when it opens may find it in any state.
OffersAreTaken ==
  \A p \in DOMAIN Screens : \A name \in DOMAIN Screens[p].acts :
    LET a == Screens[p].acts[name] IN
    /\ \A st \in DOMAIN Screens[p].offers :
         name \in Screens[p].offers[st] => st \in DOMAIN a.makes \/ a.unseen \/ st \in a.vain
    /\ a.fresh => a.unseen

VARIABLES
  page,       \* the page that is open
  srv,        \* what the database has
  others,     \* changes other people made
  heard,      \* those the tab got an event for
  query,      \* filters, search and page number: which setting of them
  reads,      \* loads that are out, oldest first
  view,       \* what the last answer brought
  loading, error, loadedOnce,
  overtaken,  \* history: the view shows an answer that a newer one overtook
  calls,      \* calls that are out
  held,       \* the busy flags
  asked,      \* the dialog that is open: for which control and which row
  mine,       \* history: per row the newest change this tab knows it made
  dirty,      \* the form has edits
  typed,      \* history: controls pressed before the form was edited, -1 if something was out then
  acted, made, lost,   \* histories: controls pressed, things created, answers lost
  left        \* the page was left

pageVars == <<page, query, typed>>
loadVars == <<reads, view, loading, error, loadedOnce, overtaken, dirty>>
callVars == <<calls, held, asked, mine, acted, left>>
worldVars == <<srv, others, heard, made, lost>>
allPageVars == <<pageVars, loadVars, callVars, worldVars>>

Screen == Screens[page]
ShownRows == IF Screen.many THEN Rows ELSE {FirstRow}
Act(name) == Screen.acts[name]

NoCard == [st |-> "none", rev |-> 0]
NoView == [query |-> -1, rows |-> [r \in {} |-> NoCard]]
NoAnswer == <<>>

EventsLeft == acted + query + others < MaxEvents

\* Nothing is out, and the page was not left.
Quiet == reads = <<>> /\ calls = {} /\ ~left

\* The flag a control sets while its call is out: one for the page, or one that
\* remembers the row it was set for.
Flag(name, r) == IF Act(name).lock = "row" THEN <<"row", r>> ELSE <<Act(name).lock, Nothing>>
Take(flag) == IF flag[1] = "row" THEN {f \in held : f[1] # "row"} \cup {flag}
              ELSE IF flag[1] = "none" THEN held ELSE held \cup {flag}
Give(flag) == {f \in held : f[1] # flag[1]}

PageTypeOK ==
  /\ page \in DOMAIN Screens
  /\ DOMAIN srv = ShownRows
  /\ Len(reads) <= MaxReads
  /\ \A i \in DOMAIN reads : reads[i].query \in 0..MaxEvents /\ reads[i].late \in BOOLEAN
  /\ view = NoView \/ DOMAIN view.rows = ShownRows
  /\ loading \in BOOLEAN /\ error \in BOOLEAN /\ loadedOnce \in BOOLEAN
  /\ \A c \in calls : c.act \in DOMAIN Screen.acts /\ c.at \in {"out", "ok", "partly", "refused"}
  /\ \A f \in held : f[2] \in ShownRows \cup {Nothing}
  /\ mine \in [ShownRows -> Nat] /\ acted \in 0..MaxEvents /\ typed \in -1..MaxEvents

PageInit ==
  /\ page \in DOMAIN Screens
  /\ \E s \in Screen.start : srv = [r \in ShownRows |-> [st |-> s, rev |-> 0]]
  /\ others = 0 /\ heard = 0 /\ query = 0
  /\ reads = IF Screen.reads
             THEN <<[query |-> 0, answer |-> NoAnswer, late |-> FALSE, silent |-> FALSE, frees |-> <<"none", Nothing>>]>>
             ELSE <<>>
  /\ view = IF Screen.reads THEN NoView ELSE [query |-> 0, rows |-> srv]
  /\ loading = (Screen.reads /\ Screen.skeleton # "never")
  /\ error = FALSE /\ loadedOnce = FALSE /\ overtaken = FALSE
  /\ calls = {} /\ held = {} /\ asked = Nothing
  /\ mine = [r \in ShownRows |-> 0]
  /\ dirty = FALSE /\ typed = 0 /\ acted = 0 /\ made = 0 /\ lost = 0 /\ left = FALSE

-----------------------------------------------------------------------------
(* Loads. *)

\* load(): the skeleton and the error of the last load, then the request.
StartLoad(q, silent, frees) ==
  /\ Len(reads) < MaxReads
  /\ reads' = Append(reads, [query |-> q, answer |-> NoAnswer, late |-> FALSE,
                             silent |-> silent, frees |-> frees])
  /\ loading' = \/ loading
                \/ ~silent /\ Screen.skeleton = "each"
                \/ ~silent /\ Screen.skeleton = "first" /\ ~loadedOnce
  /\ error' = (error /\ ~Screen.clears)
  /\ UNCHANGED <<view, loadedOnce, overtaken, dirty>>

\* A filter, a search text or a page number is changed: the effect loads.
ChangeQuery ==
  /\ Screen.filters /\ EventsLeft
  /\ query' = query + 1
  /\ StartLoad(query + 1, FALSE, <<"none", Nothing>>)
  /\ UNCHANGED <<page, typed, callVars, worldVars>>

Retry ==
  /\ error /\ ~loading /\ (Screen.hides \/ view = NoView) /\ Screen.reads
  /\ StartLoad(query, FALSE, <<"none", Nothing>>)
  /\ UNCHANGED <<pageVars, callVars, worldVars>>

Slip_OrderEvent ==
  /\ heard < others
  /\ heard' = others
  /\ StartLoad(query, TRUE, <<"none", Nothing>>)
  /\ UNCHANGED <<pageVars, callVars, srv, others, made, lost>>

\* An order event reached the tab.
OrderEvent ==
  /\ Screen.live /\ heard < others
  /\ heard' = others
  /\ StartLoad(query, TRUE, <<"none", Nothing>>)
  /\ UNCHANGED <<pageVars, callVars, srv, others, made, lost>>

ServeRead(i) ==
  /\ reads[i].answer = NoAnswer
  /\ reads' = [reads EXCEPT ![i].answer = srv]
  /\ UNCHANGED <<pageVars, view, loading, error, loadedOnce, overtaken, dirty, callVars, worldVars>>

\* Reads that were out before this one ended, or when a card was patched, are late.
OthersLate(i) == [j \in DOMAIN reads |-> IF j < i THEN [reads[j] EXCEPT !.late = TRUE] ELSE reads[j]]
Without(s, i) == SubSeq(s, 1, i - 1) \o SubSeq(s, i + 1, Len(s))

\* While a page gives way to a skeleton or an error, the sections or rows in it are
\* unmounted: flags and dialogs of theirs are forgotten, their calls are not.
GivesWay == loading' \/ (error' /\ Screen.hides)
KeepFlags(flags) == IF GivesWay THEN {f \in flags : f[1] \notin Screen.local} ELSE flags
KeepDialog(d) ==
  IF d # Nothing /\ GivesWay /\ Flag(d.act, d.row)[1] \in Screen.local THEN Nothing ELSE d

\* The finally of load(): whichever load it is, the skeleton goes.
EndLoad(i) ==
  /\ loading' = (loading /\ reads[i].silent)
  /\ loadedOnce' = TRUE
  /\ held' = KeepFlags(Give(reads[i].frees))
  /\ asked' = KeepDialog(asked)
  /\ UNCHANGED <<pageVars, worldVars, calls, mine, acted, left>>

\* An answer is shown, and a form is filled with what it brought.
Deliver(i) ==
  /\ reads[i].answer # NoAnswer
  /\ view' = [query |-> reads[i].query, rows |-> reads[i].answer]
  /\ overtaken' = reads[i].late
  /\ reads' = Without(OthersLate(i), i)
  /\ error' = (error /\ Screen.clears)
  /\ dirty' = FALSE
  /\ EndLoad(i)

ReadFails(i) ==
  /\ reads' = Without(OthersLate(i), i)
  /\ error' = TRUE
  /\ UNCHANGED <<view, overtaken, dirty>>
  /\ EndLoad(i)

-----------------------------------------------------------------------------
(* Controls. *)

Rendered == view # NoView /\ ~loading /\ ~(error /\ Screen.hides) /\ ~left

\* A dialog lies over a list; a page about one thing is replaced as a whole,
\* dialogs included, while it loads or shows an error.
DialogShown == asked # Nothing /\ (Screen.many \/ Rendered) /\ ~left

Free(name, r) ==
  /\ Flag(name, r) \notin held \/ Act(name).loose
  /\ \A f \in held : f[1] \in Act(name).blocked => f[1] = "row" /\ f[2] # r

Slip_Send(name, r, shown) ==
  /\ calls' = calls \cup {[act |-> name, row |-> r, saw |-> shown, at |-> "out", card |-> NoCard, id |-> acted]}
  /\ held' = held
  /\ acted' = acted + 1

Send(name, r, shown) ==
  /\ calls' = calls \cup {[act |-> name, row |-> r, saw |-> shown, at |-> "out", card |-> NoCard, id |-> acted]}
  /\ held' = Take(Flag(name, r))
  /\ acted' = acted + 1

Offered(name, r) ==
  /\ Rendered /\ asked = Nothing
  /\ name \in Screen.offers[view.rows[r].st]
  /\ Free(name, r)
  /\ Act(name).save => dirty

Press(name, r) ==
  /\ Offered(name, r) /\ EventsLeft
  /\ IF Act(name).asks
     THEN /\ asked' = [act |-> name, row |-> r, saw |-> IF Act(name).fresh THEN srv[r] ELSE view.rows[r]]
          /\ UNCHANGED <<calls, held, acted>>
     ELSE Send(name, r, view.rows[r]) /\ UNCHANGED asked
  /\ UNCHANGED <<pageVars, loadVars, worldVars, mine, left>>

Confirm ==
  /\ DialogShown /\ EventsLeft
  /\ Flag(asked.act, asked.row) \notin held
  /\ Send(asked.act, asked.row, asked.saw)
  /\ UNCHANGED <<pageVars, loadVars, worldVars, asked, mine, left>>

\* Cancel is disabled while the call is out, but not in every dialog; of those, the
\* ones that are unmounted when they close lose their busy flag with it.
Cancel ==
  /\ DialogShown
  /\ Flag(asked.act, asked.row) \notin held \/ Act(asked.act).closable
  /\ asked' = Nothing
  /\ held' = IF Act(asked.act).unmounts THEN held \ {Flag(asked.act, asked.row)} ELSE held
  /\ UNCHANGED <<pageVars, loadVars, worldVars, calls, mine, acted, left>>

Edit ==
  /\ Screen.form /\ Rendered /\ ~dirty
  /\ dirty' = TRUE
  /\ typed' = IF Quiet THEN acted ELSE -1
  /\ UNCHANGED <<page, query, reads, view, loading, error, loadedOnce, overtaken, callVars, worldVars>>

\* Leaving with edits asks first, and discards them.
Leave ==
  /\ Screen.form /\ ~left
  /\ left' = TRUE
  /\ UNCHANGED <<pageVars, loadVars, worldVars, calls, held, asked, mine, acted>>

-----------------------------------------------------------------------------
(* The server, and other people at work on the same things. *)

\* What a control makes of a row; some forms send back the state they read.
Result(c) == IF Act(c.act).asRead THEN c.saw.st ELSE Act(c.act).makes[srv[c.row].st]

ServeCall(c) ==
  /\ c.at = "out"
  /\ \/ /\ srv[c.row].st \in DOMAIN Act(c.act).makes
        /\ LET card == [st |-> Result(c),
                        rev |-> srv[c.row].rev + (IF Act(c.act).unshown THEN 0 ELSE 1)] IN
           /\ srv' = [srv EXCEPT ![c.row] = card]
           /\ calls' = (calls \ {c}) \cup {[c EXCEPT !.at = "ok", !.card = card]}
        /\ made' = IF Act(c.act).creates THEN made + 1 ELSE made
     \/ /\ srv[c.row].st \notin DOMAIN Act(c.act).makes \/ Act(c.act).unseen
        /\ calls' = (calls \ {c}) \cup {[c EXCEPT !.at = "refused", !.card = srv[c.row]]}
        /\ UNCHANGED <<srv, made>>
     \/ /\ srv[c.row].st \in DOMAIN Act(c.act).makes /\ Act(c.act).parts # "none"
        /\ srv' = [srv EXCEPT ![c.row].rev = @ + 1]
        /\ calls' = (calls \ {c}) \cup {[c EXCEPT !.at = "partly", !.card = srv'[c.row]]}
        /\ UNCHANGED made
  /\ UNCHANGED <<pageVars, loadVars, held, asked, mine, acted, left, others, heard, lost>>

OthersChange ==
  /\ EventsLeft
  /\ others' = others + 1
  /\ \E r \in ShownRows, s \in Screen.start :
       srv' = [srv EXCEPT ![r] = [st |-> s, rev |-> @.rev + 1]]
  /\ UNCHANGED <<pageVars, loadVars, callVars, heard, made, lost>>

-----------------------------------------------------------------------------
(* Answers of calls. *)

Release(c) == held' = Give(Flag(c.act, c.row))
Closed(c) == IF asked # Nothing /\ asked.act = c.act THEN Nothing ELSE asked

\* The card is replaced by the one in the answer; what was saved is no edit any more.
Patch(c) ==
  /\ view' = [view EXCEPT !.rows[c.row] = c.card]
  /\ reads' = [j \in DOMAIN reads |-> [reads[j] EXCEPT !.late = TRUE]]
  /\ dirty' = (dirty /\ ~Act(c.act).save)
  /\ overtaken' = (overtaken \/ c.card.rev < mine[c.row])
  /\ UNCHANGED <<loading, error, loadedOnce>>

\* What follows an answer: the load is started before or after the flag is given back.
AndReload(c) ==
  IF Act(c.act).waits
  THEN StartLoad(query, Act(c.act).silent, Flag(c.act, c.row)) /\ held' = KeepFlags(held)
  ELSE /\ StartLoad(query, Act(c.act).silent, <<"none", Nothing>>)
       /\ held' = KeepFlags(Give(Flag(c.act, c.row)))

\* The newest change of a row that this tab was told it made.
Told(c) ==
  mine' = [mine EXCEPT ![c.row] = IF c.card.rev > @ /\ ~Act(c.act).unshown THEN c.card.rev ELSE @]

Slip_Done(c) ==
  /\ c.at = "ok"
  /\ calls' = calls \ {c}
  /\ Told(c)
  /\ asked' = Closed(c)
  /\ Release(c)
  /\ left' = (Act(c.act).after = "leave")
  /\ UNCHANGED <<loadVars, pageVars, worldVars, acted>>

Done(c) ==
  /\ c.at = "ok"
  /\ calls' = calls \ {c}
  /\ Told(c)
  /\ CASE Act(c.act).after = "reload" -> AndReload(c) /\ UNCHANGED left
       [] Act(c.act).after = "patch" -> Patch(c) /\ Release(c) /\ UNCHANGED left
       [] Act(c.act).after = "leave" -> left' = TRUE /\ Release(c) /\ UNCHANGED loadVars
       [] Act(c.act).after = "stay" -> Release(c) /\ UNCHANGED <<loadVars, left>>
  /\ asked' = KeepDialog(Closed(c))
  /\ UNCHANGED <<pageVars, worldVars, acted>>

\* Some controls load again after a failure: always, or when the refusal says that
\* the row was in another state.
LoadsAgain(c, refused) ==
  \/ Act(c.act).onFail = "reload"
  \/ Act(c.act).onFail = "resync" /\ refused /\ c.card.st \in Act(c.act).resyncs

\* The catch: an error is shown, in the page's place or beside what it shows.
Failed(c, refused) ==
  /\ calls' = calls \ {c}
  /\ IF LoadsAgain(c, refused)
     THEN AndReload(c)
     ELSE /\ error' = (error \/ Act(c.act).errorTo = "page")
          /\ UNCHANGED <<reads, view, loading, loadedOnce, overtaken, dirty>>
          /\ held' = KeepFlags(Give(Flag(c.act, c.row)))
  /\ asked' = KeepDialog(IF Act(c.act).closes THEN Closed(c) ELSE asked)
  /\ UNCHANGED <<pageVars, srv, others, heard, made, mine, acted, left>>

Refused(c) == c.at = "refused" /\ Failed(c, TRUE) /\ UNCHANGED lost

\* The first of several requests succeeded and a later one was refused: an error is
\* shown, and where the page has noted the progress it loads again.
DoneInPart(c) ==
  /\ c.at = "partly" /\ UNCHANGED lost
  /\ IF Act(c.act).parts = "stay" THEN Failed(c, TRUE)
     ELSE /\ calls' = calls \ {c}
          /\ Told(c)
          /\ AndReload(c)
          /\ asked' = KeepDialog(asked)
          /\ UNCHANGED <<pageVars, srv, others, heard, made, acted, left>>

\* The connection fails before the call arrives or before its answer does.
AnswerLost(c) == Failed(c, FALSE) /\ lost' = lost + 1

-----------------------------------------------------------------------------
\* A page that was left hears no more of its requests.
PageNext ==
  /\ ~left
  /\ \/ ChangeQuery \/ Retry \/ OrderEvent \/ OthersChange \/ Edit \/ Leave \/ Confirm \/ Cancel
     \/ \E name \in DOMAIN Screen.acts, r \in ShownRows : Press(name, r)
     \/ \E i \in DOMAIN reads : ServeRead(i) \/ Deliver(i) \/ ReadFails(i)
     \/ \E c \in calls : ServeCall(c) \/ Done(c) \/ Refused(c) \/ DoneInPart(c) \/ AnswerLost(c)

PageSpec == PageInit /\ [][PageNext]_allPageVars

-----------------------------------------------------------------------------
(* Properties. *)

\* When a page is at rest, without an error and without an answer that was
\* overtaken by a newer one, it shows what the filters ask for and every change
\* it was told it made: each control reads again after its answer, not before it.
SettledViewIsCurrent ==
  Quiet /\ ~error /\ ~overtaken /\ view # NoView =>
    /\ view.query = query
    /\ \A r \in ShownRows : view.rows[r].rev >= mine[r]

\* At rest a page that has read nothing says so, by an error or the skeleton,
\* instead of "nothing here yet".
NothingReadIsSaid ==
  Quiet /\ Screen.reads => view # NoView \/ error

\* A control that guards itself with a flag of the page or of its dialog never has
\* two calls out.  (One flag that holds a row does not: a press on another row takes
\* it over; a dialog or section that is unmounted during its call starts afresh; and a
\* control that does not look at the flag gives back one that another has taken.)
GuardedActsAreSingle ==
  \A c, d \in calls :
    /\ Act(c.act).lock = Act(d.act).lock
    /\ Act(c.act).lock \notin {"none", "row"}
    /\ ~Act(c.act).unmounts
    /\ \A name \in DOMAIN Screen.acts : Act(name).lock = Act(c.act).lock => ~Act(name).loose
    /\ Act(c.act).lock \notin Screen.local
    => c = d

\* A creation form creates one thing, unless the answer of an attempt was lost and
\* it was sent again: it leaves, or locks itself, with the first success.
CreatedOnce ==
  ~Screen.reads => made <= 1 + lost

\* The server refuses a control only because the row has changed since the page
\* read it, or for something the page does not show: the conditions under which the
\* panel offers a control are not wider than those under which the server takes it.  Known
\* to be wider are the steps of a cancelled order's delivery, which the delivery list goes
\* on to offer (delivery/page.tsx 226-230), and Delete of a category in use.
RefusedOnlyWhenStale ==
  [][\A c \in calls : c.at = "out" =>
       \A d \in calls' : (d.at = "refused" /\ d.id = c.id) =>
         srv[c.row].rev # c.saw.rev \/ Act(c.act).unseen \/ c.saw.st \in Act(c.act).vain]_allPageVars

\* What is typed into a form while nothing is out stays there until another control is
\* pressed: no load that the page does by itself (its first one, a retry, one after an event)
\* comes to fill the form again.  (A control that is pressed takes it, refused or not: the
\* load that follows brings the form anew, as on a category's page after a restore, a move
\* or a removal that was refused, categories/[id]/page.tsx 171-176, 200-209, 246-251.)
RestingEditsStay ==
  [][dirty /\ ~dirty' => acted > typed]_allPageVars

\* What components/FulfillmentActions.tsx:68-75 says of a step that was refused
\* because the order has moved on: the page is read again.  The code goes by the
\* wording of the refusal, and the one of a warehouse step is another.
StaleRefusalsResync ==
  [][\A c \in calls \ calls' :
       c.at = "refused" /\ lost' = lost /\ c.card.rev # c.saw.rev /\ Act(c.act).onFail = "resync"
       => Len(reads') > Len(reads)]_allPageVars

\* What promotions/[id]/page.tsx:160 says of the carousel's controls: they leave the
\* form alone.  The load that follows them fills it anew.
SideActsLeaveTheForm ==
  [][dirty /\ ~dirty' =>
       \E name \in DOMAIN Screen.acts, i \in DOMAIN reads :
         Act(name).save /\ reads[i].frees = Flag(name, FirstRow)]_allPageVars
=============================================================================
