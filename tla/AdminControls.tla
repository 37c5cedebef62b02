--------------------------- MODULE AdminControls ---------------------------
(***************************************************************************)
(* The vocabulary in which AdminLists and AdminDetails describe the pages  *)
(* of the admin panel.  A page is a record: when it reads and what it      *)
(* shows meanwhile, which controls it offers for a row in which state      *)
(* (`offers'), and what each of them does (`acts').  AdminPages says what  *)
(* such a page goes through.  The panel writes the same few patterns out   *)
(* in every page; each is named here once.                                 *)
(***************************************************************************)
EXTENDS TLC

\* What a server makes of a row: the states it takes, and what becomes of them.
To(S, t) == [s \in S |-> t]
Same(S) == [s \in S |-> s]

\* A control.  lock: the flag it sets while its call is out ("none", a flag of the
\* page, or "row": one flag that remembers the row it was set for); blocked: other
\* flags that disable it; asks: a dialog first; closes: the dialog closes on
\* failure as well; closable: it may be closed while the call is out; unmounts: it
\* forgets its flag then; fresh: it opens with an answer of its own; loose: not
\* disabled by its own flag; save: enabled by edits; parts: of several requests, after a
\* refused one what the others did is loaded ("reload") or not ("stay"); asRead: sends
\* back the state it read; unseen: may be refused for what the page does not show; vain: the
\* states in which it is offered though the server always refuses it then;
\* unshown: it changes nothing the page shows; after: "reload", "patch" (the answer is
\* shown), "leave" or "stay"; waits: the flag is held until that reload has ended;
\* silent: it shows no skeleton; onFail: "stay", "reload", or "resync" when the refusal
\* names a state in `resyncs'; errorTo: an error "banner", or the "page" gives way to it.
Button ==
  [ lock |-> "none", blocked |-> {}, asks |-> FALSE, closes |-> FALSE, closable |-> FALSE,
    unmounts |-> FALSE, fresh |-> FALSE, loose |-> FALSE, parts |-> "none",
    save |-> FALSE, asRead |-> FALSE, creates |-> FALSE, unseen |-> FALSE, vain |-> {},
    unshown |-> FALSE,
    after |-> "reload", waits |-> FALSE, silent |-> FALSE,
    onFail |-> "stay", resyncs |-> {}, errorTo |-> "banner" ]

\* try { await call; await load() } finally { flag off }
Awaited(flag) == [lock |-> flag, waits |-> TRUE] @@ Button

\* The same behind a ConfirmDialog, whose buttons are disabled meanwhile.
Confirmed(flag) == [asks |-> TRUE] @@ Awaited(flag)

\* await call; onChanged(): the flag goes when the load has only started.
Notifies(flag) == [lock |-> flag] @@ Button

\* A dialog that is unmounted when it closes, which it does at any time.
OwnDialog(flag) == [asks |-> TRUE, closable |-> TRUE, unmounts |-> TRUE] @@ Notifies(flag)

\* One that stays mounted while it is closed: its flag survives.
KeptDialog(flag) == [asks |-> TRUE, closable |-> TRUE] @@ Notifies(flag)

\* A list that blanks for every load; one that does so for the first one only;
\* a page about one thing, of which only the first load blanks it.
Blanks ==
  [ many |-> TRUE, reads |-> TRUE, filters |-> TRUE, skeleton |-> "each", hides |-> TRUE,
    clears |-> TRUE, live |-> FALSE, form |-> FALSE, local |-> {} ]
StaysInPlace == [skeleton |-> "first"] @@ Blanks
OneThing == [many |-> FALSE, filters |-> FALSE] @@ StaysInPlace

\* A page that reads nothing and creates something.
CreationForm == [reads |-> FALSE, skeleton |-> "never", form |-> TRUE] @@ OneThing

Page(load, offers, acts) ==
  load @@ [offers |-> offers, start |-> DOMAIN offers \ {"gone"}, acts |-> acts]

NoActs == [a \in {} |-> Button]
Plain == [any |-> {}]
=============================================================================
