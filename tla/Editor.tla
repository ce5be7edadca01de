------------------------------- MODULE Editor -------------------------------
(***************************************************************************)
(* The contest editor in one tab, composed with the server of module       *)
(* Hosting: the form, the two autosaves of useAutosave, the cached view    *)
(* they refresh, and the buttons that publish and delete.                  *)
(*                                                                         *)
(* The page can be left and opened again; saves of an earlier visit that   *)
(* were sent, or queued behind one that was, go on without it.             *)
(***************************************************************************)
EXTENDS Hosting, FiniteSets

CONSTANTS
    TypedTitles,    \* what the title's input can hold
    SentTitle,      \* what is sent of it: trimmed, and nothing of a too-short one
    TypedNumbers,   \* what the capacity's input can hold
    DefaultLength, DefaultCapacity, \* what the card shows for null
    Bodies,         \* bound: what another page sends to updateDetails
    MaxVisits,      \* bound: how often the page is opened
    Budgets         \* bounds: visits, edits, questions, requests elsewhere, failures,
                    \* the fields of the Details card that are edited, the draft

Fields == {"details", "questions"}
Visits == 1 .. MaxVisits
Saves == Visits \X Fields
Act == <<0, "act">>             \* the request of the publish and delete buttons
Elsewhere == <<0, "elsewhere">> \* a request from another tab

ASSUME CallsAssumption == Saves \cup {Act, Elsewhere} \subseteq Calls
\* What the inputs of the Details card can hold; a start is told apart by its date, and
\* its time may be missing.
CardValues == [title |-> TypedTitles, description |-> Descriptions,
               date |-> Starts \cup {None}, timed |-> BOOLEAN, length |-> Lengths,
               capacityOn |-> BOOLEAN, capacity |-> TypedNumbers]
Cards == [title : TypedTitles, description : Descriptions, date : Starts \cup {None},
          timed : BOOLEAN, length : Lengths, capacityOn : BOOLEAN, capacity : TypedNumbers]

ASSUME TypingAssumption ==
    /\ Titles \subseteq TypedTitles
    /\ SentTitle \in [TypedTitles -> Titles \cup {Unsent}]
    /\ \A t \in Titles : SentTitle[t] = t
    /\ TypedNumbers \subseteq Int /\ Capacities \cup {DefaultCapacity} \subseteq TypedNumbers
    /\ DefaultLength \in Lengths
ASSUME BudgetsAssumption ==
    /\ MaxVisits \in Nat /\ Bodies \subseteq Inputs
    /\ Budgets \subseteq [visits : 0 .. MaxVisits, edits : Nat, length : Nat,
                         others : Nat, fails : Nat, cards : SUBSET DOMAIN CardValues,
                         draft : Drafts]

VARIABLES
    page,       \* the visit of the mounted editor, 0 for none, and its last
    view,       \* the query ['contest', id, 'editor'], kept when the page is left
    form,       \* what each card of the editor holds
    hook,       \* each useAutosave: lastSaved, the state it shows, its timer
    chain,      \* per save: the values it has to send, the first one on its way
    act,        \* the button pressed: publish or delete, and from which visit
    clean,      \* history: the visit began from what the server had, nothing under way
    dropped,    \* history: the hook let go of an edit, unsent
    left        \* bounds: what is left of the budget

tab == <<page, view, form, hook, chain, act, clean, dropped, left>>
vars == <<hosting, tab>>

-----------------------------------------------------------------------------

Fresh == [status |-> contest.status, details |-> contest.details,
          questions |-> [i \in DOMAIN Stored |-> Stored[i]],
          ok |-> ChecksPass(contest.details, Stored, clock)]

\* The list of a view: the documents in order, whatever orders they have.
ListOf(v) ==
    LET orders == DOMAIN v.questions
    IN [i \in 1 .. Cardinality(orders) |->
           v.questions[CHOOSE o \in orders : Cardinality({p \in orders : p <= o}) = i]]

Or(value, default) == IF value = None THEN default ELSE value

\* formFrom: a length and a capacity that are null show as the defaults.
CardOf(d) ==
    [title |-> d.title, description |-> d.description,
     date |-> d.start, timed |-> d.start # None,
     length |-> Or(d.length, DefaultLength),
     capacityOn |-> d.capacity # None, capacity |-> Or(d.capacity, DefaultCapacity)]

\* Each card starts from the view; the list is as it is.
FormOf(v) == [details |-> CardOf(v.details), questions |-> ListOf(v)]

Clamped(n) == IF n < 1 THEN 1 ELSE IF n > MaxCapacity THEN MaxCapacity ELSE n

\* detailsInput: no start unless it has both a date and a time.
DetailsInput(card) ==
    [title |-> SentTitle[card.title], description |-> card.description,
     start |-> IF card.timed THEN card.date ELSE None,
     length |-> card.length,
     capacity |-> IF card.capacityOn THEN Clamped(card.capacity) ELSE None]

\* The value each useAutosave gets.
InputOf(f, held) == IF f = "details" THEN DetailsInput(held) ELSE held

\* editable: a draft, or published and before the start that the view knows.
PageEditable ==
    \/ view.status = "draft"
    \/ view.status = "published" /\ view.details.start # None /\ clock < view.details.start

NoView == [status |-> "none"]
NewHook(held) == [f \in Fields |-> [lastSaved |-> InputOf(f, held[f]), shown |-> "saved",
                                    timer |-> FALSE]]
Mounted == page.open # 0

Quiet(f) == \A v \in Visits : chain[v][f] = <<>>

EditorInit ==
    /\ Init
    /\ page = [open |-> 0, last |-> 0]
    /\ view = NoView
    /\ form = FormOf(Fresh)
    /\ hook = NewHook(form)
    /\ chain = [v \in Visits |-> [f \in Fields |-> <<>>]]
    /\ act = [button |-> "none"]
    /\ clean = [f \in Fields |-> FALSE]
    /\ dropped = [f \in Fields |-> FALSE]
    /\ left \in Budgets /\ contest.details = left.draft

-----------------------------------------------------------------------------
(* The page *)

\* A cached view is shown at once, and the form starts from it.
Open ==
    /\ ~Mounted /\ page.last < left.visits
    /\ contest.status # "deleted"
    /\ page' = [open |-> page.last + 1, last |-> page.last + 1]
    /\ view' = IF view = NoView THEN Fresh ELSE view
    /\ form' = FormOf(view')
    /\ hook' = NewHook(form')
    /\ clean' = [f \in Fields |-> /\ form'[f] = FormOf(Fresh)[f] /\ Quiet(f)
                                /\ \A k \in Calls : At(k, "idle")]
    /\ dropped' = [f \in Fields |-> FALSE]
    /\ UNCHANGED <<hosting, chain, act, left>>

\* The query fetches again: the view is stale, or the connection is back.  The form
\* is not touched.
Refetch ==
    /\ Mounted /\ contest.status # "deleted"
    /\ view' = Fresh
    /\ UNCHANGED <<hosting, page, form, hook, chain, act, clean, dropped, left>>

Stopped == [f \in Fields |-> [hook[f] EXCEPT !.timer = FALSE]]

\* Unmounting clears the timers; the promises go on.
Leave ==
    /\ Mounted
    /\ page' = [page EXCEPT !.open = 0]
    /\ hook' = Stopped
    /\ UNCHANGED <<hosting, view, form, chain, act, clean, dropped, left>>

\* The tab is loaded again, or the cache forgets the view: what was queued is lost,
\* what was sent is not.
Reload ==
    /\ ~Mounted /\ view # NoView
    /\ view' = NoView
    /\ chain' = [v \in Visits |-> [f \in Fields |->
                    IF chain[v][f] = <<>> THEN <<>> ELSE <<Head(chain[v][f])>>]]
    /\ UNCHANGED <<hosting, page, form, hook, act, clean, dropped, left>>

\* An edit.  What it changes in the value to be sent makes the effect clear the timer
\* and start another; a value that was saved last is not sent, and the state stays
\* what it was.
Edit(f, held) ==
    LET value == InputOf(f, held)
        same == value = InputOf(f, form[f])
        back == value = hook[f].lastSaved
    IN
    /\ Mounted /\ PageEditable /\ left.edits > 0
    /\ held # form[f]
    /\ form' = [form EXCEPT ![f] = held]
    /\ hook' = IF same THEN hook
               ELSE [hook EXCEPT ![f] = IF back THEN [@ EXCEPT !.timer = FALSE]
                                        ELSE [@ EXCEPT !.timer = TRUE, !.shown = "pending"]]
    /\ dropped' = [dropped EXCEPT ![f] = @ \/ (~same /\ back)]
    /\ left' = [left EXCEPT !.edits = @ - 1]
    /\ UNCHANGED <<hosting, page, view, chain, act, clean>>

\* Each edit of the list is one of add, update, move, duplicate and delete.
Without(list, i) == SubSeq(list, 1, i - 1) \o SubSeq(list, i + 1, Len(list))
Longer(list) == Len(list) < MaxQuestions /\ Len(list) < left.length
Add(list) == {Append(list, q) : q \in {q \in Questions \ Complete : Longer(list)}}
Update(list) == {[list EXCEPT ![i] = q] : i \in DOMAIN list, q \in Questions}
Move(list) == {[list EXCEPT ![i] = list[i + 1], ![i + 1] = list[i]] : i \in 1 .. Len(list) - 1}
Duplicate(list) ==
    {SubSeq(list, 1, i) \o SubSeq(list, i, Len(list)) : i \in {i \in DOMAIN list : Longer(list)}}
Delete(list) == {Without(list, i) : i \in DOMAIN list}

\* One input of the Details card at a time; the capacity's is there when it is on.
EditDetails ==
    LET card == form["details"]
    IN \E x \in left.cards :
          /\ x = "capacity" => card.capacityOn
          /\ \E value \in CardValues[x] : Edit("details", [card EXCEPT ![x] = value])
EditQuestions ==
    LET list == form["questions"]
    IN \E next \in Add(list) \cup Update(list) \cup Move(list) \cup Duplicate(list) \cup Delete(list) :
          Edit("questions", next)

\* The contest has begun: the effect runs without a timer.
Disabled(f) ==
    /\ Mounted /\ ~PageEditable /\ hook[f].timer
    /\ hook' = [hook EXCEPT ![f].timer = FALSE]
    /\ dropped' = [dropped EXCEPT ![f] = TRUE]
    /\ UNCHANGED <<hosting, page, view, form, chain, act, clean, left>>

-----------------------------------------------------------------------------
(* Saving *)

\* The timer fires: the value joins the promise chain, and is sent at once if
\* nothing is before it.
Fire(f) ==
    /\ Mounted /\ hook[f].timer
    /\ chain' = [chain EXCEPT ![page.open][f] = Append(@, InputOf(f, form[f]))]
    /\ hook' = [hook EXCEPT ![f] =
          [@ EXCEPT !.timer = FALSE,
                    !.shown = IF chain[page.open][f] = <<>> THEN "saving" ELSE hook[f].shown]]
    /\ UNCHANGED <<hosting, page, view, form, act, clean, dropped, left>>

\* The request reaches the server.
Arrive(v, f) ==
    /\ chain[v][f] # <<>> /\ At(<<v, f>>, "idle")
    /\ IF f = "details" THEN UpdateBegin(<<v, f>>, Head(chain[v][f]))
                        ELSE SaveBegin(<<v, f>>, Head(chain[v][f]))
    /\ UNCHANGED tab

\* Mutant: whatever was answered is remembered as saved.
SettleAnyway(v, f, heard) ==
    LET k == <<v, f>>
        rest == Tail(chain[v][f])
    IN
    /\ chain[v][f] # <<>>
    /\ Answered(k)
    /\ heard /\ UNCHANGED left
    /\ chain' = [chain EXCEPT ![v][f] = rest]
    /\ view' = IF Mounted /\ contest.status # "deleted" THEN Fresh ELSE view
    /\ hook' = IF page.open # v THEN hook
               ELSE [hook EXCEPT ![f] = [@ EXCEPT !.lastSaved = Head(chain[v][f]),
                                                  !.shown = IF rest # <<>> THEN "saving" ELSE "saved"]]
    /\ UNCHANGED <<page, form, act, clean, dropped>>

\* The answer arrives, or is lost.  A success refreshes the view before the state
\* says saved; then the next value of the chain is sent.
Settle(v, f, heard) ==
    LET k == <<v, f>>
        saved == heard /\ At(k, "done")
        rest == Tail(chain[v][f])
    IN
    /\ chain[v][f] # <<>>
    /\ Answered(k)
    /\ heard \/ left.fails > 0
    /\ left' = IF heard THEN left ELSE [left EXCEPT !.fails = @ - 1]
    /\ chain' = [chain EXCEPT ![v][f] = rest]
    /\ view' = IF saved /\ Mounted /\ contest.status # "deleted" THEN Fresh ELSE view
    /\ hook' = IF page.open # v THEN hook
               ELSE [hook EXCEPT ![f] =
                       [@ EXCEPT !.lastSaved = IF saved THEN Head(chain[v][f]) ELSE hook[f].lastSaved,
                                 !.shown = IF rest # <<>> THEN "saving"
                                           ELSE IF saved THEN "saved" ELSE "failed"]]
    /\ UNCHANGED <<page, form, act, clean, dropped>>

-----------------------------------------------------------------------------
(* Publishing and deleting *)

ShownSaved == \A f \in Fields : hook[f].shown = "saved"

\* ready: every check of the view passes, and both cards say saved.
PublishClick ==
    /\ Mounted /\ view.status = "draft" /\ view.ok /\ ShownSaved
    /\ act.button = "none"
    /\ act' = [button |-> "publish", visit |-> page.open]
    /\ UNCHANGED <<hosting, page, view, form, hook, chain, clean, dropped, left>>

DeleteClick ==
    /\ Mounted /\ view.status = "draft"
    /\ act.button = "none"
    /\ act' = [button |-> "delete", visit |-> page.open]
    /\ UNCHANGED <<hosting, page, view, form, hook, chain, clean, dropped, left>>

ActArrives ==
    /\ act.button # "none" /\ At(Act, "idle")
    /\ IF act.button = "publish" THEN PublishBegin(Act) ELSE DeleteBegin(Act)
    /\ UNCHANGED tab

\* Success goes to another page; publish has made the view stale, delete leaves it.
ActSettles ==
    /\ act.button # "none"
    /\ Answered(Act)
    /\ act' = [button |-> "none"]
    /\ IF At(Act, "done") /\ page.open = act.visit
         THEN page' = [page EXCEPT !.open = 0] /\ hook' = Stopped
         ELSE UNCHANGED <<page, hook>>
    /\ UNCHANGED <<view, form, chain, clean, dropped, left>>

-----------------------------------------------------------------------------

\* Another tab of the host, or an admin's.
Other ==
    /\ \/ Request(Elsewhere, Bodies) /\ left.others > 0 /\ left' = [left EXCEPT !.others = @ - 1]
       \/ Answered(Elsewhere) /\ UNCHANGED left
    /\ clean' = [f \in Fields |-> FALSE]
    /\ UNCHANGED <<page, view, form, hook, chain, act, dropped>>

Dies(k) ==
    /\ left.fails > 0 /\ Fail(k)
    /\ left' = [left EXCEPT !.fails = @ - 1]
    /\ UNCHANGED <<page, view, form, hook, chain, act, clean, dropped>>

EditorNext ==
    \/ Open \/ Refetch \/ Leave \/ Reload
    \/ EditDetails \/ EditQuestions
    \/ \E f \in Fields : Disabled(f) \/ Fire(f)
    \/ \E v \in Visits, f \in Fields :
          Arrive(v, f) \/ \E heard \in BOOLEAN : Settle(v, f, heard)
    \/ PublishClick \/ DeleteClick \/ ActArrives \/ ActSettles
    \/ Other
    \/ \E k \in Calls : (Advance(k) /\ UNCHANGED tab) \/ Dies(k)
    \/ Tick /\ UNCHANGED tab

EditorSpec == EditorInit /\ [][EditorNext]_vars

-----------------------------------------------------------------------------

\* A card shows 60 minutes for the null that a draft begins with.
Shown(d) == [d EXCEPT !.length = Or(@, DefaultLength)]

\* To send the value again would change nothing of what the server has.
Holds(d, value) == Merged(Shown(d), value) = Shown(d)
OnServer(f, value) ==
    IF f = "details" THEN Holds(contest.details, value) ELSE ListOf(Fresh) = value

\* Once nothing of a card is to be sent and it says saved, what was saved last is on
\* the server, and it is what would be sent of what the card shows now: unless the
\* visit began from a stale view, another tab edits too, the host went back to the
\* value saved last while another was on its way, or the contest began (useAutosave.ts
\* and ContestEditor.tsx; "saves `value` a moment after it stops changing" makes no
\* exception).  A card also shows what is never sent: a title that is too short, a
\* date without a time, a capacity beyond the limits; and, until the first save of its
\* details, the length of a new draft, which the server does not have (Shown).
RestMeansSaved ==
    contest.status # "deleted" => \A f \in Fields :
       Mounted /\ clean[f] /\ Quiet(f) /\ ~hook[f].timer /\ hook[f].shown = "saved" =>
          /\ OnServer(f, hook[f].lastSaved)
          /\ dropped[f] \/ InputOf(f, form[f]) = hook[f].lastSaved

\* The promise of updateDetails without exception, "A published contest must stay
\* publishable after every edit"; a save sent before the publish and written after
\* it breaks it (contest-hosting.service.ts, publish and saveQuestions).
AlwaysPublishable ==
    contest.status = "published" =>
       /\ Sound(contest.details) /\ contest.details.start # None
       /\ DOMAIN Stored # {}
       /\ \A o \in DOMAIN Stored : Stored[o] \in Complete

=============================================================================
