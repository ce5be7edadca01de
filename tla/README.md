# InterviewHub, in TLA+

InterviewHub (NestJS, MongoDB through Mongoose, Redis and Socket.IO behind a
React front end) lets an interviewer host timed quiz contests and interview
rooms with a chat.  Several identical servers run against one database.  A
request is a coroutine that makes a series of database calls; each call is
atomic for ONE document, nothing is atomic across two, and the code holds no
lock and opens no transaction.  In the browser each tab keeps caches, timers,
queues of saves and a socket, and goes on from what it read some time ago.
Everything hard in the program follows from these two facts, and that is how
the modules here are written: a request is a record of what it has read, one
action per database call; a page is a record of what it was told; and any two
of them interleave between calls, answers and broadcasts.

`PROJECT.json` lists the runs, the mutants that show each property can fail,
the source lines of every definition (`map`), the hazards and the theorems.
`tlc -config X.cfg M` repeats a run, `tlapm M_proof.tla` a proof.

## 1. Inventory

Paths are under `src/src/` (server) and `src/frontend/src/` (browser).

| Component | State | Operations | Hard behaviour | What makes it correct |
|---|---|---|---|---|
| Entering contests, `contests/contest-entrant.service.ts` | `contest.entrantCount`, `startedCount`, `submittedCount`; one entry document per user and contest | `join`, `leave`, `start` | two documents per operation, checks on what was read earlier, a failure between writes | the count is accounted for; never more entrants than places; whoever saw the questions stays |
| Free slots, `contests/contest-hosting.service.ts` | one `HostUsage` row per host and month | `publish`, `cancel`, `deleteDraft` | the row and the contest are two documents; an upsert that races another | the monthly limit; slots returned exactly once |
| Hosting, `contests/contest-hosting.service.ts`, `contests/publish-checks.ts` | contest and question documents | `createDraft`, `updateDetails`, `saveQuestions`, `publish`, `cancel`, `deleteDraft` | check then write; questions replaced slot by slot; requests that stop half way | a published contest passes its checks; the count is that of the questions; nothing is left of a deleted draft |
| The editor, `pages/ContestEditor.tsx`, `hooks/useAutosave.ts` | the form, `lastSaved`, a timer and a chain of saves per card, the cached view | edit, save, publish, delete, leave, return | an edit while a save is on its way, lost answers, a stale view, cards changed in any order | what it calls saved is saved; every card is a question |
| Answering, `contest-entrant.service.ts` and `pages/ContestWorkspace.tsx` | `entry.answers`, `submittedAt`; on each screen the shown answers, a queue of saves per question, one status | pick, clear, retry, `saveAnswer`, `submit`, leave, return | several screens, saves in flight at the hand-in and at the end, lost requests, a cached first response | one answer to a question; final once handed in; what is shown is saved |
| Finalizing, `contests/finalize/` | `lockedUntil`, `finalizedAt`, results in the entries, counts per question, activity events | a job every minute on every server: claim, scan, three batches of writes, close | leases that run out under a slow run, repeated and overlapping runs, late writes of entrants | one owner; results are those of one undisturbed run; every contest gets closed |
| Scoring, `contests/finalize/scoring.ts` | none | `isCorrect`, `scoreAnswers`, `timeUsedMs`, `rank` | ties, empty answers and keys, one entrant, late joiners | the reference definitions in `MCPages` |
| Results, `contests.service.ts`, `pages/ContestResults.tsx` | none once finalized | the board, its top, its pages by offset, the viewer's row, the review | ties across a cut; the review counts by other code than the score | each row once; the review adds up |
| Live updates, `contests/contests.gateway.ts`, `hooks/useContestSocket.ts` | one timer per contest and server, channels; the tab's socket, queries and polls | `countsChanged`, `sendCounts`, `contest:watch`, `finalized`; poll, fetch, visit | reads that overlap, a watch that reads before it joins, servers that stop, sockets that give up | watchers get the last counts; results are shown in the end |
| Offers: `lib/contest-phase.ts`, the pages that list and show contests | phases worked out by each page, the entry, the role | what each page offers, what each request accepts | a page stays open while the clock runs; four functions work out the phase | nothing offered that is refused, nothing accepted that no page offers |
| Lists, `common/pagination/`, `contests.service.ts`, `rooms.service.ts` | pages by a keyset bookmark | load more, fetch again | dates that repeat, a list that changes between pages | no item twice, none skipped that was there throughout |
| Sessions, `auth/`, `lib/api.ts`, `context/AuthContext.tsx` | session documents with rotating token hashes; the browser's cookie; each tab's access token | register and log in, refresh, log out, reuse alarm | tabs that share one cookie, answers that get lost, a sign-out during a refresh | a token is swapped once; refreshing keeps a browser signed in; other devices are left alone |
| Rooms, `rooms/rooms.service.ts`; `pages/Room.tsx`, `components/dashboard/RoomsTable.tsx`, `pages/JoinRoom.tsx` | room document: state, participants, `announcedUserIds`, pinned question; three cached queries | `create`, `joinByCode`, `setState`, `markAnnounced`, pin, unpin | saves of a document read earlier; caches that are told of some changes | participants stay; announced once; a page shows no older state than it was told |
| Chat, `chat/`, `redis/`, `hooks/useChatSocket.ts` | message documents, socket channels on every server, each page's list, its pin, who is typing | `room:join`, `chat:send`, `chat:typing`, pin, unpin | history against broadcasts, reconnects, handlers that outlive their socket, timers and lost events | no message twice, none missing; the pin is the room's; "is typing" ends |
| Users, `users/` | user document, avatar files | register, upload an avatar | two uploads at once | no stored avatar without its file |
| Socket limits, `common/ws`, `common/throttle` | open sockets per user, on each server | connect, disconnect | a count that is not given back | the count is the open sockets |
| Guards, configuration, health, logging | none | | | |

How they interact: entering, answering, hosting and finalizing share the
contest and entry documents and nothing else (`finalizedAt`, `status` and
`submittedAt` in the filters of the writes are their only synchronisation);
each calls the contests gateway, which reads the counts again; finalizing
writes the activity events; rooms are written over HTTP and by the chat
gateway, which shares the room with the rooms service; the browser's tabs share
the session cookie and, where it exists, `navigator.locks`; servers share
MongoDB and, for broadcasts, Redis; the pages of one tab share one cache of
queries, and learn of changes by answers, broadcasts, polls and time.

## 2. Modules

| Module | Models | Theorems in |
|---|---|---|
| `ContestPlaces` | `join`, `leave`, `start`, `updateDetails`, `cancel` around the places of one contest | `ContestPlaces_proof` |
| `FreeSlots` | `createDraft`, `publish`, `cancel`, `deleteDraft` around the monthly row | `FreeSlots_proof` |
| `Hosting` | `updateDetails`, `saveQuestions`, `publish`, `deleteDraft` of one contest, call by call | `Hosting_proof` |
| `Editor` | the editor's form, its two autosaves, its cached view and its buttons, composed with `Hosting` | `Hosting_proof` |
| `QuestionForm` | one question card, beside the limits of a save and the checks of a publish | `Pages_proof` |
| `AnswerSheet` | the visits of the workspace and `saveAnswer`, `submit` | `AnswerSheet_proof` |
| `OneFinalizer` | what the lease promises (abstract) | `Finalize_proof` |
| `Finalize` | the finalize job against entrants' requests and `cancel`; uses `Scoring` | `Finalize_proof` |
| `Scoring`, `Results` | the pure algorithms of `scoring.ts`, and of the results page | `Pages_proof` |
| `ContestPage` | live counts and the end of scoring on every server; one tab with its socket and polls | `Pages_proof` |
| `Offers` | what every page offers with a contest, beside what the server accepts | `Pages_proof` |
| `Paging` | a list read page by page while it changes | `Pages_proof` |
| `Sessions` | refresh tokens, the browser's tabs, sign-in and sign-out | `Sessions_proof` |
| `RoomChat` | one room, its chat and the list of messages of its pages | `RoomChat_proof` |
| `RoomPin` | the pinned question and a page that shows it | `RoomChat_proof` |
| `RoomPages` | the state of a room in three cached queries, and what the pages offer | `RoomChat_proof` |
| `Typing` | the composer, the relayed events and another user's page | |

`MCX` gives the constants of `X` values for TLC.  `MCPages` checks `Results`,
`QuestionForm`, `Offers`, `Paging`, `ContestPage` and `Typing`, one in each
behaviour, as they share no state that changes in two of them; `MCRoomChat`
does so with `RoomChat`, `RoomPin` and `RoomPages`.  `MCEditor` checks `Hosting`
as the editor and another tab drive it.  Operators whose names say what is
wrong with them and whose comment begins with "Mutant" are the broken forms
used to show that a property can fail.

### How the state and the actions correspond to the code

**ContestPlaces.**  `contest` and `entry` are the documents; `req[k]` is the
request of call `k`: its step, the `now` it sampled as its default argument and
what it read.  `JoinBegin` is the read of `join`, `JoinTake` the conditional
`$inc`, `JoinCreate` the create with its duplicate-key branch, `Uncount` is
`changeCount`.  `LeaveBegin` and `LeaveDelete`, `StartBegin`, `StartFind` and
`StartMark`, `EditBegin` and `EditCommit`, `CancelBegin`, `CancelEarly` and
`CancelLate` follow the calls of theirs.  `Fail` ends a request between two
writes (an exception, a crash); `leaked` counts the places that this loses.
`Close` is finalizing, seen from here.  `startedCount` is left to `Finalize`.

**FreeSlots.**  `published[h][m]` is the `HostUsage` row, `None` where there is
no row.  `TakeUpsert`, `TakeInsert` and `TakeRetry` are the three outcomes of
`takeFreeSlot`: an update of the row, an upsert that another may beat to the
unique index, and the second try.  `PublishCommit` and `GiveSlotBack` follow.
`CreateDraft`, `UpdateDetails` and `DeleteDraft` change the contest under the
publish; the checks of `publishChecks` are those of the dates.
`EntrantsChange` stands for whether someone is entered.

**Hosting.**  `contest`, `slot[o]` (the question document of order `o`) and
`call[k]`.  `SaveBegin` is the read and check of `saveQuestions`, `SaveWrite`
one update of its `bulkWrite`, `SaveTrim` the `deleteMany`, `SaveCount` the
write of the count.  `UpdateBegin`, `UpdateCheck`, `UpdateSet`; `PublishBegin`,
`PublishJudge`, `PublishCommit`; `DeleteBegin`, `DeleteQuestions` are the calls
of theirs.  A question is known by whether the checks accept it; details are
title, description, start, length and capacity, null where a draft has none.
A body of `updateDetails` may leave out any of them (`Unsent`), and `Merged` is
the document it makes of what was read.  `raced` and `torn` are history: what the properties
except is written there at the step where it happens.

**Editor** EXTENDS `Hosting`: every step of the server is a step of that
module, and the tab's steps begin its requests.  `form` is what the cards hold,
which is neither what the server has nor what is sent: `CardOf` is `formFrom`,
where a null length and capacity show as their defaults and a start is a date
and a time; `DetailsInput` trims the title or leaves out one that is too short,
clamps the capacity, and sends a start only with both its halves.  An input that
changes nothing of that value (a space after the title, a capacity while it is
off) starts no timer.  `hook[f]` a `useAutosave` (its `lastSaved`, its shown state, its timer),
`chain[v][f]` the promise chain of visit `v`, `view` the query
`['contest', id, 'editor']`.  `Fire` is the timer, `Settle` the answer (or its
loss), `Leave`, `Open` and `Reload` unmount, mount and forget.

**QuestionForm.**  The handlers of a card as functions on the question;
`Stored` is the normalization of `saveQuestions`, `PassesPublishChecks` the
checks about questions, `Takeable` what `saveAnswer` accepts of an entrant.

**AnswerSheet.**  `sheet` is `entry.answers`.  A `screen` is one visit of the
page: the answers it shows, the response it began from (`got`), for each
question the `line` of saves not yet settled (`chains` in the page), the
status, and its submit.  `Check` is the read of `saveAnswer`, `PullWrite`,
`SetWrite` and `PushWrite` its three writes with their filters; `Settle` is
what the answer does to the page.  `Reopen` is leaving and coming back: the
query has `staleTime: Infinity`, so the new visit starts from the old response
while the old visit's queue still runs; `missed` remembers what that hides.
`waits` and `claim` belong to a submit: the saves made before it, and the
answers that were shown or picked since.

**Finalize.**  `run[s]` is one server's job: `Claim` is the conditional update
that sets `lockedUntil`, which is also the token the `Close` filters on;
`Scan` reads one entry of the cursor, `WriteResult`, `WriteTally` and
`WriteEvent` are the updates of the bulk writes, each repeatable; `Again` is
the loop of `finalizeDue`, which keeps its first `now`.  `call[e]` is an
entrant's request that may still be in flight after the end.

**ContestPage.**  `timer`, `owed`, `reading` and `sends` follow
`countsChanged` and `sendCounts` on each server; counts are told apart by how
many changes they include.  `WatchReads` and `WatchJoins` are `onWatch`.  In the
tab, `data[p]` is the query of a page, `want` the pages that fetch, `failed` those
whose query ended in an error other than the 409 of results that are not out,
`sock` the socket of `useContestSocket` and `live` its counts.  `FetchFails` is a
fetch that fails and fails again when it is retried; what refetch interval and
socket the page has left then is what `WantsPoll` and `Watches` make of the data
that stays.  `Retry` is the button of the error state.  `Stop` is a server that
goes down with its timers and sockets; `GiveUp` the end of the five attempts to
reconnect.

**Offers.**  `held` is the contest, `mine` the user's entry; `read` is when the
pages were read.  Each page's offers are an operator (`BrowseOffers`,
`DetailsOffers`, `EditorOffers`, ...) over the phase that page works out
(`LivePhase`, `PhaseOfContest`, `EditorPhase`); `Accepts` is what the three
contest services and their guards let through at this moment.

**Paging.**  `PageAfter` is one request of a list (`pageQuery`, `browse`), which
reads one document more than a page has; the order of `find` is a place for each
document, told by how many come before it (`InOrder`).  `LoadMore` and `Refetch`
are the infinite query, `Edit` whatever changes the list.  `moved` remembers what
changed since the shown pages began to be read.

**Scoring.**  `Sorted` is `Array.sort`, which is stable: an entry's place is told
by how many come before it.  `IsGroup` says which `[i, j)` the inner loop of
`rank` finds, and `Placed` what is pushed for a member of it, with a percentile
that is a pair of numerator and denominator.
`ScoreAnswers` is its loop, `after[i]` what the three variables hold after `i`
answers; `Reviewed` looks a question up as the `Map` of `results` does, where the
last answer would win.  `Board` puts a row where the number of those before it
says, and `Leaderboard` asks page after page, each by the offset in the cursor.

**Sessions.**  `sessions` is the collection; a token is a number, its hash the
same number.  `refresh[t]` goes through the browser's lock (`BeginRefresh`,
`SendRefresh`), `rotate` (`Rotate`, or `RotateMiss` and `ReuseCheck`),
`findById` (`ReadUser`), and the answer (`RefreshDone`, `RefreshRefused`, which
clears the cookie, or `RefreshLost`).  `RefreshFails` is any other error of the
server, for which the controller clears the cookie too.  `sign[t]` is a log-in or a log-out.  A
request that is answered with 401 begins a refresh and is sent again; it changes
nothing else, so it is the `BeginRefresh` of a tab that is in.

**RoomChat.**  `members[u]` is how often a user is in `participants`; a
message's id is its place in `messages`.  `EnterBegin` and `EnterSave` are
`joinByCode`, `SetStateBegin` and `SetStateSave` are `setState`; a connect of a
page starts the `room:join` handler (`JoinBegin`, `ReadHistory`, `EmitHistory`,
`MarkAnnounced`, `PostJoined`), and `transit` holds what was broadcast to a
page and has not reached its server.  `missed` is what a late history wiped.  A
handler that fails takes no more steps.

**RoomPin.**  `pinning[p]` is a `question:pin` or `question:unpin`: `PinBegin`
reads the room, `PinSave` writes what changed of it, `PinTell` broadcasts.  The
page's pin comes from the query (`RoomArrives`), from the acknowledgement of
`room:join` (`JoinAcks`) or from a broadcast (`PinArrives`).

**RoomPages.**  `cached` and `fetching` are the queries `['room', id]`, the
table's list and the active rooms of the sidebar; `asked[s]` a request of this
tab or of another user.  `WithAnswer` and `Invalidated` are what `onSuccess` of
the two pages does to the cache.  `RoomOffers` and `RoomRow` are the buttons.

**Typing.**  `composer` is `isTypingRef` and its idle timer, `viewer` the
entry of one user in the other page's list with its timer; `Relay` delivers in
order, but for a message, which is stored first and may be overtaken.

### What the models leave out

- An entrant has one request at a time in `Finalize`, a save there is one write
  (its writes are in `AnswerSheet`), and the two reads of `liveEntry` are one.
- `Finalize` has one question worth one point; `Scoring` has the rest.
  Whether a run takes longer than the lease is not assumed either way.
- `Hosting` has no cancel (it only stops an edit; `ContestPlaces` and
  `FreeSlots` have it), and nobody has entered, so any capacity will do
  (`ContestPlaces` has the check of it).
- In `Editor` a card that was disabled because its contest had begun stays so; the
  page would take up the pending edit if another page moved the start later.
- In `AnswerSheet` a request that the browser gives up is not served any more.
- In `Sessions` the other device takes no step, and requests other than those
  of signing in and out and refreshing are left out: they change no session.
- `RoomChat` has one room; joining the channel and reading the room are one
  step; messages are stored in the order of their `createdAt`, and broadcasts
  may arrive in any order.
- `Offers` judges pages that are out of date by the clock alone; what else can
  make a page stale is in `Editor`, `AnswerSheet`, `ContestPage`, `RoomPages`.
- Validation of formats, wording, layout, logging and the library of
  components.

### Not modelled

Socket limits and the throttle (one synchronous counter, and a library), users
and avatars (writes of one document; two uploads at once leave a file behind
that nothing shows), passwords, tokens and guards (stateless checks; what they
let through is in the guards of `Offers` and `RoomPages`), health,
configuration, logging and the Redis client (start-up and I/O), and of the
frontend the style, the dialogs and the components of `components/ui`.
`create` of a room is one write of a new document and has nothing to race with.

## 3. Runs

Nine runs pass and three show a sentence of the repository to be wrong.

| Run | Instance | What it shows |
|---|---|---|
| `places` | 2 users, 2 requests, capacities 1 and 2, starts 1 and 2, requests up to 1 old, clock to 3, 2 entries, 1 leak | `PlacesAccounted`, `NoOverbooking`, `NobodyOnceSlotReturned` under every interleaving of joins (twice by one user too), leaves, starts, edits and cancels with a failure |
| `free_slots` | a host and an admin, 2 contests, 2 requests, limit 1, two months, clock to 4, 1 loss | `SlotsAccounted`, `FreeLimitHeld`, over the turn of the month |
| `editor` | one tab of a host, in turn: a visit with 3 edits, with 2 and a failure, two visits, another tab; and the Details card of a new draft, 3 edits of half of its inputs at a time, 2 edits of any of them with a failure; 4 typed titles of which one is too short and one has a space, 2 lengths, capacities typed below, at and above the limits; ≤ 2 questions of 2 kinds, clock to 2 | `RestMeansSaved` (what a card at rest that says "saved" would send is what the server has), `PublishedStaysPublishable`, `SavingAgainRepairs`, `DeletedLeavesNothing` |
| `pages` | lists of ≤ 4 entries with 3 scores and 2 spans; 2 answers, 3 questions of which 2 have a key, 3 options; a board of 2 in pages of 2; cards with ≤ 3 options, 4 ids, 1 to 3 points; a contest with capacity 2, starts 2 and 3, length 2, lead time 2, clock to 6; a list of 3 items and 2 dates read one by one with 2 edits; 2 servers, 2 changes of the counts, 3 visits, drops, stops and failed fetches together; a typist with 4 keys, 2 losses, timers of 1 and 3 | `RankIsPlace`, `ScoreIsPointsOfRightAnswers`, `BoardShowsMe`, `ReviewAddsUp` and `CardsAreQuestions` against reference definitions; `PagePhasesAgree`, `OffersAccepted`, `NothingHidden`; `PagesShowEachOnce`; `CountsRight`, `ResultsShow`; `TypingEnds` |
| `finalize` | 2 servers, 2 entrants, lease 1, 1 failure, clock to 2 | `LeaseExclusive`, `ResultsFollowEntries`, `RankedEntriesSealed` |
| `finalize_live` | 2 servers, 1 entrant, 2 failures, clock to 3, fair | `EndedGetsResolved`, and `OwnedAndClosedOnce`: the refinement of `OneFinalizer` |
| `answer_sheet` | 2 visits, in one tab or in two, 1 question, 2 options, 2 picks, 1 failure, fair | `OneAnswerEach`, `SheetIsFinal`, `ShownIsSaved`, `HandInCoversShown`, `SubmitIsAnswered` |
| `sessions` | 2 tabs with the lock, 4 tokens, 2 units of time, 1 failure, fair | `OldTokensStayDead`, `RefreshesKeepCookie`, `ElsewhereUnaffected`, `RefreshEnds` |
| `rooms` | owner and guest, one page that connects twice, 2 handlers, 2 messages, history of 1; 3 pins by 2 requests, 3 visits or drops; 2 requests on the state, 3 visits or ageings | `AnnouncedOnce`, `EachShownOnce`, `MembersStay`; `PinRight`; `RoomPagesRight` |
| `peek_and_go` | as `places` | `NoPeekAndGo` violated: a leave checked before the start deletes an entry that has opened the workspace |
| `finalize_cancelled` | 2 servers, 1 entrant | `CancelledNeverFinalized` violated: a cancel after the claim leaves the contest cancelled and finalized |
| `save_dropped` | 2 visits, 1 question | `SuccessMeansWritten` violated: a save is answered with success though its writes matched nothing |

### What a property excepts, and what else was found

A property of a page cannot say that what it shows is so: it was told some time
ago.  It says so at rest, and names each way in which the code lets it differ.
These names are the most useful part of such a property, as each is a
behaviour of the code that no test shows.

- `RestMeansSaved`: a new draft has no length, but its card shows 60 minutes, and
  the autosave takes what it first shows as saved (`ContestEditor.tsx:113`,
  `useAutosave.ts:11`): the card says "saved" beside 60 minutes that the server
  does not have, and publish stays refused for a length until some other edit of
  the card sends it.  The property counts null as the length shown for it
  (`Shown`).  Nor does it speak of what is never sent, beside which the card says
  "saved" too: a title that is too short, a date without a time, a capacity
  beyond the limits.  Further, an edit that goes back to what was saved last while
  a save of something else runs is never sent, and the card says "saved"; a form
  opened from the cached view, and another tab that edits too, differ from the
  server.
  (An edit undone before its timer leaves the card "pending" for ever, and one
  younger than the timer is lost on leaving; neither says "saved".)
- `PublishedStaysPublishable`: an edit written between what a publish judged
  and its commit, or a save under way at the commit.
- `ShownIsSaved`, `HandInCoversShown`: a visit after the first starts from the
  first response, so it shows answers that were changed since;
  `ShownWhenBack` has no such exception and fails.
- `OffersAccepted` (`KnownRefusal`): "Join now" on a full contest in the list
  of contests; publish offered to an admin who is not the host, to a host
  without a free contest left, or too late before the start; what a list read
  before the phase changed; saves refused in the last quarter of an hour, though
  `ContestEditor.tsx:462` and `contest-hosting.service.ts:82` call the contest
  editable until it starts.
  `NothingHidden` (`KnownGap`) names what an admin may do that no page offers.
- `ResultsShow` (`Stuck`): a page whose fetch fails twice with anything but 409
  stays on "Could not load results", as both its interval and its socket go by the
  409 (`ContestResults.tsx:29-31`), though line 50 says of the page that waits that
  it "updates by itself"; so does a contest's page that never loaded, or has the
  results already.  A contest's page that had loaded recovers by itself.  From an
  error only its button, a new visit or a restored connection leads on.
- `CountsRight`: a broadcast lost with its server, overtaken by an older one,
  or sent while the watch was being answered; the next change heals each.
- `RoomPagesRight`: "End room" in the table leaves the room's own page with an
  open room for up to thirty seconds; answers that overlap, or a fetch on its
  way, put an older state on a page.
- `EachShownOnce`: a message that is broadcast before the history arrives is
  wiped by it if the history was read earlier.
- `TypingEnds`: a page that switches to another room while someone is shown as
  typing clears the timers and keeps the name.  (A lost event ends by the timer;
  who types on for longer than the timer disappears meanwhile.)
- `PinRight`: overlapping pins reach a page in another order than the database;
  the HTTP routes for pins broadcast nothing.

Other sentences of this kind stand in the modules, each with the reason it does
not hold, without a run: `CapacityCoversEntrants` and `QuestionsSealed` (an edit
straddles a join or the start), `BoardIsFinal` and `HandedInStays` (a request in
flight at the end is written between a run's scan and its results, or a slow run
writes after another's close), `NoFailureShownMeansSaved` (one status for all
questions), `NoAlarmAtHome` and `SignedOutStaysOut` (a lost answer of a refresh;
a sign-out during one), `EndedIsFinal` (a start of a room that read it before it
ended), `AlwaysPublishable` (a save straddles the publish), `EditableUntilStart`.

### Bounds, and why they are enough

The races are between two requests over one or two documents, or between a page
and one request of its own: every property that fails, in the code or in a
mutant, fails with two requests, two users or visits and at most one failure,
and every mutant is caught under the bounds of its own run.  Times are numbers
that only need to be ordered, so a lease, a grace and a duration of one step,
with clocks of two to six, have every order of a request, a deadline and a
lease.  `MaxAge` lets a request be one step old, which is what makes `now` stale
across a start or an end.  History limits, capacities, boards and pages of one
or two reach their boundary at once.  `editor` takes one of seven budgets in
each behaviour, since an edit, a failure, a second visit and another tab
together are too many states; each pair of them that can meet in a hazard is in
one of the budgets.  The theorems of section 4 cover other sizes.
`CHECK_DEADLOCK` is off because every instance stops: its bounded clock, picks
and visits run out, and a contest that is closed has no more steps.

### Fairness

Nothing is assumed of entrants, hosts or admins, nor that requests succeed or
that broadcasts arrive.  `Finalize` assumes that time passes, that the schedule
wakes every server again (`@Cron` every minute) and that a run that has not
failed goes on: the awaits of a running Node process return.  `AnswerSheet`
assumes the same of the server's handlers and of the browser's promises (a
request returns or fails).  `Sessions` assumes it of the server, and strong
fairness of the step that takes the browser's lock: `navigator.locks` serves its
queue in order, so a tab that waits is not passed over for ever although the
lock is again and again taken by others.  `ContestPage` assumes that a page that
wants to polls (`refetchInterval`) and that a fetch returns.  It may fail instead,
any fetch of any page, but only as often as the bound on moves allows: that one
which is repeated again and again succeeds in the end is assumed, that a given one
succeeds, or that a socket ever connects, is not.  `Typing` assumes that clocks run and due timers fire.  The
other modules have no liveness property and no fairness.

## 4. Theorems

All are proved for every value of the constants that satisfies the named
assumptions of their module.

| Theorem | Statement | Argument |
|---|---|---|
| `ContestPlaces_proof!TypeCorrect` | `[]TypeOK` | the count cannot go below zero: this needs `PlacesAccounted`, so the two are proved as one invariant |
| `ContestPlaces_proof!Accounting` | `[]PlacesAccounted` | each step moves one unit between entrants, holders and leaks; the requests that hold a place are a set whose cardinality changes by one |
| `ContestPlaces_proof!NeverOverbooked` | `[]NoOverbooking` | entries plus holders are within some capacity the contest has had, as `JoinTake` tests the count and `Accounting` bounds them by it |
| `ContestPlaces_proof!SlotReturnedOnlyIfEmpty` | `[]NobodyOnceSlotReturned` | the early cancel tests a count of zero, so by `Accounting` no entry and no holder exists, and none can come once the status has changed |
| `FreeSlots_proof!TypeCorrect`, `Accounting`, `LimitHeld` | `[]TypeOK`, `[]SlotsAccounted`, `[]FreeLimitHeld` | as above for slots; a call keeps the host and month it read, and a row exceeds the limit in no step; the limit follows from the accounting |
| `Hosting_proof!TypesHold` | `[]TypeOK` | with what each request carries from its reads |
| `Hosting_proof!PublishedPublishable` | `[]PublishedStaysPublishable` | a publish that no request straddled commits what it judged; every request that begins after it read a published contest, so it writes only what passes the checks, and a save alone writes complete questions slot by slot |
| `Hosting_proof!SavesRepair` | `[]SavingAgainRepairs` | a save alone leaves, up to the slot it is at, the list it was given; trim and count finish it |
| `Hosting_proof!DeletesAll` | `[]DeletedLeavesNothing` | once the draft is deleted only a request begun before can write a question; such a save straddled, and is excepted |
| `Hosting_proof!EditorImplementsHosting` | `EditorSpec => Spec` | the server's steps are `Hosting`'s, the tab's begin a request of it or leave its variables alone |
| `Hosting_proof!EditorInvariance`, `SavedIsOnTheServer` | `[]EInv`, `[]RestMeansSaved` | see below |
| `Hosting_proof!PromisesUnderTheEditor` | `[](PublishedStaysPublishable /\ SavingAgainRepairs /\ DeletedLeavesNothing)` of `EditorSpec` | by the two theorems above it |
| `Finalize_proof!TypeCorrect` | `[]TypeOK` | with what a run carries (`RunOK`) |
| `Finalize_proof!OneHolder` | `[]LeaseExclusive` | the tokens at work are distinct and none is later than `lockedUntil`; a claim's token is later than its `now`, hence than the lock it replaces |
| `Finalize_proof!SealedOnceRanked` | `RankedEntriesSealed` | an entry with a result is handed in, as `WriteResult` writes both; saves filter on that |
| `Finalize_proof!NothingBeforeTheEnd` | `[]EndOK` | a run's `now` is never ahead of the clock, and a claim filters on an end that `now` has reached |
| `Finalize_proof!ResultsAreOfTheEntries` | `[]ResultsFollowEntries` | see below |
| `Finalize_proof!LeaseImplementsOwnership` | `OwnedAndClosedOnce` | every step maps to a step of `OneFinalizer` or a stutter; the holder of `lockedUntil` is the owner |
| `AnswerSheet_proof!OneAnswerEachHolds` | `[]OneAnswerEach` | only three writes touch the sheet; a push matches only where there is no answer |
| `AnswerSheet_proof!SheetIsFinalHolds` | `SheetIsFinal` | each of these writes filters on `submittedAt` |
| `AnswerSheet_proof!ShownIsSavedHolds` | `[]ShownIsSaved` | in a lone visit at most one save of a question is past its check, the last of the line is what is shown, and an empty line means that the last one settled |
| `AnswerSheet_proof!HandInCoversShownHolds` | `[]HandInCoversShown` | a submit is sent when the lines it waits for have settled; from then on what it claims is on the sheet or was picked later |
| `Pages_proof!PhasesHold`, `OffersHold`, `NothingHiddenHolds` | `[]PagePhasesAgree`, `[]OffersAccepted`, `[]NothingHidden` | the phases are compared over the cases of status, start and end; then each page's offers over the phases; the invariant is what the contest and the entry can be together (nobody is entered in a draft, a host never is) |
| `Pages_proof!CountsRightHolds` | `[]CountsRight` | a change that the tab has not seen is owed, being timed, being read or on its way, or was lost in one of the named ways; what is last sent is the newest |
| `Pages_proof!CardsStayRight`, `CardsHold` | `[]CardOK(draft)`, `[]CardsAreQuestions` | `CardOK`: ids are drawn once, the marks are distinct and on the card's options, at most one of a single choice; each handler keeps it (to keep some of a list is to renumber it), and from it each check of the server follows, the pick that earns the points being the marks themselves |
| `Pages_proof!PagesHold` | `[]PagesShowEachOnce` | see below |
| `Pages_proof!RanksHold` | `[]RankIsPlace` | to be before another is a strict order, so how many are before an entry is a bijection with the places: `Sorted` leaves nobody out.  In the sorted list those ahead of an entry are an initial part, those tied with it the rest of another, so `IsGroup` has one solution, and counting places is counting entries |
| `Pages_proof!BoardHolds` | `[]BoardShowsMe` | ranks are places, so the board sorted by rank and name has every row once and the `Top` first of it leave out only rows ranked past `Top` or tied with the last one shown; the pages: what follows an offset is its first rows and what follows the next offset, from the last offset back to the first |
| `Pages_proof!ScoresHold`, `ReviewHolds` | `[]ScoreIsPointsOfRightAnswers`, `[]ReviewAddsUp` | lists without repeats of the same length, one inside the other, are the same set (`CorrectIs`); after m answers the loop holds the questions seen, those right, and the sum of their points (`ScoreIs`), as no later answer is about a question counted before and a sum grows by what one of its terms grows (`SumGrows`); what the review reads of a question is its only answer (`ReviewedIs`) |
| `Sessions_proof!OldTokensStayDeadHolds` | `OldTokensStayDead` | no session's token is among the swapped ones and tokens are issued once |
| `Sessions_proof!RefreshesKeepCookieHolds` | `[]RefreshesKeepCookie`, given the lock | at most one tab is past the lock, no two grants share a token, and while nothing failed the cookie is a session's token or on its way from the refresh that swapped it |
| `Sessions_proof!ElsewhereUnaffectedHolds` | `[]ElsewhereUnaffected` | the other device's token was never in this browser, so no rotation finds its session; only the reuse alarm ends it |
| `RoomChat_proof!AnnouncedOnceHolds` | `[]AnnouncedOnce` | whoever was announced is on the list, and at most one handler is about to announce a user, whom no message has announced |
| `RoomChat_proof!MembersStayHolds` | `MembersStay` | a save pushes, whatever was read |
| `RoomChat_proof!EachShownOnceHolds` | `[]EachShownOnce` | every message is shown, on its way to the page, older than the history, about to be read by the handler of this socket, or wiped; ids in a list are distinct |
| `RoomChat_proof!PinRightHolds` | `[]PinRight` | a pin shown that is not the room's has the newest one on its way, or an older one was on its way when that was written |
| `RoomChat_proof!RoomPagesRightHolds` | `[]RoomPagesRight` | a query that was told of a change has it, fetches it, or is stale and not shown; what was read at the room's present version is its present state |

Three of these rest on an invariant that says more than the property:

- **Results follow entries** (`FollowOK`).  Before the end nothing is there
  (`EndOK`).  After it, as long as no request that began earlier has written
  late, the entries' answers no longer change, so there is one right result for
  each; then what a run has scanned so far is right, a result or event is right
  or absent, a run that is past its results finds one in every entry that
  started, and past its events too; the close happens only there.  None of this
  speaks of the lease, so it holds of runs that overlap, repeat each other's
  writes or die between any two of them.
- **A card that says saved** (`EInv`, four parts).  `Roles`: which request of the
  server belongs to which card.  `ChainsOK`: the request of a card carries the
  head of its chain.  `CardsOK`: "saved" means an empty chain, and a card whose
  timer rests holds a card whose input (`InputOf`) is the last value of the chain,
  or the one saved last, unless it dropped an edit.  `OneWriter`: of a visit that
  began clean nobody else writes its field, so to merge the last body again changes
  nothing of the details, the slots below the one a save is at hold its list, after
  the trim all of them do, and what it wrote stays until its answer arrives.
- **Pages of a list** (`ListInv`).  The shown pages, and those of the request
  series that runs, hold in order and once each everything that stayed in the
  list since they began to be read, up to their end; the bookmark of the last page
  separates it from what follows even if its document has moved.  A page read
  after that bookmark joins on, as the order of `find` is total.

The assumptions are those the modules name: finite sets of users, calls and list
items where a cardinality is taken (`PagingAssumption` and its like), calls of the
editor that are calls of the server (`CallsAssumption`), inputs that can hold what
the server stores and whose sent title is a stored one or none
(`TypingAssumption`), times, budgets, limits and
bounds that are numbers (`BudgetsAssumption`, `LimitsAssumption`,
`EntriesAssumption`, `BoardAssumption`; a page has at least one row, a choice may
have two options, and a question earns at least one point, as the validation of
questions asks: `SheetAssumption`), and values for null that are none of the others
(`NullAssumption` and its like).  TLC evaluates them in the runs.

Model-checked only are the liveness properties, out of the prover's reach with
their fairness.

Loops and recursive functions are proved about without an induction theorem that
takes an operator.  A set of numbers that has 0, and of each number the next one,
has them all up to n (`Upward`, from the least number outside it, `LeastIs`); with
the set of places where a claim holds, that is the induction.  It gives a loop its
values (`LoopIs`), a sum its equations (`SumIs`) and each recursion its only
solution.

## 5. Plan

Done: the modules of section 2; each was written with the race first and the
proof in view (no `RECURSIVE`, one action per database call, constants with
named assumptions).

What would add most from here:

1. A second room, for the page that switches rooms with its socket open, and a
   second device that takes steps in `Sessions`.
2. The socket limit together with the reconnects of `ContestPage`.
