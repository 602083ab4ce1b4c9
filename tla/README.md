# BeCoMe in TLA+

BeCoMe (Best Compromise Mean) is a web application for group decisions: the experts of a project
submit fuzzy triangular numbers, and the API keeps the best compromise of them up to date. This
directory models the parts of it that keep or compute state, checks them with TLC on small
instances, and proves what matters most with TLAPS. Paths are relative to the repository.

## 1. Inventory

| Component | State | Operations | What must hold |
|---|---|---|---|
| Calculator (`src/calculators`, `src/models`, `src/interpreters`) | none: pure functions | mean, median (odd and even strategy), compromise, maximum error, Likert decision | the median is the one of the method, whatever the order of the input, and ties keep it in the middle; the error is the distance of mean and median; every list of distinct experts is answered |
| Public endpoint (`api/routes/calculate.py`) | none | one request: validate, calculate, answer | as above, for the lists the schema lets through |
| Opinions and cached result (`api/routes/opinions.py`, `opinion_service`, `calculation_service`, `mappers`) | tables `expert_opinions`, `calculation_results` | submit (insert or update), delete, each followed by `recalculate` | rows satisfy their constraints; the cached result is the one of the stored opinions; a stored opinion is one somebody submitted |
| Database and sessions (`api/db`) | the tables; one session per request | statement, flush, commit, rollback | no row outlives what it refers to |
| Projects, members, ownership (`project_service`, `project_membership_service`, `routes/projects.py`) | `projects.admin_id`, `project_members.role` | create, update, delete, transfer, remove | one admin, and the role and the pointer agree |
| Invitations (`invitation_service`) | table `invitations` | invite, accept, decline | a member has no invitation for long; accepted once |
| Accounts (`user_service`, `routes/users.py`) | table `users` | register, change, delete | an account that owns a project stays |
| Sessions (`api/auth`, `routes/auth.py`) | blacklist in the memory of each worker | login, refresh, logout, every decoding of a token | a worker that revoked a session refuses its tokens as long as they live |
| Password reset (`password_reset_service`, `ForgotPassword.tsx`, `ResetPassword.tsx`) | table `password_reset_tokens`, the form of the page | request, redeem | a link works once, and only the newest one |
| Profile photos (`services/storage`, `routes/users.py`) | object store and `users.photo_url` | upload, delete, erase with the account | the row points to an object that exists, and nothing else is stored, but for what a failure in between leaves |
| Frontend client (`lib/api.ts`, `AuthContext.tsx`, login, registration, menu) | token in memory and in local storage, current user | login, register, refresh the user, logout, 401 handling | the user shown is the owner of the token that is sent |
| Notifications (`use-toast.ts`) | list of toasts, removal timers, subscribers | add, dismiss, remove | the screen shows the store, each closed toast goes |
| Project page (`ProjectDetail.tsx`) | what five GETs answered, the form of the own opinion, a dialog, spinners | load, save, withdraw, invite, transfer, remove, delete, export, navigation | the settled page shows what is stored and offers what the API accepts; spinners end |
| Charts (`ProjectDetail.tsx`, `CentroidBarChart.tsx`) | which tab, which triangles | draw opinions and result | everything is drawn on its axis, though opinions and result may be of different moments |
| Project list (`Projects.tsx`, `components/modals`) | projects, invitations, three dialogs with one selection | load, create, invite, delete, answer an invitation | the list is the stored one; a dialog is about the project it names |
| Profile page (`Profile.tsx`) | fields, photo, spinners | save names, photo, password, export, delete account | the page shows the account as stored; a refusal is shown and nothing else happens |
| Onboarding tour (`Onboarding.tsx`, `StepEnterOpinion.tsx`) | step, direction, fields of the trial | walk, type | the trial judges as the real form does |
| Queries and exports, middleware, e-mail, configuration, migrations, static pages, theme, language, vendored `components/ui` | none of their own | | not modelled: they read, format, show or wire |

**How they interact.** FastAPI runs each handler in a worker thread with a database session of its
own (`api/db/session.py`). Handlers share nothing but PostgreSQL, which runs READ COMMITTED, the
object store and the blacklist of their worker. No handler takes a lock (`SELECT ... FOR UPDATE`
does not occur), so all that keeps them apart are the constraints of `api/db/models.py`. A write to
an opinion calls `CalculationService.recalculate`, which calls the calculator and writes the cached
result *in a second transaction*. Deleting a project or an account reaches the other tables by
`ON DELETE CASCADE`; the owner of a project cannot be deleted (`RESTRICT`).

The frontend is a single-page application. A page calls the API through one `ApiClient`, which adds
the token of local storage and takes every 401 for the end of the session; `AuthContext` holds the
user the token belongs to; results of handlers are shown by toasts. Pages share nothing else: each
keeps what it fetched until it fetches again, while other users and other tabs change what is stored.

**What is hard.** A session's view goes stale between two of its statements. SQLAlchemy writes the
columns whose value differs from what was loaded, so that two overlapping updates of one row merge.
The opinion and its result are two commits, with everything that can fail in between. In the browser
answers overtake each other or come after the user has left, a component survives a jump to another
project with its form and its handlers in flight, and timers of 200 ms race with clicks. The blacklist
forgets at a computed time, and an object store has no transactions. The full list, with lines, is in
`PROJECT.json` under "hazards".

## 2. Modules

| Module | Models | Role |
|---|---|---|
| `BeCoMe` | calculator | operators over exact rationals, no state |
| `CalculateEndpoint` | public endpoint | a state machine that builds every list of experts the schema accepts and answers it; holds the properties of the calculator, stated against the definition of the method |
| `MCCalculateEndpoint` | | its instance for TLC |
| `CalculateEndpoint_proofs` | | theorems about the endpoint and about `Recalculation` |
| `ResultCache` | | abstract: what a cached result promises |
| `Opinions` | opinions, cached result, the rest of the API as far as it touches their tables | the core: one action per SQL statement or commit of a request |
| `Recalculation` | `_get_opinions`, `to_db_model`, `update_db_model`, `_is_likert_scale` | turns stored opinions into a row of `calculation_results`; gives `Opinions` its calculation |
| `MCOpinions` | | composes `Opinions`, `Recalculation` and `BeCoMe` for TLC |
| `Opinions_proofs` | | theorems about `Opinions` |
| `Membership` | projects, members, ownership, invitations, deletion of accounts | who belongs to one project and who owns it: one action per SELECT or commit of a request |
| `MCMembership` | | its instance for TLC |
| `Membership_proofs` | | theorems about `Membership` |
| `TokenRevocation` | tokens and blacklists of several workers | login, refresh, logout, restarts, a clock |
| `PasswordReset` | requests and redemptions of reset links, with their two pages | one action per SELECT or commit |
| `ProfilePhotos` | the photo's row and its object | one action per write of either store |
| `Calls` | | what the answer to a load means for the loads still under way; used by the pages |
| `ProjectPage` | the page of a project against a server that others change | one action per click, request, change on the server and answer |
| `MCProjectPage` | | its instance for TLC |
| `ProjectPage_proofs` | | theorems about `ProjectPage` |
| `ResultCharts` | the figures, triangles and the chart over the loaded opinions and result; extends `BeCoMe`, and `MCPages` extends it | one action per submission, load and switch |
| `ResultCharts_proofs` | | theorems about the method and the charts |
| `ProjectList`, `Profile`, `Tutorial` | the list with its dialogs, the account, the tour | one action per click, change on the server and answer |
| `ProjectList_proofs` | | theorems about `ProjectList` |
| `ClientSession` | `ApiClient` and `AuthContext` in the tabs of a browser | one action per visit, submission, call and answer |
| `Toasts` | the store of toasts, its timers and its subscribers | one action per dispatch, timer, render and effect |
| `Account` | | the session, the profile page, the photo, the links and the tour side by side, with their properties |
| `Account_proofs` | | theorems about `ClientSession`, `Profile`, `Tutorial`, `ProfilePhotos` and `PasswordReset` |
| `MCPages` | | composes `Account` and the other small components for TLC |
| `Pages_proofs` | | theorems about `Toasts` and `TokenRevocation`, and about all components in the composition |

### The calculator: `BeCoMe`, `CalculateEndpoint`

`Average`, `CalculateArithmeticMean`, `SortByCentroid`, `OddMedian`, `EvenMedian`,
`CalculateCompromise` and `Interpret` are the functions of the same names. Numbers are integers in
multiples of `1/Unit`, with `Unit` chosen so that every division of a run is exact: what is stated
is the method, not its rounding. A search is over places of the list. `RemainingOpinions` keeps what
the even strategy leaves to its
second search, which drops *every* opinion equal to the first one found, expert name included: with
two identical experts nobody may be left, and `min()` raises (`MedianFails`).

The order in which Python's stable sort leaves ties is part of the model; that the answer does not
depend on it when there are none is a property (`OrderIndependent`), and with ties a project's result
is any of those that the orders of a SELECT without ORDER BY can yield (`ResultsInAnyOrder`).

### The core: `Opinions`

A request goes through the program counters

    ready -> load -> write -> refresh -> reload -> recalculate -> save -> store -> done
                                                                            \-> failed

| Action | Code |
|---|---|
| `Submit`, `Delete` | the access check of `RequireProjectAccess` and `validate_values_in_range` |
| `LoadOpinion` | `get_user_opinion` |
| `InsertOpinion`, `UpdateOpinion`, `DeleteOpinion` | flush and commit in `_save_and_refresh` and `_delete_and_commit`, where the constraints bite |
| `RefreshOpinion` | `session.refresh(obj)` |
| `ReloadProject` | `project.id`, evaluated after the commit has expired the object |
| `Recalculate` | the SELECT of the opinions, the calculation and the interpretation |
| `LoadResult` | `get_result` in `_save_result` and `_delete_result` |
| `InsertResult`, `UpdateResult`, `DeleteResult` | the second commit |
| `Crash` | the worker dies or the statement fails; the session is rolled back |
| `Join`, `RemoveMember`, `UpdateScale`, `DeleteProject`, `DeleteAccount` | the rest of the API, each one transaction |

The semantics of the library are in four operators. `Flush(row, loaded, new)` writes the columns in
which `new` differs from `loaded`. `StillThere` is `WHERE id = ...`: an UPDATE that matches no row is
a `StaleDataError`, a DELETE that matches none is none. `CanInsertOpinion` and `CanInsertResult` are
the unique constraints and foreign keys. `Seen` is the SELECT of a session that already holds the
user's own row: the identity map hands out the loaded columns, not the ones the query returned.

`undisturbed` is a history variable. It holds the requests since whose commit of an opinion nobody
else changed the opinions or the scale, and since whose loading of the result nobody else changed
the result. No action reads it in a guard.

Left out: the expert's `position` and the time stamps (no property tells them apart; a request that
changes the position alone is one that changes no column), `likert_decision` (a function of
`likert_value`), and the reads with which a route builds its answer after its last commit. The admin
of the project is a constant; transfers are the subject of `Membership`.

### Ownership: `Membership`

Ownership is stored twice, as `projects.admin_id` and as the role of a row of `project_members`.
`RequireProjectAdmin` asks for the role, the deletion of an account for the pointer (in
`get_owned_projects` and in the foreign key), and `transfer_ownership` for both.

| Action | Code |
|---|---|
| `LoadProject`, `Authorize` | the two SELECTs of `RequireProjectAccess`: the project first, then the role |
| `SelectMember` | `_get_membership` of the target of a removal, or the first SELECT of `transfer_ownership` |
| `SelectOldAdmin`, `TransferOwnership` | its second SELECT, for the admin of the *loaded* project, and its commit |
| `RemoveMember`, `DeleteProject`, `CreateProject` | the commits of these operations |
| `CheckInvitee`, `CheckInvited`, `InviteByEmail` | the checks and the commit of `invite_by_email` |
| `LoadInvitation`, `CheckMembership` | `get_invitation_by_id` and the check for a membership |
| `AcceptInvitation`, `WithdrawInvitation`, `DeclineInvitation` | the commits of accepting (membership in, invitation out), of accepting as a member already, of declining |
| `CheckOwnedProjects`, `DeleteAccount` | `get_owned_projects`, and the commit with its cascades and the RESTRICT |
| `Crash` | the worker dies or a statement fails; the session is rolled back |

`Begin` is `get_current_user` with the first SELECT, which is why a request needs an account to
start and nothing but the constraints protects it later. A row has the name of the request that
inserted it, so that a member who left and came back has another row: an UPDATE of the old one is a
`StaleDataError` and rolls the transfer back, a DELETE of it touches nothing. `RoleUpdates` are the
UPDATEs the unit of work emits, those of a role that differs from the loaded one; a transfer to the
owner of the loaded project (the role was passed on since) assigns both roles to one row, and the
last one stays.

`overlapped` is a history variable: it holds `Ownership` once two transfers or removals have been in
flight at the same time, and a user once two of the user's answers have. No action reads it.

Left out: name, description and scale of the project (`Opinions` has the scale), `add_member`, which
no route calls, the lists that routes only read, and the reads with which they build their answers.

### Tokens: `TokenRevocation`

The access and the refresh tokens of a login share an identifier. `Login` is `create_token_pair`,
`Decode` the lookup that any call makes, `Begin` and then `Refresh` or `Logout` the two handlers, which
others may overtake between the decoding and the end. `Added`, `LookedUp` and `Blacklisted` are the
methods of `TokenBlacklist`: an entry that is over is deleted when it is looked up. `Restart` ends the
process of a worker with its blacklist and its handlers. A handler takes at most `Slack`, the
difference of the two lifetimes: seven days but for 15 minutes. `revoked` is a history variable.

### Links and photos: `PasswordReset`, `ProfilePhotos`

`ReadOutstanding` and `SaveToken` are the SELECT and the commit of `create_reset_token`, the actions
after them those of `reset_password`; between any two the clock ticks, the account is deleted, or
another handler runs. The browser of the user has the pages with their forms; mails and answers get
lost. In `ProfilePhotos` a handler reads the key (`Begin`), deletes the object (`DeleteOld`, whose
failure is suppressed), stores another (`Upload`) and writes the row (`WriteRow`), in this order, as in
`upload_photo`, `delete_photo` and `delete_current_user`. An upload may fail (`UploadFails`, with or
without the object stored), and a handler may end before it has written the row (`EndsEarly`): the commit of
`update_photo_url` or `delete_user` fails - `RESTRICT`, for a project that was created or transferred
after the check at `routes/users.py:151`, or any other error of the database - or the worker dies.
Nothing undoes what was done to the storage, and the handler is then `failed`. `overlapped`, `raced`,
`kept` (the keys whose object the storage failed to delete), `newest` and `changes` are history.

### The pages: `ProjectPage`, `ProjectList`, `Profile`

Each has what is stored (`server`, `mine`, `account`), which the API changes in one step - the steps
inside are the subject of `Opinions` and `Membership` - and what the component holds, under the names
of its `useState` calls. A load under way keeps every content of the server since its start, because
its GETs are served each at some moment of its own; its answer may take any combination of them. A
request under way goes through "accepted by the server" and "answered", each of which may fail, so that
a change may be stored behind an error. `misses`, `overtaken` and `behind` are history: they say when
a page may legitimately be behind (others changed something, an answer was lost, two loads overtook
each other), and no guard reads them.

| Action of `ProjectPage` | Code |
|---|---|
| `Open`, `Leave` | mount and unmount; handlers under way run on without a page |
| `JumpTo` | the history from one project to another: the component stays, the effect runs again |
| `ChangeLanguage` | `t` is a dependency of `fetchData`: it loads again |
| `LoadAnswered`, `LoadFailed`, `LoadDropped` | the rest of `fetchData` |
| `Type`, `SaveOpinion` and the other handlers | up to their `await` |
| `ServerAccepts` | the API serves the request |
| `RequestAnswered`, `RequestFailed` | the rest of the handlers, with their `catch` and `finally` |
| `OthersChange` | another user of the project |

`Screen`, `MemberButtons`, `OpinionForm`, `HeaderButtons` and the like are what is rendered of the
loaded data, as far as it decides what the user can do; wording and layout are left out. `ProjectList`
has the three dialogs, which share `selectedProject` and can be dismissed with their request under
way, and the timer of `handleClose`. `Profile` has the second half of its handlers, `refreshUser`.

### The rest of the frontend

`ResultCharts` keeps a place on an axis multiplied by what the code divides by, so that `scaleToX`, the
padding of the axis and the percentage of the error are exact. `Tutorial` reads a field as
`parseFloat(x) || fallback` does, 0 included. `ClientSession` has two tabs that share `localStorage`
but not the token in memory, nor the user: a 401 in one drops the stored token of both and loads
`/login`.
`Toasts` has the reducer with its limit of one toast, the timers, and subscribers whose effect runs
some time after their first render.

## 3. Runs

| Run | Question | Instance |
|---|---|---|
| `calculator` | Is the calculation the method, for every list the endpoint accepts? | lists of up to four experts with four possible names, numbers that share centroids; with four, both strategies, ties at the middle and repeated experts occur |
| `opinions` | What survives any interleaving, crash and deletion? | two users, two requests, every environment action, two scales of which only one has a Likert value |
| `opinions_overlap` | The same with three requests that overlap | two users, three requests; the inputs clash: two updates of one opinion can merge into columns that the CHECK constraint refuses |
| `opinions_serial` | Does one request at a time implement the abstract cache? | two users, three requests, with liveness |
| `membership` | Who belongs to a project, and who owns it, whatever overlaps? | three users, three requests, from any project or none: two transfers and a third actor, two answers and a removal between them, the target of a transfer deleted in between |
| `even_median` | "Average the two middle elements" | violation: see below |
| `project_page` | Does the page show and offer what is stored, whatever overtakes what? | two projects, the user and one other, who changes one of them; a page as expert with an opinion, or as whoever sees to the team |
| `pages` | The same of the list, the profile, the charts, the tour, the client, the toasts, the photos, the links and the tokens | see "Scenes" |
| `wrong_password` | What does a wrong current password do? | violation: see below |
| `torn_opinion`, `stale_result`, `two_admins` | What do overlapping requests break? | violations: see below |

**Why the bounds are enough.** A lost update needs two requests; three let a third one meet the row
that two others have merged. Two users give every kind of result (nobody's, one opinion, several)
and keep an odd and an even list apart; one of them is the admin and one can be removed or deleted.
Two inputs that differ in every column tear nothing; the three of `TearingInputs` and `Clashing` are
the smallest sets in which two updates change different columns. A request is served once: a client
that sends many is many requests. `Unit = 24` makes all the sums of two opinions exact. Requests are
interchangeable, so TLC may use their symmetry where no liveness is checked.

`opinions_serial` replaces the calculation by `Provenance`, whose "result" *is* the opinions it was
made of. It distinguishes more than any calculation does, and TLC need not calculate while it
evaluates ENABLED.

In `membership` a transfer has an old and a new owner, and the third user is who transfers at the
same time, invites, answers or is removed. Two requests overlap and a third comes before, between or
after them; a fourth could only repeat one of the three, for a request holds nothing but what it
has read.

**Project page.** Two calls under way, of which one is a request, are enough for every pair of
load and load or load and request that can overtake one another; a third could only do to the second
what that does to the first. Two changes of what is stored are the user's and somebody else's, in
either order. `task` keeps apart what shares no state: an opinion is written by an expert, in either
project (a jump between them is possible), and the team is seen to in the first. In the second project
others do nothing; it is there to be jumped to and back from.

**Scenes.** The components of `pages` share no state, so that a behaviour in which several of them
move shows no more of each than one in which it alone moves: in each behaviour one moves (`scene`)
and the others stay in one of their initial states. Bounds: the list has a project of mine and one to
which I am invited or which is created in the run, two calls and two changes; the profile two names, two calls
and a change of another tab, and what does not touch names or photo is tried one call at a time; the
charts four experts, of whom the first three submit and change what they like; the client two tabs, of
which the second has no forms, two logins of two users, one of whom registers first, and two calls at a
time; the toasts three of them and two subscribers; the photos three requests; the links two requests
and two redemptions, each possibly after the end of a link's life; the tokens one session at two
workers with lifetimes of one and two ticks. These are CONSTANTS of `MCPages` with values in
`Pages.cfg`, so that the theorems about it hold for any others, too. No parameters are the
relation of the user to the two projects at the start, and what `ProfileNext`, `ListNext`
and `ClientNext` leave out.

`CHECK_DEADLOCK FALSE` stands in the runs of `Opinions` and `Membership` and in `pages` because the
system may really stop there: requests are served once, a deleted project or account takes no more of
them, and the clock is bounded.

**Fairness.** `SerialSpec` has weak fairness of `Serve(r)` for each request, and nothing else: a
handler that has begun runs on in its worker thread, and nothing makes it wait. Nobody is obliged to
send a request, to delete a project or to crash. `SerialSpec` has no `Crash`: a crash between the
two commits leaves the cache dirty for good, which is what `UndisturbedIsFresh` is careful about and
what `Crash` in `Spec` shows. `Spec` and `RequestSpec`, and `Spec` of `Membership`, have no fairness and
are used for safety. `ProjectPage` has weak fairness of the oldest load ending and of the oldest
request ending, answered or failed: `fetch` settles its promise, and nothing in the page cancels it.
The user need not do anything. All the other specifications of the frontend and of the tokens have none.

**Properties.** `TypeOK` includes that every row satisfies its CHECK constraints. `NoOrphanRows`:
no request in flight revives what a deletion took away. `UndisturbedIsFresh`: a request by itself
leaves no stale result, however it overlaps with others, as long as none of them gets between its
commit and its result. `OpinionsAsSubmitted`: a stored opinion was submitted by its user.
`CacheSpec`: one request at a time implements `ResultCache`, a change that is refreshed before the
next one, for ever again clean. `OwnershipInSync`: as long as no transfers and removals overlap, the
pointer and the role agree, whatever happens to accounts, invitations and the project meanwhile.
`InvitationUsedOnce`: as long as no two answers of one user overlap, an invitation makes a member
once. Both take what they exclude from `overlapped`, and both fail without it. For the calculator: `MedianIsMiddle`, `MedianStaysInMiddle`,
`MaxErrorIsDistance`, `OrderIndependent`, `DistinctExpertsAnswered`.

For the project page: `SettledIsFresh` (what a settled page shows is what is stored), `OfferedIsAccepted` (a settled page
offers what the API accepts), `UntouchedForm` (a form nobody edited holds the stored opinion),
`BusyEnds` (every spinner ends). For the others: `ListIsFresh`, `DialogHasProject`,
`SuccessIsForSelected`, `ProfileIsFresh`, `SavedNamesShown`, `SpinnersEnd`; `DrawnOnScale`, which also
shows that the error never exceeds a quarter of the scale and the third level of the agreement,
"low", is therefore never shown; `LinesOnAxis`; `TrialIsLikeTheForm`; `ShownUserOwnsToken`;
`SubscribersShowStore`, `ClosedToastsAreRemoved`; `PhotoIsStored`, `NoOrphanObjects`;
`OnlyNewestWorks`, `RedeemedOnce`; `RevokedStaysRefused`. Several name what the code does not
protect from, and fail without it: overlapping requests for a link or overlapping redemptions, a
handler of the photo that ends before it has written the row, a failed deletion of an object, a dialog dismissed before its answer, an answer to a token that was dropped, a
toast between a render and its effect, a 0 in the trial (which the code takes for an empty field), access
tokens that another worker issues after a logout.

What the photo's two properties except is what the docstring of `delete_current_user`
(`routes/users.py:139`) passes over, "erasure also covers stored media": the erasure deletes the object
that the row names, and succeeds when that deletion fails; an object that an earlier handler stored and
did not get to name in the row is named nowhere and stays. And when the erasure itself fails after the
object is deleted, the account remains with a row that names no object. `PhotoIsStored` says that this is
the only way to such a row, whatever overlaps, and that the next handler to write the row repairs it.

### Where code and documentation disagree

Each is a run in which TLC finds the documented property violated.

* `even_median`: `docs/method-description.md:160` has "Average the two middle elements at positions
  **n** and **n + 1**". With ties the code averages other opinions: it looks for the two *nearest to
  the median centroid*.
* `torn_opinion`: two overlapping updates of one opinion store a mixture that nobody submitted
  (`tests/e2e/test_project_management.py:126`, "must not corrupt data").
* `stale_result`: two successful requests leave a result that is not the one of the stored opinions
  (`README.md:50`, "Automatic BeCoMe aggregation when opinions are submitted"). Two recalculations
  may also merge their columns into one row; that is another way to the same violation.
* `two_admins`: two overlapping transfers each demote the owner they loaded, and the target of the
  first one stays an admin for good next to the owner (`api/services/project_service.py:148`,
  "Keeps both ownership sources in sync atomically"). A removal that overlaps a transfer may
  likewise leave an owner without a membership, hence a project nobody can administer.
* `wrong_password`: `api/middleware/exception_handlers.py` answers a wrong current password with 401,
  and `frontend/src/lib/api.ts:74` ends the session on any 401, so that a mistyped password logs the
  user out; `frontend/tests/pages/Profile.test.tsx:630`, with a mocked API, expects a toast on the page.

## 4. Proofs

Each theorem is about a specification with its constants left open: any users, requests, projects,
numbers and bounds. An invariant that a run checks is seldom inductive; what is added to it is named
in the module, was checked by TLC first, and is explained below.

### `Opinions_proofs`

For any users, requests, scales, inputs and any calculation:

| Theorem | Statement |
|---|---|
| `TypeCorrect` | `Spec => []TypeOK` |
| `ReferentialIntegrity` | `Spec => []NoOrphanRows` |
| `UndisturbedCorrect` | `Spec => []UndisturbedIsFresh` |
| `SubmittedCorrect` | `SerialSpec => []OpinionsAsSubmitted` |
| `SerialImplementsCache` | `SerialSpec => Cache!Init /\ [][Cache!Next]_(Cache!vars)` |
| `SerialIsFresh` | `SerialSpec => []FreshWhenIdle` |

**Assumptions.** The owner is a user; inputs are ordered numbers (the schema validates them);
`None` and `NoProject` are not rows or scales; and `CompromisesAssumption`: the calculation answers
every non-empty set of opinions with rows that satisfy the constraints of `calculation_results`.
TLC evaluates them in each run of `MCOpinions`, and that the last one is true of the code's
calculation is proved for any opinions on a scale: `RecalculationAnswers`, below.

**Argument.** `TypeOK` is not inductive: `recalculate` needs a project, and nothing in the types
says that a request which has reached it holds one. `TypeInv` adds `ScaleLoaded`. Every action is
a read, a failure or one of the two commits, so the step lemma rests on four lemmas about those
(`ReadType`, `FailType`, `CommitOpinionType`, `CommitResultType`). `UndisturbedIsFresh` speaks of
finished requests only; the invariant behind it, `Justified`, says for each program counter what an
undisturbed request holds: its opinion as stored, then its project as stored, then the result of what
is stored, then the old result as stored. Two facts carry it: a session that holds its own row as it
is stored sees what is stored (`SeenIsStored`), and an update against an unchanged row overwrites all
of it (`FlushLoaded`).

`SerialImplementsCache` is the safety part of `CacheSpec`, step by step. With one request at a time
nobody disturbs anybody: whoever is between its two commits is in `undisturbed` (`Consistent`), so that
`Justified` holds of it and the commits are the abstract change and refresh; everything else leaves the
abstract variables alone. `SerialIsFresh` carries the promise of the abstract cache over to the tables.

### `Membership_proofs`

For any users and any number of requests:

| Theorem | Statement |
|---|---|
| `TypeStep` | every step keeps the inductive invariant of the types |
| `MembershipTypeCorrect` | `Spec => []TypeOK` |
| `MembershipReferences` | `Spec => []NoOrphanRows` |
| `OwnershipCorrect` | `Spec => []OwnershipInSync` |
| `InvitationCorrect` | `Spec => []InvitationUsedOnce` |

**Assumptions.** `ConstantsAssumption`: the marks are not users and not each other, `None` is not a
row, and the rows of the start belong to no request. TLC evaluates it in the runs of `MCMembership`.

**Argument.** `TypeInv` adds to `TypeOK` that a transfer in progress holds a project (`HoldsProject`),
without which its commit could store no owner at all. `NoOrphanRows` is inductive with it: the commit
of a transfer promotes a row that is still there, and a member has an account (`TransferReferents`).
`OwnershipInv` says, while nothing has overlapped: pointer and role agree (`InSync`); at most one
transfer or removal is in flight (`Alone`); and what it holds agrees with the project (`Held`): the
admin it loaded is the owner and is who asks, its target is an expert, and the owner's row is the
one stored. A commit by itself therefore moves pointer and role together. Answers and the deletion
of an account can disturb the target's row only, and for that there is the `StaleDataError`.
`InvitationUsedOnce` needs that a row bears the name of the request that inserted it, which is done
(`Inserted`) and never inserts another one; that an answer which overlaps no other one of its user is
the only one (`AnswersAlone`); and that the invitation it answered is then neither stored nor held by
anybody (`UsedUp`).

### `ResultCharts_proofs`, `CalculateEndpoint_proofs`

For lists of any length up to the calculator's bound, of any whole numbers, and any scale:

| Theorem | Statement |
|---|---|
| `ResultOnScale` | the mean, the median and the compromise of opinions on a scale are on it, no centroid of theirs is outside those of the opinions, and the maximum error is at most a quarter of the scale |
| `TypeCorrect`, `ErrorCorrect` | `Spec => []TypeOK`, `Spec => []MaxErrorIsDistance` of `CalculateEndpoint` |
| `AnsweredCorrect` | `Spec => []DistinctExpertsAnswered` |
| `BetweenCorrect` | `Spec => []MedianStaysInMiddle` |
| `MiddleCorrect` | `Spec => []MedianIsMiddle` |
| `OrderCorrect` | `Spec => []OrderIndependent` |
| `RecalculationAnswers` | whatever opinions a project has and in whatever order the database returns them, there is a row, it passes the CHECK constraints, counts the opinions and is on the scale |
| `DrawnCorrect`, `LinesCorrect`, `ChartsTypesCorrect` | `ChartsSpec => []DrawnOnScale`, `... []LinesOnAxis`, `... []ChartsTypeOK` |

**Assumptions.** `UnitAssumption`: `Unit` is a multiple of `12 * k` for each possible length `k`, which
makes every division exact. `NumbersAssumption` and `ChartsAssumption`: the numbers are whole ones, the
estimates lie on the scale, and there are at most `MaxExperts` experts. For the method that is no
restriction, since any finitely many rationals are whole numbers of a finer unit; the charts, which
round to hundredths, are proved about whole estimates only. `RecalculationAnswers` is about
finitely many users with numbers on the scale (`Opinionated`), and Likert values between
`likert_scale_min` and `likert_scale_max` (`LikertScaled`). Rounding of floats is not modelled.

**Induction.** What a fold computes takes an induction over its data, and the induction theorems of the
library take an operator, which the provers cannot instantiate. Its theorem about well-founded
relations takes a set and can be used: `Subsets` says that a set which holds the empty set, and each
subset of `D` whose subsets with one element less it holds, holds all subsets of `D`. `SumFunction` chooses the
element it takes next; by `Summed` its value does not depend on the choices. From there sums
of multiples, sums of ordered terms, sums of two functions and sums in another order are one induction each.

**Argument.** *The mean.* Its division is exact since the components are multiples of `Unit`
(`MeanExact`), so that it keeps the order of the components and the bounds of the scale, and its
centroid is the mean of the centroids (`MeanCentroid`). *The sort.* Rank counts the places before a place;
it is injective and therefore takes each value (`RankReached`), so that the sorted list has every
opinion once, in order. *The search.* The median centroid is as far from the one middle opinion as from
the other, and no place outside the middle is nearer (`MiddleNearest`). So each search finds a centroid
as far away as those of the middle (`MedianFound`); with distinct experts the second search
still has one of the two middle places (`MiddleRemains`). Hence the median is between the middle centroids, whatever the ties
are, and it is their average without ties (`MedianMiddle`). *The order.* Without ties the sorted list
of a permuted list is the same (`SortPermuted`), and sums are (`SumPermuted`). *The quarter.* Adding
the sorted list to its mirror image pairs each centroid of the lower half with one of the upper half, so
that twice the mean is at most the lower middle centroid plus the maximum of the scale, and likewise
from below (`MeanNearMiddle`): mean and median differ by half the scale at most, and the error is half of that.
The agreement "low" is therefore unreachable for any number of experts.

*The endpoint.* `IInv` says that an answer is what the method makes of the list. *The charts.* `ChartsInv` says
that the opinions on the page are a list that was submitted, and the result is of such a list: of the same
one if `coherent`. The axis spans the points, centroids rounded to hundredths, while the lines are at exact
ones; they lie within the axis all the same, because the centroid of three whole numbers is a multiple of a third, and a
rounding error of half a hundredth is less than the padding of the axis (`AxisReaches`, `ThirdApart`).

### `ProjectPage_proofs`, `ProjectList_proofs`

| Theorem | Statement |
|---|---|
| `TypesCorrect` | `Spec => []TypeOK` of `ProjectPage` |
| `ScreenCorrect` | `Spec => []SettledIsFresh` |
| `OffersCorrect` | `Spec => []OfferedIsAccepted` |
| `FormCorrect` | `Spec => []UntouchedForm` |
| `ListTypesCorrect` | `ConstantsOK` implies `Spec => []TypeOK` of `ProjectList` |
| `ListCorrect` | `ConstantsOK` implies `Spec => []ListIsFresh` |
| `DialogsCorrect`, `SuccessCorrect` | `ConstantsOK` implies `Spec => []DialogHasProject`, `Spec => []SuccessIsForSelected` |
| `BusyCorrect` | `ConstantsOK` implies `Spec => []BusyIsInFlight` |

**Assumptions.** `ConstantsAssumption` of `ProjectPage` and `ConstantsOK` of `ProjectList`: the marks are
not projects or estimates, and the bounds are numbers.

**Argument.** Nothing that a run checks says anything while a call is under way, and that is where
things go wrong. Of the loads, `LoadsFollow` says what each may bring: of every part that it does not
miss, what is stored, if no later load has overtaken it and no answer that makes the page load again
is awaited. `PageFollows` is the promise to the user: a page that shows something else has a load
under way, or such an answer to come. A step of somebody else marks the loads under way or the page;
an answer that is lost marks both. For `OfferedIsAccepted` it takes, too, that nobody but a member is
shown a project (`MembersShown`); for `UntouchedForm`, that a load fills the form with what it brings
(`FormFollows`); and for a page that is opened, that calls of the page before it cannot touch it
(`NothingLive`). The list has its dialogs besides: one is open at a time (`OneDialog`), each has one
request (`OneOfEach`), and unless it was dismissed it is open while its request is under way
(`OpenMeanwhile`). So what an answer closes or resets is its own. The lemmas at the head of
each module, `RemoveAtEntries` and `AfterLoadEntries`, say what `RemoveAt` and `AfterLoad` make of a sequence.

### `Account_proofs`

For any users, tabs, tokens, calls, numbers typed and requests:

| Theorem | Statement |
|---|---|
| `SessionCorrect` | `Spec => []ShownUserOwnsToken` of `ClientSession` |
| `TrialCorrect` | `Spec => []TrialIsLikeTheForm` of `Tutorial` |
| `ProfileCorrect`, `SavedNamesCorrect` | `Spec => []ProfileIsFresh`, `Spec => []SavedNamesShown` of `Profile` |
| `PhotoCorrect`, `BucketCorrect` | `Spec => []PhotoIsStored`, `Spec => []NoOrphanObjects` of `ProfilePhotos` |
| `NewestCorrect`, `RedemptionCorrect` | `Spec => []OnlyNewestWorks`, `Spec => []RedeemedOnce` of `PasswordReset` |

**Assumptions.** `AccountAssumption`, the conjunction of the five `ConstantsOK`: the marks are not users,
tokens or requests and not each other, the users registered at the start are users, and the bounds and
lifetimes are numbers.

**The client.** `ClientInv` is about each tab by itself, since tabs share no more than the stored token
and the server. `OwnsToken`: while nobody asks for the user, and unless the user is a late answer, the
user shown belongs to the token in memory. `SpinnersOfCalls`: a form waits just as long as its call is
under way, and only one of them at a time, without which the end of one call would end the spinner of
another. The types of the calls matter: an answer to a login or to a request for the user says whose
it is.

**The tour.** The types, for any numbers that can be typed; the rest is arithmetic that the provers do.

**The profile.** `RefreshFollows`: the only refresh under way brings what is stored, unless it misses a
change of another tab, was overtaken, or another handler is about to refresh. `UserFollows` is what
remains of it when no refresh is to come. `OneOfEachKind` keeps the spinner of one call from
being ended by another; the deletion of the photo, which nothing disables meanwhile, has none. Names
that nobody edited are on their way to be saved, in a call that holds just what the fields show, or
are those of the account (`FieldsFollow`).

**The photo.** Keys are new (`PhotoKeysAreNew`), so that a deletion never hits an object that is yet
to be named, and whoever has deleted the object in the row is going to write the row, or has failed
(`PhotoCovered`): the last of overlapping handlers repairs what the others left. `PhotosSerial` says
what a handler that runs alone finds at each stage, apart from the objects already lost
(`LostPhotos`); without it nothing bounds the bucket from above. The three ways in which a handler ends
share `PhotoEnds`: it leaves the photo in the row or among the lost ones.

**The links.** A request for a link that
runs alone has read every outstanding token when it replaces them (`NewestInv`); a token has at most
one redemption under way and an unused one has changed nothing (`OnceInv`); both need that a token
belongs to the request it is named for, and that a redemption which goes on still has it in the
table (`OwnToken`) unless the account is gone.

### `Pages_proofs`

What is proved of a component alone has to hold where TLC checks it, in `MCPages`. There the module of
proofs of the list is instantiated as the list is; each action of the one
instance is the same action of the other, so that the inductive invariants are kept, whichever
component moves (`SceneStep`), and imply the properties of `MCPages`. Those of `Account` and the charts are the
same definitions, and toasts and tokens are proved about directly:

| Theorem | Statement |
|---|---|
| `PagesListIsFresh`, `PagesDialogHasProject`, `PagesSuccessIsForSelected` | `MCSpec => []ListIsFresh`, `... []DialogHasProject`, `... []SuccessIsForSelected` |
| `PagesOnlyNewestWorks`, `PagesRedeemedOnce` | `MCSpec => []OnlyNewestWorks`, `... []RedeemedOnce` |
| `PagesShownUserOwnsToken`, `PagesTrialIsLikeTheForm`, `PagesProfileIsFresh`, `PagesSavedNamesShown`, `PagesPhotoIsStored`, `PagesNoOrphanObjects` | the theorems of `Account_proofs`, of `MCSpec` |
| `PagesDrawnOnScale`, `PagesLinesOnAxis` | the theorems of `ResultCharts_proofs`, of `MCSpec` |
| `PagesSubscribersShowStore`, `PagesClosedToastsAreRemoved` | `MCSpec => []SubscribersShowStore`, `... []ClosedToastsAreRemoved` |
| `PagesSpinnersEnd` | `MCSpec => []SpinnersEnd`: of the list, the profile and the client at once |
| `TokenTypesCorrect` | `Spec => []TypeOK` of `TokenRevocation` |
| `RevocationCorrect`, `PagesRevocation` | `Spec` of `TokenRevocation`, and `MCSpec`, imply `[]RevokedStaysRefused` |
| `PagesTypes` | `MCSpec => []TypesOK`: each of the nine components keeps its types, whichever moves |

**Assumptions.** `PagesAssumption` and `AccountAssumption`, the components' `ConstantsOK`,
`UnitAssumption` and `ChartsAssumption`, and `TTLAssumption`: an access token lives no longer than a refresh token, and the mark `Never` is no time.
That a handler ends within `Slack` is a guard of `Tick`.

**The types.** `PagesInv` is the conjunction of the nine inductive invariants. The types alone do not carry
themselves everywhere: the figures of a chart are in order because its result is of a list that was
submitted, which is `ChartsInv`, and `ResultOnScale` of that list.

**Toasts.** A closed toast has its timer only because the one in the store is the newest
(`NewestShown`): a timer that fires for an older one must not find it. `Copied` is about subscribers
that have missed nothing.

**The tokens.** `RevokedStaysRefused` speaks of one moment; the invariant behind it speaks of ends of
validity. `Kept`: a lookup does not forget an entry before a refresh token's lifetime is over since the
logout. `Outlived`: every token in question ends before that. A token that a refresh under way issues
after the logout is the case that needs `Pending`, that its handler began before the logout, and
`InTime`, that it ends soon enough. Without the restriction to tokens of the same worker `Outlived` is
false: another worker goes on issuing.

### What is not proved

All invariants of the passing runs are theorems. **Model-checked only** is liveness, which is beyond the
provers, as is ENABLED: `BusyEnds`, and `CacheSpec` as far as it says that a dirty cache becomes clean; its
safety part is proved. The violations are behaviours, which TLC shows.

## 5. Plan

The models cover every component that keeps or computes state, and every safety property that a run checks
is proved. What a later change of the code would have to bring along:

1. `update_project` neither revalidates opinions nor recalculates when the scale changes, the deletion of an
   account leaves the results of other people's projects as they are, and a removed member's opinion stays
   in the result. The code promises nothing here, so that no property does; `Opinions` has the actions
   (`UpdateScale`, `DeleteAccount`, `RemoveMember`), and `Fresh` is the property to ask for.
2. No handler takes a lock. If `recalculate` or `transfer_ownership` came to lock the project's row, the
   actions between the SELECT and the commit would become one, and the question is whether `stale_result`
   and `two_admins` then pass, and `UndisturbedIsFresh` and `OwnershipInSync` hold without their history variables.

### Not modelled

* Registration at the API: a check and an insert that the unique constraint on the e-mail address
  decides, as for the first opinion of an expert in `Opinions`.
* Queries, exports, e-mail, middleware, configuration and migrations keep no state of the system; what
  they can do to it, fail, is in the models. The rate limiter is a library.
* Static pages, theme, language, and the vendored components under `components/ui`, most of which no
  page uses.
* Code that nothing calls: `add_member`, `cleanup_expired` and `reset` of the blacklist,
  `UPDATE_TOAST`. The frontend's logout does not call `POST /auth/logout`: it forgets its
  token, which stays valid until it expires. The comment at `api/db/models.py:208` that the reset of
  passwords is not implemented is out of date.

## 6. Running

    tlc -workers 2 -config Opinions.cfg MCOpinions
    tlc -workers 2 -config CalculateEndpoint.cfg MCCalculateEndpoint
    tlc -workers 2 -config Membership.cfg MCMembership
    tlc -workers 2 -config ProjectPage.cfg MCProjectPage
    tlc -workers 2 -config Pages.cfg MCPages
    tlc -workers 2 -config WrongPassword.cfg Profile
    tlapm Opinions_proofs.tla
    tlapm Membership_proofs.tla
    tlapm ResultCharts_proofs.tla
    tlapm CalculateEndpoint_proofs.tla
    tlapm ProjectPage_proofs.tla
    tlapm ProjectList_proofs.tla
    tlapm Account_proofs.tla
    tlapm Pages_proofs.tla

The longest runs (`OpinionsOverlap.cfg`, `Pages.cfg`) take about a minute and a half, the proofs of
`Account_proofs` and `Pages_proofs` seven minutes each, those of the other modules at most three.
