# A TLA+ model of RentGo

RentGo rents out cars: an Express API over PostgreSQL (`src/`), a mobile app
(`mobile/`) and an admin panel (`admin-web/`). This directory holds a model of
the parts of it that are hard to test, the configurations that check it with
TLC, and proofs that TLAPS checks. Paths and line numbers are those of the
repository.

- [Inventory](#inventory)
- [Modules](#modules) and how they correspond to the code
- [Runs](#runs), their bounds and the fairness they assume
- [Disagreements with the repository's own claims](#disagreements)
- [Proofs](#proofs)
- [Not modelled](#not-modelled)

## Inventory

### The parts and what they keep

| Part | State | Operations | Talks to |
| --- | --- | --- | --- |
| Bookings (`src/modules/bookings`) | table `bookings` | POST, PATCH status, lists | cars (a read per operation), pool, advisory locks |
| Cars (`src/modules/cars`) | table `cars` | create, edit, delete, search | locations |
| Connections (`src/config/db.js`) | a pool per worker | `query`, `transaction` | PostgreSQL |
| Administration (`src/modules/admin`) | roles, activation, car and booking status | approve, reject, override, role, deactivate, delete | users, cars, bookings, audit log |
| Accounts (`src/modules/auth`, `users`) | table `users`, phones UNIQUE | register, profile, licence | administration, sessions |
| Sessions (`src/modules/auth`, `users`, `auth.middleware.js`) | `users.token_version`, `is_active`, table `refresh_tokens` | login, refresh, protect, change password | every route |
| Idempotency (`idempotency.middleware.js`) | table `idempotency_keys` | answer a repeated POST | bookings |
| Reviews (`src/modules/reviews`) | table `reviews` | create, list | bookings, cars |
| Setup (`db-setup.js`, `database/`) | schema, seeds | at every start of a worker | PostgreSQL |
| Life cycle (`server.js`) | listening, open requests | start, SIGTERM, SIGINT, restart by pm2 | setup, connections |
| Mobile API client (`mobile/src/services/api.ts`, `useAuthStore.ts`) | token pair, `isRefreshing`, `failedQueue` | attach the token, refresh once for all | sessions |
| Toasts (`useToastStore.ts`) | `queue`, `current` | show, hide, next | screens |
| Booking screens (`mobile/src/screens`) | what was last fetched, which buttons wait | book, cancel, confirm, poll, review | bookings, reviews |
| Car screens (`MyCarsScreen`, `AddEditCarScreen`, `CarDetailScreen`, `HomeScreen`) | lists, a form, filters | search, add, edit, delete, toggle | cars, locations |
| Admin panel (`admin-web/src`) | `pendingRequests`, React Query's cache, page, dialog | list, filter, change, sign in | administration |

The rest (logging, analytics, rate limiting, swagger, validation, translations,
uploads, layout) keeps no state that an interleaving could spoil. `PROJECT.json` lists every part with its status and reason.

### What is hard about it

*Concurrency.* `ecosystem.config.js` runs one worker per core, so handlers of
different workers interleave at every statement; the only mutual exclusion is
PostgreSQL's (advisory locks, UNIQUE constraints). Within a worker, handlers
interleave at every `await`. In the app, callbacks of several calls share
module variables.

*Two connections per transaction.* `transaction()` passes its client to the
callback, but most repositories ignore it and use the pool. So the writes of a
transaction commit by themselves, before its COMMIT and in spite of a ROLLBACK,
and every transaction needs a second connection while it holds the first.

*Reads that decide later writes.* The status handler reads the booking, then
the car, then writes by id only. The booking is created from a car read under a
lock that the cars' writers do not take.

*Failure.* A worker may die between any two statements; a COMMIT, a refresh or
a login may be carried out and its answer lost.

*What a device has seen.* A screen acts on a copy. Fetches overlap, are aborted
or time out, answers come late and in another order, a screen is left and opened
again, a button is tapped twice, and React's closures hold the state of an
earlier render.

*Starting together.* Every worker sets the database up with no lock, and may die
half way.

*Time.* A day ends between two statements of a handler; tokens expire; two
tokens signed in one second are equal.

### What makes the parts correct

- Bookings: no day of a car belongs to two active bookings; a status moves only
  along the transition table; the answer of a POST agrees with the table; no
  lock is left behind; every POST ends.
- Connections: none is lost; every caller gets one in the end.
- Sessions: an expired access token does not end a session; a refused call is
  settled; one refresh serves all calls of a device.
- Accounts: an active super admin keeps the role; only a super admin makes one; a
  refused request has changed nothing, and what is reported as done is done.
- Cars: where a car has both, its district lies in its region; a deleted car stays
  as it was.
- Reviews, idempotency: a booking has one review; a repeated call has one answer.
- Setup: a worker listens only over a complete database, and every worker
  listens in the end; samples are not inserted at every restart, nor beside cars
  that were found; SIGTERM breaks no request.
- Screens: what is shown goes forward and settles on what the server has; a button
  is shut only while an answer is awaited; one price, dates that are free; filters
  and cars agree.
- Admin panel: what counts as pending is awaited.

`PROJECT.json` lists the hazards at their lines, with the properties that
would catch them or the reason why none does.

## Modules

| Module | What it is | Code |
| --- | --- | --- |
| `Intervals` | overlap and length of half-open ranges of days | `bookings.repository.js:74-93`, `bookings.service.js:37-40` |
| `Booking` | the booking service, statement by statement | `bookings.service.js`, `bookings.repository.js`, `db.js`, writes to `cars` |
| `BookingCalendar` | what the booking service promises, in atomic steps | abstract |
| `BookingMC` | model values for the runs of `Booking` | |
| `BookingProofs` | proofs about `Booking`, and that it implements `BookingCalendar` | |
| `ConnectionPool` | pools, transactions and locks of the workers | `db.js`, pg-pool, `ecosystem.config.js` |
| `PoolMC`, `PoolProofs` | routes for its runs; its proofs | |
| `Sessions` | login, refresh, `protect`, on the server | `auth.service.js`, `auth.repository.js`, `auth.middleware.js` |
| `ApiClient` | the app's interceptors, composed with `Sessions` | `api.ts`, `useAuthStore.ts`, `LoginScreen`, `ProfileScreen` |
| `SessionsMC`, `SessionProofs` | model values for its runs; its proofs | |
| `Accounts`, `AccountsProofs` | table `users` and the handlers that write it; proofs | `admin.service.js`, `users.service.js`, `auth.service.js`, `audit.service.js` |
| `Startup` | the workers from start to end | `db-setup.js`, `seed-utils.js`, `server.js`, `ecosystem.config.js` |
| `BookingServer` | one booking as the screens see it, its review | `bookings.service.js`, `reviews.service.js` |
| `DetailScreen` | composed with `BookingServer` | `BookingDetailScreen.tsx` |
| `ListScreen` | composed with `BookingServer` | `MyBookingsScreen.tsx`, `ReviewScreen.tsx` |
| `OwnerDashboard` | composed with `BookingServer` | `OwnerDashboardScreen.tsx` |
| `BookingApp` | the three screens at once on both devices, beside the admin panel | `TabNavigator.tsx:20-69` |
| `BookingForm` | calendar, price, conflict and the dates proposed | `BookingScreen.tsx`, `bookings.service.js:42-94`, `bookings.repository.js` |
| `Catalogue` | table `cars` and the handlers that write it | `cars.service.js`, `cars.repository.js`, `locations.repository.js` |
| `CarForm` | composed with `Catalogue` | `MyCarsScreen.tsx`, `AddEditCarScreen.tsx`, `CarDetailScreen.tsx` |
| `FormProofs` | proofs about `BookingCalendar`, `BookingForm`, `Catalogue` and `CarForm` | |
| `HomeScreen` | the search | `HomeScreen.tsx` |
| `Retries` | attempts with one idempotency key | `idempotency.middleware.js` |
| `AdminPanel` | one tab of the admin panel and the tables behind it | `admin-web/src` |
| `ServerProofs` | proofs about `Startup` and `Retries` | |
| `ScreenProofs` | proofs about `DetailScreen`, `ListScreen`, `OwnerDashboard`, `BookingApp`, `HomeScreen`, `AdminPanel` | |
| `SystemMC` | the modules from `Accounts` on, on small instances, side by side | |
| `SystemProofs` | the proof of its invariant | |

### Booking

One step is one statement of PostgreSQL with the JavaScript up to the next
`await`. A POST is an element `r` of `Requests`; it runs once, so `bookings[r]`
can hold the row it inserts. `phase[r]` says how far it has come:

| `phase` | then | code |
| --- | --- | --- |
| `idle` | `Begin` | `pool.connect`, BEGIN |
| `waiting` | `AcquireLock`, `LockKeyRejected` | `pg_advisory_xact_lock(car_id)` |
| `locked` | `ReadCar` | `getCar` over the pool, the date test; 404 or 400 |
| `quoted` | `CheckOverlap` | `findOverlapping` on the client; a conflict |
| `inserting` | `Insert` | `bookingRepository.create` over the pool, which commits |
| `inserted` | `Commit`, `CommitLost` | COMMIT, which frees the lock |
| `rollback` | `Rollback` | ROLLBACK, which frees the lock; the error's status in `code[r]` |
| any of these | `Crash`, then perhaps `OrphanInsert` | the worker dies; an INSERT already sent still runs |

`update[u]` is a status handler (`ReadForStatus`, `CheckStatus`,
`WriteStatus`), `AdminSetStatus` the admin override, `EditCar`, `DeleteCar` and
`ModerateCar` the writes to a car, `NextDay` the clock. Times of day are left
out: the schema's dates are days, and the deadline of a cancellation compares
midnights. A car's id is either something PostgreSQL reads as a bigint or, as in
`schema.sql`, a UUID (`BigintKeys`); the code's properties are checked for both,
since everything behind the lock statement can only be reached with the first.

`unguarded` is a history variable: the bookings made active outside the lock's
protection, by a status write that revives a dead booking or by the INSERT of a
dead worker. It is written and never read by the actions.

`BookingCalendar` has three steps: a booking takes days that no guarded booking
holds, gives them back, or takes days unchecked and is known for it.
`ImplementsCalendar` maps a row in an active status to the days it holds.
`Insert` is where the days are taken; everything else the service does to them
is a `GiveBack`, a `TakeUnchecked` or a stutter.

### ConnectionPool

A handler runs a script of steps: `query` (a connection for one statement),
`connect`, `lock`, `client`, `release`. The scripts of `PoolMC` are those of
POST /bookings, PATCH /admin/users/:id/role and GET /bookings/my. Any statement
may fail, which leads to ROLLBACK and `release` inside a transaction and ends
the request outside. A handler serves requests for ever. The pool's queue and
PostgreSQL's lock queue are first come, first served; both are external and
modelled as the code uses them.

### Sessions and ApiClient

A token is the record of what its JWT says (user, version, second), so equal
records are equal strings, which the UNIQUE column cares about. The access and
the refresh token of a pair are signed together and share a record. `call[d][k]`
is the device's login or refresh as it moves through the server's statements.
In the app, `request[q]` follows one call: sent, accepted or refused by
`protect`, queued behind a refresh or performing it, done. `isRefreshing` is the
module variable of the same name, and `failedQueue` is the set of queued calls,
which are always settled together. `excused` is a history variable: the devices
whose session may rightly end (signed out, superseded by another sign-in,
answer lost, refresh token expired).

### Accounts

A request `c` names what it asks for in `asked[c]`, and `step[c]` is its next
statement: `find` (`findByPhone`), `protect`, then for the operations in
`Locked` `lock`, `actor`, `target`, `write`, `commit` or `rollback`, else `write`
alone, and `audit` for administrators. The lock belongs to a connection and the
writes go over the pool. So a worker that dies may leave a write behind that
runs after its lock is free (`OrphanWrite`), and a ROLLBACK undoes nothing. The
call of `getSuperAdminCount` throws, which is modelled as what it is, a 500.

### Startup

`stage[w]` is the statement worker `w` makes next; whether a table, a column or
a seed is missing is read at that statement, and what was read is where the
worker goes. `data` is the database. A worker that fails in the setup exits, and
pm2 restarts it. After `listen`, `Accept` and `Finish` serve requests, the two
signals end the worker as `server.js` does: SIGTERM closes the server and waits,
SIGINT ends the pool first.

### BookingServer and its screens

`row` is the booking with a `version` that counts its writes, which tells copies
apart. `patch[p]` and `submission[u]` are requests: sent, decided on a status
read, written, done or refused, `settled` when the device has the answer.
`owned` says whether the screen that sent it is still there to hear of it (`Leave`);
`by`, of a submission, whether its form is still open, is closed (`LeaveForms`), or
the device has given the request up.
A request comes from one of four `Screens`: the renter's list and details, the
owner's dashboard, or the admin panel, which may ask for any status. `Handles` is
what the server does; `Elsewhere(screens)` is what the other screens may do to the
booking while one is looked at, so each screen is specified beside any others.

`BookingApp` puts them together: on the renter's device the stack of screens, on
which the details are mounted while they are on it, on the owner's the
dashboard. Its steps are those of the screens, with the stack's and the details'
halves of one navigation in one step (`LeaveTheList`, `GoBack`, `AskForReview`).
`ReviewScreen.tsx:49` goes back when the answer comes, whatever screen has the focus:
`GoesBack` closes that one, and when it is the details, `DetailsFollow` unmounts them.

`DetailScreen` and
`ListScreen` abort the earlier fetch, `OwnerDashboard` does not, so its `dash`
numbers the fetches. An action is one event on the device with the effects React
runs for it; the poll of the details uses the booking of the render that started
it. A cancellation is two events, the tap that opens an alert and the alert's
button, with anything in between. The button of the details tests nothing
(`ConfirmCancel`), that of the list the `cancellingId` of the render its alert was
opened in (`TapListCancel`, `ConfirmListCancel`). `alerts` counts those that are open
and still ask for something, `stray` those that outlived the details they were
opened on; which of several is answered first makes no difference, since all ask for
the same. The dashboard may be left and opened anew (`CloseDash`, `OpenDash`), which
forgets `updatingStatus` while a PATCH goes on.

### BookingForm

A day is its number from today on, `CalendarDays` is `Today .. LastDay`.
`NextAvailable` is the loop of `bookings.service.js:56-79`: `Loop` is a recursive
function from the number of passes to what has been found and what is left, and
`Scan` one pass. `posted` holds what the renter saw and what the
server charged. As shipped the calendar and the conflict answer 500 (see
`conflict_reply`); the form is modelled against a server that answers them and
against one that fails.

### Catalogue and CarForm

`PATCH /cars/:id` reads the row, tests owner and place, and writes: `Send`,
`CheckRequest`, `WriteCar`. `Edited` sets `region_id` and `district_id` to what the
request has, NULL included, and COALESCEs the rest; the test takes the half that
the request lacks from the row. `CarForm` adds the owner's list, the form over it or
over the tabs, and the details of a car over the tabs, with the lists of regions and
districts as fetches. Each may be left with requests under way: `strayReads` counts
the reads that go back should they fail, `request[q].screen` says whether a save or a
deletion is still awaited, and `PopScreen` is `goBack`, whichever screen calls it
(`SaveEnds`, `LateSave`, `LateRead`). `Broken` is a form that looks a name up in a
list that does not have it, which is a crash of the screen. The alert before a
deletion is left out: it tests nothing, and what it confirms is `DeleteMine`.

### HomeScreen, Retries and AdminPanel

`HomeScreen` holds three filters, the text's timer, and the fetches by the
filters they are for. `Retries` holds the row of one key and, for each attempt,
where it is between the look-up, the handler and the store.

`AdminPanel` is one tab. `lists` is React Query's cache, `run` the fetch of the
query on the screen with its retries, `wire` the axios requests, each with the
key of `api.ts`, and `pendingRequests` the table of that file. Sending a request
like one that is pending aborts it, and the error handler deletes the key, which
belongs to the other: `PendingAfterSending` and `PendingAfterError`. After a
change the page is invalidated and fetched anew; the earlier fetch is still on
the wire but silent. `busy` is the request for which the page on the screen is
disabled: `isPending` of its mutation, or `loading` of the settings, which is local to
them, is forgotten when they are left, and whose success fetches nothing
(`FormSaved`). A dialog covers the page, so none is left while one is open; the
browser's own back button is not modelled.

## Runs

| Run | Question | States |
| --- | --- | --- |
| `create_race` | two POSTs, two cars (one with a UUID), the owner and a moderator: no double booking, no leaked lock, the answer agrees with the table, every POST ends | 646 000 |
| `overrides_and_crashes` | the same with admin overrides and two faults: the inductive invariant, and the refinement of the calendar | 150 000 |
| `one_status_handler` | owner, renter or admin, one handler at a time, over midnight: a move the table grants its caller | 39 000 |
| `pool_with_spare` | two workers, three connections, three transactions and a read: nothing lost, every request ends | 36 000 |
| `mobile_session` | two calls of one phone over an expiring session, a tablet of the same user, one disturbance | 346 000 |
| `other_components` | the modules from `Accounts` to `AdminPanel`: each component on its own, each screen of a booking beside any others, and all of them as one app | 343 000 |
| `rebooked_while_confirming` | two status handlers: a stale confirm | violated |
| `orphan_insert` | a worker dies with its INSERT under way | violated |
| `conflict_reply` | what a conflicting POST is answered | violated |
| `uuid_lock_key` | the lock statement with the schema's ids | violated |
| `late_unauthorized` | a 401 that arrives after the sign-out | violated |
| `stacked_alerts` | two alerts over one booking of the list | violated |

### Bounds

- Two POSTs are enough for every collision the code can produce, since a
  collision is between two bookings, and the proofs hold for any number.
- `MaxDay = 2` gives ranges that are nested, adjacent and apart, and the
  zero-day range that the schema lets through. Adjacent ranges are what the
  half-open comparison is about.
- `LastToday = 1` lets the deadline pass while a handler is between its reads.
- `MaxFaults = 2` lets both workers die, or one die and one COMMIT be lost.
- `Prices = {1}`: no property depends on the price.
- `overrides_and_crashes` has no status handler: an admin override may write any
  status at any time, which includes whatever a handler writes.
- `pool_with_spare` has one transaction fewer than connections on the busier
  worker, the largest number for which the claim holds; three connections stand
  for pg-pool's ten.
- `MaxTime = 2` with `AccessLife = 1`, `RefreshLife = 2` lets an access token
  expire twice and a refresh token once. `MaxDisturbances = 2` bounds sign-outs,
  lost answers, password changes and deactivations together. `late_unauthorized`
  has two of them, one to end the session and one to meddle with the next; `mobile_session`
  has one, and a tablet that may sign the same user in: it is there because
  two devices of one user disturb each other without any (see below).

`other_components` explores twelve parts, one in each behaviour, while the
variables of the others keep one initial state: they share nothing, so
interleaving them would only multiply states. The bounds of its parts:

- *accounts*: two requests out of fourteen, a super admin, an admin, a user and
  a free id, one fault. Every collision is between two requests: two of one
  phone, a promotion and a demotion, a deletion and a profile.
- *startup*: two workers, one request, one death; no database at all, or an old
  one that lacks columns and whose seeds' phone belongs to a user.
- *detail, list, dashboard*: a screen beside any others. A pending booking with
  two status requests or one, a started one with one of each kind, a completed
  one with two submissions; two alerts, one lost answer. Of the other screens only
  the panel asks, once and only for `confirmed` (`PanelAsks`), which it may set
  whatever the status is: so a booking also goes back. Beside the dashboard nobody
  asks. Another booking of the list is cancelled before the second request of the
  one that is followed.
- *app*: all screens at once, with one request of a kind, one alert and no lost
  answer; the dashboard, which only *dashboard* leaves and opens anew, has one fetch
  at a time.
- *form*: four days, two prices, two POSTs, a table of nested bookings and one
  with a gap between two, and another renter who books meanwhile.
- *catalogue*: two requests at a time out of nine, an approved and a pending
  car, two regions with a district each; one of the requests has a district alone.
  *cars*: one request at a time from the screens, two fetches in flight, three picks.
- *home*: three taps and one lost answer, which is two changes of the filters
  with the first fetch still under way, and a third.
- *retries*: three attempts, one failed statement, with and without the table.
- *panel*: an admin, two rows, one to a page, one retry, three requests sent:
  one pending, its duplicate, and the one that passes after it.

Only requests are interchangeable, and only `overrides_and_crashes` declares the
symmetry: the other passing runs of `Booking` are small without it, and
`create_race` checks liveness, which symmetry could spoil.

### Deadlock and fairness

Deadlock is checked in the passing runs of `Booking` and `ConnectionPool`: the
cars' writers and the handlers never stop. The runs of `ApiClient` may stop, when every call
is done and the clock at its bound, and so may the parts of `SystemMC`, when the
requests they have are used up.

- `Booking!FairSpec`: weak fairness of what the server does for each POST it has
  begun. Node runs the continuation of every statement that is answered, and
  PostgreSQL answers. Nothing is assumed of crashes, clients or other writers.
  `AcquireLock` needs no strong fairness because each POST runs once, so the
  lock is taken from a waiter only finitely often.
- `ConnectionPool!FairSpec`: weak fairness of each handler's steps and of each
  pool's `Grant`. The two queues are part of the state, so who comes first is
  not left to fairness. Nothing is assumed of arrivals.
- `ApiClient!FairSpec`: weak fairness of each call's callbacks and of each
  login's and refresh's progress. An answer that never comes is a network error
  in the end. Nothing is assumed of the user.
- `SystemMC!SystemFairness`: weak fairness of what a live server does for a
  request (`Handle`), of what goes on by itself in a worker (`Proceeds`: the
  setup, pm2's restart, open requests), of the details' interval timer (`Poll`)
  and of the answers they wait for (`DetailProceeds`). Nothing is assumed of
  users, signals, deaths or lost answers; the counters bound the faults.
  `DetailsCatchUp`, which is `DetailCatchesUp` of the part *detail*, speaks of a
  renter who stays: leaving is `Nothing`.

## Disagreements

Each has a run that TLC finds violated; `PROJECT.json` quotes the claim.

1. `uuid_lock_key`: `pg_advisory_xact_lock` takes a bigint, `car_id` is a UUID.
   With the shipped schema, POST /bookings is answered 500.
2. `conflict_reply`: `findUpcomingBookings` names `BOOKING_STATUS` without
   importing it. A conflict is answered 500 instead of 400.
3. `rebooked_while_confirming`: renter cancels, somebody else books the days,
   and the owner's confirm, decided before, makes the first booking active
   again. The same stale write leaves the transition table with two handlers of
   one booking, so `StrictTransitions` is claimed of one handler at a time.
4. `orphan_insert`: the lock belongs to one connection, the INSERT runs on
   another. If the worker dies in between, the lock is free first.
5. `late_unauthorized`: the early return at `api.ts:79-82` leaves
   `isRefreshing` set. It takes two calls refused around a failed refresh; after
   the next sign-in and expiry, every call waits for ever.
6. `stacked_alerts`: two taps before either alert is confirmed leave two alerts whose
   handlers both read the `cancellingId` of a render in which it was null
   (`MyBookingsScreen.tsx:84-87`), so both send a PATCH, although the comments at
   lines 28 and 85 speak of "double-action protection". Between two confirmations
   the end of another booking's cancellation does not matter: the id is never
   cleared, but that of another booking takes its place.

Met while modelling, without a run of its own.

*Server.* A COMMIT that fails answers 500 and keeps the row (`CommitLost`). The
start of a booking is not compared with today, although `bookings.routes.js:50`
says so. A car withdrawn between `getCar` and the INSERT is booked. GET /cars
always answers 500, since `cars.repository.js` uses `CAR_STATUS` without
importing it. The writes of an administrative transaction survive its ROLLBACK,
and no super admin can be demoted, since the count throws. A PATCH that omits
the place of a car sets it to NULL; one of a car deleted meanwhile answers 200
without a car; a moderator may give a deleted car a status. The table of
idempotency keys is made by no shipped setup, in which case every attempt
runs the handler, although `README.md:95` promises protection against
duplicates; a key is not tied to a user, and errors are stored like answers. The
seeds fail for good if the phone of the sample user or of the admin belongs to
somebody deleted, which is the exception in `EveryWorkerListens`.

`transaction()` holds a client while its callback asks the pool for another, and the
pool has ten and no timeout: ten role changes in flight on one worker would wait for
each other for ever. `pool_with_spare` keeps below that and `SpareConnection` says why
it is enough; as shipped a POST fails at its lock before it asks for a second one, and
no text of the repository promises that a request ends, so no run claims it.

`bookings.routes.js:208-209` says "Admins can set any status (confirmed, cancelled,
completed)". On that route an admin is bound by `allowedTransitions` as the others are
(`bookings.service.js:160-177`), which is what `StrictTransitions` says of it; it is
PATCH /admin/bookings/:id/status that sets any status (`AdminSetStatus`).

`README.md:81` and `:93` speak of tokens "with versioning" that are "invalidated on
password change/deactivation", and `protect` refuses such an access token
(`auth.middleware.js:35-38`). `refresh()` (`auth.service.js:59-81`) looks at neither
`token_version` nor `is_active`: a refresh token issued before still brings a new pair
with the new version. `RefreshFind` and `Sign` do what it does. `SessionSurvives`, on
the other side, promises nothing for such a session (`ChangeUser` excuses its devices),
and for any other that the tokens it holds are current ones (`Current`).

`README.md:100` says "Phone uniqueness only for non-deleted users", and
`database/critical_fixes_migration.sql` makes that index, but no setup runs the file.
In `schema.sql:8` the column is UNIQUE over deleted rows too: registering the phone of
a deleted account passes the look-up and answers 500. `PhoneTaken` is the shipped
column, and `PhoneHasOneOwner`, a part of `AccountsInv`, follows it.

`_validateLocation` says "Region and District are required", but `updateCar` hands it
the row's half for the one that is missing (`cars.service.js:50`), and
`cars.repository.js:153` writes NULL for that half. So an edit with a district alone
leaves a car with no region, of which `LocationConsistent` says nothing.

*App.* A refresh answered after another user has signed in replaces their
tokens (`TokensMatchUser`, which TLC refutes with `Users <- AnnAndBob` in
`late_unauthorized.cfg`). `MyBookingsScreen` never clears `cancellingId`, so a
cancellation that failed cannot be tried again until another booking is cancelled.
The details test nothing when an alert is confirmed, so two alerts send two PATCHes,
even after the status has changed. Leaving the dashboard and opening it anew lets a
second PATCH race with the first, which is why `OwnerMovesLegally` speaks of an owner
who has waited (`OwnerWaits`). A late `goBack` (`ReviewScreen.tsx:49`,
`AddEditCarScreen.tsx:119` and `:190`, `CarDetailScreen.tsx:74`) closes whatever screen
has the focus by then, another form with what was typed into it included. The calendar takes taps while a booking is being sent, and the success
screen opens even if the form was left. The form of a car crashes when the list
of districts is missing or that of another region. A lost answer to POST /cars
lets a second save make a second car. An aborted search clears the spinner of
the one that replaced it. The details promise a cancellation of unconfirmed
bookings that no server code carries out.

*Admin panel.* A refused duplicate deletes the key of the request it duplicates,
so a third one passes. A PATCH with a body is entered under another key than
it is deleted under, for axios has stringified the body by then; the next one like
it is refused, and only that frees the key (hence `HasBody` in
`PendingIsAwaited`). The search text for users and cars is ignored by the server.
"Next" is enabled past the last page. A change that fails leaves its dialog open.

## Proofs

TLAPS checks the following, for any constants that satisfy the modules' named
assumptions. Each inductive invariant is a definition of the module it is about,
and is itself an invariant of a run.

| Module | Theorem | Property | Inductive invariant |
| --- | --- | --- | --- |
| `BookingProofs` | `TypeCorrect`, `NoGuardedDoubleBooking`, `LockNeverLeaks` | `TypeOK`, `GuardedNoDoubleBooking`, `NoLeakedLock` | `IInv` (`Invariant`) |
| | `AnswersAreTrue` | `AnswerMatchesTable`, without faults | `AnswersKept` and `AsAsked` in `IInv` |
| | `NeverDoubleBooked`, `OneHandlerIsStrict` | `NoDoubleBooking`, `StrictTransitions`, for a single writer | `SeenIsCurrent` in `IInv` |
| | `RefinesCalendar` | `ImplementsCalendar` | `IInv` |
| `FormProofs` | `CalendarKeepsPromise` | `NoClash` | with the types |
| | `RenterIsChargedAsSeen` | `ChargedAsSeen` | `FormInv` |
| | `ProposesFirstFree` | `ProposalIsFirstFree` | `TableInv`, with `FormInv` |
| | `CatalogueLocations`, `CatalogueDeleted` | `LocationConsistent`, `DeletedStays` | `CatalogueInv` |
| | `FormLooksUpWhatIsThere` | `FormBreaksOnlyByLateLists` | `CarFormInv` |
| `PoolProofs` | `PoolNeverLocksUp`, `KeysFreedByTransactions` | `SpareConnection`, `KeyHeldByOpenTransaction` | `PoolAndLocksInv` |
| `SessionProofs` | `SessionsSurviveExpiry` | `SessionSurvives` | `SessionInv` |
| `AccountsProofs` | `AccountsSuperAdmins`, `AccountsPromotions` | `SuperAdminsKept`, `PromotedBySuperAdmin` | `AccountsInv` |
| | `AccountsAnswerTruly` | `AnswersTruthful` | `TruthInv` |
| `ServerProofs` | `WorkersListenReady`, `SamplesAreBounded`, `TermIsAlwaysGraceful` | `ListeningMeansReady`, `SamplesBounded`, `TermIsGraceful` | `StartupInv` |
| | `FoundCarsAlwaysStay`, `CarsAreKept` | `FoundCarsStay`; *n* cars at the start stay *n* | `StartupInv` |
| | `RetriesAlwaysAgree` | `RetriesAgree` | `RetriesInv` |
| `ScreenProofs` | `DetailsGoForward`, `DetailsNeverWaitInVain` | `DetailNeverGoesBack`, `DetailAwaits` | `DetailInv` |
| | `ListOneReview`, `ListGoesForward` | `OneReview`, `ListNeverGoesBack` | `ListInv` |
| | `OwnerAlwaysMovesLegally` | `OwnerMovesLegally` | `DashInv` |
| | `AppImplementsDetails`, `AppImplementsList`, `AppImplementsDashboard`, `AppIsSafe` | the properties above, of `AppSpec` | those of the screens |
| | `DetailsMountedOnStack` | `MountedOnStack` | with the screens' invariants |
| | `HomeKeepsUp` | `HomeShowsFilters` | `HomeInv` |
| | `PanelPendingIsAwaited` | `PendingIsAwaited` | `PanelInv`, with the types (`PanelInvariant`) |
| `SystemProofs` | `SystemInvariant` | `SystemInv` | itself |

### Why the invariants are what they are

*Booking.* `GuardedNoDoubleBooking` is not inductive: from a state where a
request is about to insert days that somebody else has meanwhile taken, `Insert`
breaks it. The strengthening says why there is no such state:

- `LockCoversWindow`: from the grant to COMMIT a request is the only holder of
  its car's key, so no second request of that car is between its check and its
  INSERT;
- `CheckStillValid`: what `findOverlapping` saw stays true until the INSERT. A
  conflicting row could come from another `Insert` (it would hold the same key),
  or from a status write or an orphan (it is in `unguarded` then);
- `RowWhenInserted`, `DatesChecked`, `HandlersHoldRows`: a row exists exactly
  from `Insert` on, carries the dates of its request, which are not empty, and is
  never removed.

Three properties do not hold of every instance, and their theorems say where
they do. A POST answered 201 has a row of just the car and the dates it asked for
(`AsAsked`), and one answered 500 has left no row *while nothing has failed*
(`AnswersAreTrue`; `CommitLost` is the failure that breaks it). No day is
promised twice *while nothing has failed and one handler at a time writes
statuses* (`NeverDoubleBooked`), and that one handler makes only moves the table
grants its caller (`OneHandlerIsStrict`). `SingleWriter` says so of the constants: no
override, at most one element of `Updaters`. Its invariant `SeenIsCurrent` is
what the UPDATE by id takes for granted: the status that was read is still the
row's. `rebooked_while_confirming` and `orphan_insert` violate the two
hypotheses, one each.

*The calendar.* `RefinesCalendar` proves `Spec => ImplementsCalendar`: the initial
state maps to the calendar's, `Insert` maps to `Reserve` by `CheckStillValid`,
status writes and orphans to `GiveBack`, `TakeUnchecked` or a stutter, everything else
to a stutter. `CalendarKeepsPromise` then gives no day to two guarded bookings.

*The booking form.* `ChargedAsSeen` compares two rules: the screen's
`Math.max(days, 1)` and the service's `diffDays`. They agree since what a POST
carries has `start < end` when it is charged (`PostInv`).

`ProposalIsFirstFree` is about a loop over a table of any finite size (`TableInv`).
`Passed` is the loop's invariant: of the bookings that have been passed, none starts
later than one that is left, and before the day found no start of the length
asked for is free. `PassedFirst` is its beginning, `PassedNext` one pass (by
`ScanPassesBooking`), `SearchedAllIsFirstFree` what it says when nothing is left. The
induction that links them, and the one that shows `Loop` to be the function its
recursion describes (`LoopUnfolds`), take the least pass at which the fact would
fail: `LeastNat`, from the well-foundedness of `<` on the naturals, says that there
would be one. Bookings that start on one day may be passed in either order, as
`ORDER BY start_date` leaves it.

*Pools and locks.* Idle connections, transactions and running queries of a pool
always add up to `PoolSize`; the invariant adds where a handler can be when it
holds a client and that a pool's queue lists each waiting caller once.
`PoolNeverLocksUp` follows by counting: if a worker opens fewer transactions than
it has connections and none is idle, some connection runs a query, and that one
comes back by itself. `LinesOfTransactions` says the same of a key: who is in its
line is an open transaction, and all but the first still wait. It needs that a
script locks once, as every transaction of the code does (`WellFormed`).

*Sessions.* `OneRefresh` makes the calls of a device share one refresh.
`Undisturbed` follows a pair through the refresh: the old token is stored until
`delete`, nothing is stored until `insert`, the new one is after. `Outdated` says
what another device of that user may still hold: tokens older than the pair, and
calls that have changed nothing yet. Without the second the first is not
inductive, and the attempt to prove it for several devices found the reason: two
devices that sign one user in within one second hold *equal* tokens, so a refresh
of one deletes the other's, or meets the UNIQUE column. `excused` names that case
(`Rivalled`), and `mobile_session` has a second device so that TLC sees it.

*Accounts.* The phones (`PhoneHasOneOwner`) are inductive with the types, since only
the UNIQUE constraint keeps them apart: the look-up before the write proves nothing.
For `SuperAdminsKept` and `PromotedBySuperAdmin` the invariant adds `LockHeld` (a
request between its lock and its COMMIT is the holder) and `RolesRead`: as long
as no write is orphaned, a transaction about to take a role away has a target
that is no super admin, and one that promotes has an actor who is. `TruthInv`
says of each step of a handler what it has written so far and whether the row it
has found is still there. The proof of `AnswersTruthful` found that it was too
strong for other constants than the run's: an id that nobody has when it is
deleted may be registered later, so the exemption is about the first users.
Assumed: the first users have distinct phones, and `None` is no value of another
kind.

*Catalogue and form of a car.* `CheckedHolds`: an edit between its test and its
write carries the very place it was tested for, and the row it will write is
there. It is because an edit writes just the place it carries, and takes no half of it
from the row, that the stale read does no harm to a place that is whole. `PlaceInv`: the district of the form lies in its region, and the
list of districts at hand is that region's, unless a list failed or was
overtaken. The lemmas on what a screen that is left sets aside (`AsideTold`,
`AsidePopped` and their like) carry both over a `goBack`, whichever screen it closes.
Assumed: the cars of the initial tables lie in one place; there is a
car.

*Startup.* `Provided` says for each stage of a worker what must be in the
database by then; since nothing is ever removed from it except the sample user,
what one worker has found another cannot spoil. The check at `db-setup.js:80`
does not ask for `cars` and the other tables in between, so `ListeningMeansReady`
needs that the tables of an old database were made in the order of `schema.sql`
(`InOrder`), which is assumed of the databases a cluster may start on and kept by
every step. `Sampled` counts: rows in `cars`
beyond one set per worker would need a worker that counted none twice. That bounds
what racing workers may add, and lets a database that had a few cars grow;
`FoundCarsStay` is the other half: with cars there and nobody at the samples, nobody
begins, so `CarsAreKept` for a database that had some.

*Idempotency.* `AnswersKept`: where no statement fails, an answer is sent only
once a row is stored, and an attempt made later finds it.

*Screens.* `DetailInv`: the fetch in flight is the only one and has read a copy no
older than the one shown, since the earlier one is aborted; a spinner has its
fetch, the shut button a cancellation the screen still awaits, of which two alerts
may have sent several: the first answer opens the button, so it is never shut in
vain, though it may be open too early. A screen that is gone awaits nothing. `ListInv`
says the same of the list's fetch (`ListCopiesInv`), with the review a copy knows of,
and of the submissions that at most one is awaited, by the form that is open
(`StackInv`). `DashInv`: as long as the owner has waited, one PATCH at most is not
settled and the buttons are shut meanwhile, so what the server has found allowed is
so until it is written. `HomeInv`: a fetch in flight is for
the filters that are highlighted. `PanelInv`: the shape of requests; the case
that needs care is the refetch after a change, which deletes one key and may
enter another. `BusyIsAwaited` says that a page is busy only with a change of its own
that is still on the wire, so its buttons are freed in the end. Its types are proved with it, since a page stays positive and a
retry is left only by what the fetch in flight remembers.

*The app.* Each screen is specified beside any others, so a theorem about it
assumes of the rest no more than `Elsewhere` says: a request of another screen is
one that screen may make, and is answered as the server answers. Composing them
means to show that every other screen keeps to that. `AppImplementsDetails`,
`AppImplementsList` and `AppImplementsDashboard` do so, step by step: what the list
or the form of a review does is an `Elsewhere` of the details and of the dashboard,
and so on round. `AppIsSafe` then carries the properties of each screen over to all
of them at work at once. The one fact that belongs to the whole is
`DetailsMountedOnStack`: the details are mounted exactly while they are on the stack,
also when a late answer to a review closes them. The step that takes them off it is
one of the list's and one of the details' (`Unmount`, by `ReviewSucceeds` from
elsewhere), which is what `AppImplementsDetails` has to show.

*The other components together.* `SystemInv` is the invariant of `other_components`.
`StepOfPart` says that a step of the run is one of the component that is looked at and
leaves the others alone; `BookingPartsKeep` and `CarPartsKeep` do the parts that
share variables, from the lemmas that a step of each component keeps its
invariant and its types. So the types too hold for every value of the constants.

### What the proofs changed in the model

`PatchFails` and `ReviewFails` could answer a request twice; they now need one
that is not settled. Several CASEs had guards that overlap, whose value TLA+
leaves open though TLC takes the first; they are IFs now. `SmartBook` proposed
days beyond the bound on the calendar. `DetailAwaits` counts the renter's own
requests only, and so holds of every behaviour of the server. A busy page of the
admin panel was freed by the end of any change, whichever page had asked for it; it is
freed by its own now.

`DecidePatch` did not allow what `getCar` brings about, a refusal because the car
is withdrawn; any PATCH may be refused now. The screens' server left out the
PATCH of the admin panel (`bookingsService.ts:16`, `admin.repository.js:134`),
which asks nothing of the transition table; it is a screen of its own now, and
`OwnerMovesLegally` is proved under the hypothesis that the owner asks alone. The
form of a review could be opened from the details only when the *row* was
completed; it is the copy the details show that decides. `AnswerMatchesTable` said
less than its comment, that a booking answered 201 is the one that was asked for;
it says so now. `SystemInv` looked at the table of bookings in the catalogue's
parts instead of the form's, and `FormTypeOK` put every proposed day on the calendar
of the run, although the service proposes days without end.

### What is only model-checked

The liveness properties `EveryPostEnds`, `EveryRequestEnds`, `EveryCallSettles`,
`WorkersListen` and `DetailsCatchUp`, since ENABLED and fairness are out of the
prover's reach. Every invariant and every action property of a passing run is
proved, three of them where their theorems say (see *Booking*). No module declares a RECURSIVE operator.

## Not modelled

`PROJECT.json` has every part with its status. Left out, and why:

- Logging, analytics, API documentation, layout, translations: output only.
- Rate limiting: counters inside libraries that nothing else reads.
- Errors, validation, uploads: stateless; the statuses are in the handlers.
- Toasts: a queue of messages for the eye, on which nothing else depends.
- Scripts an operator starts by hand (`src/scripts`, the two migrations).
- Averages of ratings, statistics, images, the descriptive columns of a car.
- `updateBookingDates` and POST /auth/logout, which nothing calls.
- Registration and profile screens beyond the session they change: forms over
  one request each, whose server side is `Accounts`.
- The four server models share the tables `bookings`, `cars` and `users` only by
  name: `Booking` has the columns of a car that bookings read, `Catalogue`
  those of its place, `Sessions` and `Accounts` those of a user that each writes.
