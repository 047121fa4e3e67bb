# SlotAlert in TLA+

SlotAlert fills cancelled appointments: the owner publishes a slot, the waitlisted
customers who match it get a WhatsApp alert, and the first to answer books it.
This directory models the parts of the program whose correctness depends on the
order of things, checks them with TLC and proves the main results with TLAPS.
Paths below are relative to the repository root.

## Inventory

| Component | Code | State | Operations | Must hold |
|---|---|---|---|---|
| Claim engine | `src/services/slot_service.py` | row of `slots` (status, claimed_by, version), Redis key `lock:slot:<id>` | `create_slot`, `claim_slot_atomic`, `cancel_slot_by_owner` | one winner, named on the row; no claim waits for ever |
| Slot lifecycle | `services/broadcast_service.py`, `tasks/broadcast_tasks.py`, `services/dashboard_service.py` (quick-publish) | the same row, `broadcast_logs`, sessions of running executors | `prepare_and_queue_broadcast`, `execute_slot_broadcast` (run twice per broadcast), quick-publish | no slot stuck in SENDING; booked and withdrawn are final (the program only keeps this where nobody still acts on an older status); one alert per customer; every alert logged |
| Task queue | `tasks/queue.py` | Redis list `slotalert:task_queue` | `enqueue`, `process_one_job`, worker loop, stop | at most one run per job; a job is lost with its worker |
| Spam guard | `services/messaging/spam_guard.py`, `services/notification_service.py` | `broadcast_logs` of the last 24 h | `can_send_notification`, owner alert on claim | two alerts per customer in 24 h |
| Webhook pipeline | `routers/webhooks.py`, `tasks/webhook_tasks.py`, `core/security/whatsapp_signature.py` | dedup keys, queue, sessions | ingestion, receipts, claim clicks, opt-out | every click is decided once and answered truthfully; silence has a cause |
| Waitlist | `services/customer_service.py`, `routers/public.py`, opt-out in `webhook_tasks.py` | `customers`, `customer_preferences` | register (web, manual), opt-out | one row per phone; a later request replaces an earlier one; an opt-out is heard |
| Matching | `services/matching_service.py`, `utils/time.py` | none | day, time of day, service filter | who asked for such a slot is chosen, and nobody else; preview and broadcast agree |
| Phones, schemas | `schemas/customer.py`, `utils/phone.py` | none | normalise, clean, search variants | a phone is found however it was typed |
| WhatsApp client | `services/messaging/whatsapp/client.py` | none across calls | `_post_with_retry` | bounded attempts; a duplicate only for a retry |
| Login codes, access | `services/auth_service.py`, `core/security/auth.py` | Redis keys `auth:pin:*`, `otp:login:*`, tokens | request, verify, `get_current_business` | a code logs in once, to its own business; a token opens its own dashboard |
| Registration, dashboard | `services/business_service.py`, `database/seed*.py`, `services/dashboard_service.py` | `businesses`, `services` | slug choice, seeds, preview, queries | unique slugs and phones; the search ends |
| Shell | `main.py`, `config`, `database`, alembic, static pages, `scripts`, `deploy` | none | start-up | out of scope |

How they interact: routers call services in the request's own database session
(READ COMMITTED, `expire_on_commit=False`: an object once loaded keeps its values).
A broadcast is handed to the request's BackgroundTasks *and* to the Redis queue,
whose worker loops run in every uvicorn process. Webhooks only enqueue; a worker
loop processes them and calls the claim engine. All writers of a slot meet on its
row in PostgreSQL. Apart from the claim's `UPDATE ... WHERE status = 'OPEN'`, they
read the row, await other things, and then write `UPDATE ... WHERE id`.

The hard behaviours: concurrent sessions with stale objects, two executors for
each broadcast, at-most-once jobs, a lock with a TTL, crashes between two commits,
redelivered and reordered webhooks. PROJECT.json lists them as hazards, each at
its line.

## Modules

| Module | Models | Code |
|---|---|---|
| `FcfsSlot` | what one slot promises: published once, taken once by the first customer, only that customer is told so, never taken after withdrawal | abstract |
| `ClaimEngine` | claims of one slot statement by statement, the Redis lock, the row's lock, cancellation | `slot_service.py` |
| `ClaimEngine_proofs` | its theorems | |
| `SlotLifecycle` | all writers of one slot's row, the queue and both executors | `broadcast_service.py`, `broadcast_tasks.py`, `queue.py`, `slot_service.py`, `dashboard_service.py` |
| `SlotLifecycle_proofs` | its theorems | |
| `AlertBudget` | the alerts one customer gets from broadcasts of different slots | `spam_guard.py`, `broadcast_service.py`, `broadcast_tasks.py`, `notification_service.py`, receipts in `webhook_tasks.py` |
| `AlertBudget_proofs` | its theorems | |
| `GraphRetry` | one call to Meta's Graph API, its retries and lost answers | `client.py` |
| `ClickContract` | what the webhook promises of each message: decided once, the sender hears that decision only, the owner after the winner | abstract |
| `WebhookPipeline` | posts of payloads, signature, queue, workers, dedup key, claim, opt-out and the answers; composes `GraphRetry` | `webhooks.py`, `whatsapp_signature.py`, `queue.py`, `webhook_tasks.py` |
| `WebhookPipeline_proofs` | its types, `ActedOnce` and `OnlyGenuineActs` | |
| `WebhookAnswers_proofs` | what senders and the owner are told, and the refinement of `ClickContract` | |
| `Phones` | spellings of a phone: stored, dialled, looked up | `schemas/customer.py`, `utils/phone.py` |
| `Matching` | which preference rows a slot answers to | `matching_service.py`, `utils/time.py` |
| `Waitlist` | registrations, opt-outs, previews and choices of recipients under READ COMMITTED; composes `Phones` and `Matching` | `customer_service.py`, `public.py`, `webhook_tasks.py`, `dashboard_service.py`, `broadcast_service.py` |
| `Waitlist_proofs` | its theorems, and the lemmas on `Phones` and `Matching` they rest on | |
| `Accounts` | registrations of businesses, the seed scripts, tokens and the access check | `business_service.py`, `public.py`, `seed.py`, `seed_production.py`, `core/security/auth.py` |
| `Accounts_proofs` | its theorems | |
| `LoginCode` | login codes of both kinds over `Accounts` | `auth_service.py` |
| `LoginCode_proofs` | its theorems | |
| `MC*` | the instances TLC checks | |

Definitions whose comment begins with "Slip" are plausible mistakes in the code;
each shows that one of the properties would catch it. No specification uses them.

### ClaimEngine

A request walks through `pc`: customer check, `lock.acquire`, the UPDATE, the commit
and reload or the inspection of the slot, and the `finally` clause. `rowLock` is
PostgreSQL's lock on the row from the UPDATE to the end of its transaction: the
WHERE clause is evaluated once the lock is free, on the committed row. `redisLock` is
the token in Redis; it can be acquired, time out, raise (with or without the key
having been set), expire at any moment, and is released only by its own token.
`DatabaseError` and `WorkerDies` end a request at any statement. Replies: `"200"`,
`"404"`, `"409"`, or `"dropped"` when the caller gets none. The row is `"ABSENT"` until
`create_slot`; rows of `slots` are never deleted. A cancellation reads and checks in
one step and writes in another; the ORM writes only what changed, so a slot read as
CANCELLED is not written. Only CLAIMED refuses it, so a slot may be withdrawn while it is SENDING.

Broadcasts appear as `MarkSending` and `RevertToOpen`, which here write only over the status
they have read; `FcfsSlot` does not tell SENDING from OPEN. What the program's broadcasts do when
the status has changed meanwhile is the subject of `SlotLifecycle`, where the properties say
what is left of "one winner" and of "withdrawn". So `ClaimEngine` shows that *claims* do not
overbook, and nothing about the finality of a cancellation.

### SlotLifecycle

A claim is one step (`ClaimEngine` is the reason). `prepare_and_queue_broadcast` is
`ReadSlot` or `QuickPublish`, then `MarkSending` or `NobodyEligible`, then
`ScheduleBackground` and `Enqueue`. An executor is `LoadSlot` (its session keeps that
status in `seen`), the read of the logs (`SkipLogged` or `NothingToSend`), one
`DispatchOne` per recipient, and `Finish`, which commits the logs and the revert
together. `Overwrite` is any `UPDATE ... WHERE id`. Abstractions: the recipients that
matching and the spam guard leave are any non-empty subset of `Waitlist`; a send that
fails may or may not have reached the customer, and is logged either way; the order of
sends within an executor (a semaphore of 10) is arbitrary; the early exit's read of the
logs and its commit are one step, which loses nothing because the decision was fixed by
the logs read and the status loaded before. A claim that is refused changes nothing and
is not a step. `LosePrepare` and `LoseExecutor` stand for a worker that dies or is
stopped and for a database call that raises; the death of a worker with several of them is
several such steps. `MaxCrashes` bounds them. The history
variables `alerts`, `won`, `overwrites` and `crashes` are read by no guard except
`ByAlertOnly` and that bound.

`StaleWriters` are the activities that have read the row and will write what they then thought
of it: a preparation past its check, an executor that loaded SENDING, a cancellation past its
check. `UndoneByEarlierReaders` says that nothing else can change a slot that is booked or
withdrawn, and that nobody becomes one of them on such a slot. It allows what the program does
wrong and names who does it: `slot_overbooked` (a booking undone), `slot_uncancelled` (a
withdrawal undone).

### AlertBudget

One customer, because each customer's rows are counted apart. `Choose` is the count in
`can_send_notification` and the choice it allows; a broadcast that skips the customer
changes nothing, and the executors of a later broadcast of the same slot find the row, so
one broadcast per slot is enough. An executor then checks the logs (`SkipIfLogged`), sends
(`Send`: the provider accepts or raises, and either may have reached the customer), and
commits its row (`Commit`). `NotifyOwner` is the row that the alert to the owner leaves
under the customer's id. `Receipt` overwrites the status of a committed row with whatever
the network reports, in any order; READ is not told from DELIVERED. The clock advances
between any two steps, so the count may be old when the alert is sent. The slot's own
status is left to `SlotLifecycle`: here a broadcast or a booking may happen whenever its
slot allows it there, and more often. The Redis counter is written but never read, and is
left out. `causes` is a history variable, read by no guard: it records what the count
cannot see. `BreachHasCause` then says that this list is complete.

### GraphRetry and WebhookPipeline

`GraphRetry` is one `_post_with_retry` per caller: `Accepted` (2xx), `Transient` (429, 5xx,
timeout, network: retried until `MaxRetries`), `Rejected` (everything that raises at once).
In the last two Meta may have accepted the message all the same. Back-off sleeps are left
out: other callers' steps fall between any two attempts anyway. Without credentials the
client returns a mock id (`HasCredentials`).

`WebhookPipeline` follows a payload. `Receive` admits it by its signature and appends the
job; `EnqueueFails` is a 500 with or without the job in the list. `PopJob` takes it off the
list for good. For each message `GuardNew` is the `SET NX` of `webhook:msg:<wamid>`,
`GuardDuplicate` its refusal. `Claim` and `OptOut` are committed, then `Post` (the call under
way) tells the sender, `Told` goes on to the owner if the claim won, and `OwnerDone` swallows
that call's failure. `TellFails`, `AmbiguousOptOut`, `Fault` and `FaultAfterCommit` end the job
with the rest of its messages. `OtherWriter` stands for `SlotLifecycle`'s writers, which may
reopen or close the slot at any time. Buttons are sequences of tokens, so the parsing of
`claim:`, `claim:slot:`, `optout:`, `optout:cust:` and `optout:phone:` is modelled; an id 0 or an
empty phone (`Falsy`) is no value, and the opt-out is then about the sender's phone. History
variables (`verdict` to `faults`) are read by no guard but the bounds'. `verdict` is reset
with the dedup key, as the program remembers nothing else of a message.

### Phones, Matching and Waitlist

A spelling is a plus or not, the leading digits and the subscriber's number: spaces, dashes
and other formatting characters are gone. A datetime is an hour of the week with an offset in
whole hours; `CalculateDayOfWeek` and `GetTimeSlot` use its local hour, as the code does.

In `Waitlist` a request is a session of its own. A form reads the customer (`FindCustomer`,
`NoCustomer`), then deletes the old preferences (`DeleteBegins` takes the statement's
snapshot, `DeleteEnds` waits for other transactions' locks and drops rows that are gone) or
inserts the customer (`Insert` waits for an uncommitted row of the same key and fails on a
committed one), then commits the new preferences (`CommitForm`, or `UnknownService` when the
foreign key fails) and sends the welcome. An opt-out finds its customer by id or by the
variants of the sender's phone (`FindSender`: none, one, or several, which raises), deletes and
commits, and confirms. `Crash` ends any session. `Choose` and `Alert` are a broadcast's reading
of the recipients and its messages; `Preview` is the dashboard's. Abstractions: the preference
rows a form inserts appear and disappear together, so the form's id stands for them; a DELETE
takes its row locks in one step, so PostgreSQL's deadlock detector never has to break a cycle
of row locks; the customer's name is left out; the spam guard is `AlertBudget`'s. `before` and
`heeded` are history: which requests had committed when a request began, or when recipients
were chosen.

`WaitlistAssumption` says that Meta names the sender of an opt-out by text in international form,
as it does; a number stored from a form may have any spelling the schema admits.

### Accounts and LoginCode

A registration looks for its phone, then for a free slug: a slug is a sequence of words, the
first `StemWords` of which survive the cut to 35 characters before a number is put behind
them. `InsertBusiness` is the unique index: it waits for an uncommitted row and fails on a
committed one. The seed scripts do the same without the phone and without a number. A token
is named by the business it was given to; `Enter` is the check of `get_current_business`,
which accepts an equal id *or* an equal slug. No operation of the program renames,
deactivates or deletes a business. Left out: slugs made of random digits when a name has no
usable letters, the master admin key, demo customers that `seed.py` adds.

`LoginCode` adds the codes. `StoreCode` overwrites the key, `ReadCode` is GET and comparison,
`DeleteCode` deletes whatever is under the key by then, `Login` hands out the token. The owner
types the code of any message that was delivered so far, or a wrong one. Two draws may be equal.

`MCDoubleSubmit` checks `Waitlist` and `LoginCode` (with `Accounts`) in one run. They share no
state, so a behaviour picks a *scene* at its start, a set of requests that take part; the
others stay idle.

## Runs

| Run | Instance | Shows |
|---|---|---|
| `claim_engine` | 2 racing claims, 1 unknown customer, 2 cancellations | at most one winner, on record; every claim ends; implements `FcfsSlot` |
| `slot_lifecycle` | 2 broadcasts (4 executors) on 1 queue worker, 1 recipient and 1 walk-in claimant, 1 cancellation, nothing lost | no orphaned SENDING; an extra winner needs a write over CLAIMED; alerts are logged; a booking or withdrawal is undone only by an earlier reader; SENDING ends; every recipient is logged |
| `slot_single` | 1 quick-published broadcast, Redis down, 2 recipients, 1 lost execution | the lifecycle implements `FcfsSlot` |
| `slot_overbooked` | 1 broadcast, 2 recipients | *violated*: two customers book the slot |
| `slot_twice_alerted` | 1 broadcast, 1 recipient | *violated*: the customer is alerted twice |
| `slot_uncancelled` | 1 broadcast, Redis down (1 executor), 1 recipient, 1 cancellation | *violated*: a claim books a slot whose cancellation was confirmed |
| `slot_stuck` | 1 broadcast, 1 lost execution | *violated*: the slot stays SENDING |
| `alert_budget` | 2 broadcasts (4 executors), limit 1, a day of 1 tick, 2 ticks | over the limit only after one of the named causes |
| `alert_receipts` | 3 broadcasts, limit 2 | *violated*: a receipt makes room for a third alert |
| `webhook` | 3 payloads with 6 messages, one posted twice, one unsigned; 2 workers, 1 retry, 1 fault, 1 expired key | each message is acted upon once per life of its key; answers are true and come in order; silence and lost messages have a cause; implements `ClickContract` |
| `double_submit` | 10 scenes of 2 to 4 requests: waitlist forms and opt-outs with a slot, registrations of a business, login codes | one row per phone; only overlapping requests mix; alerts go to those who want them; unique slugs; a token opens its own dashboard; a code is used twice, or lost, only through an overlap; no request waits for ever |
| `preview_parity` | 2 customers, a slot at 14:00+03:00 | *violated*: the preview shows one customer, the broadcast chooses the other |

Bounds. Two claims suffice to race for one row and a third request only repeats the
second's part; two cancellations cover one that follows another. Two broadcasts
give a re-broadcast that crosses the first one's executors, and four executors give
every overlap of two; a second recipient adds only more sends. With one queue worker three
executors run at once, two background tasks and a job. `slot_lifecycle` loses no execution, since
`NoOrphanSending`, `AuditTrail` and the liveness properties hold only then; lost executions are
explored by `slot_single` and `slot_stuck`, and the theorems hold for any number of them, as for
all sizes. TLC uses the symmetry of the broadcasts in the alert runs, where no liveness is checked.
In the alert runs `CONSTRAINT` does not extend states after a cause that makes the
property true for ever (causes are never removed). With a limit of one, the second alert
is the breach; two ticks put it within a day of the first, at its very end, or after it.

In `webhook` a second posting of `click1` makes the copies that two workers race for; the
second payload holds several messages, so that an exception on one drops others, and a
button whose customer is gone, a keyword and a phone on two waitlists take every branch of
the parser and the opt-out. `MaxFaults`, `MaxPosts`, `MaxResends` and `MaxExpiries` bound
faults, posts, retried posts and expiries of keys; one of each is what a property needs to
break, since each counts or blames per message. One slot is enough: claims of different
slots share nothing.

The scenes of `double_submit` are the sets of requests that can disturb each other: two forms of
one phone in different spellings with a text that opts out, three forms, a form whose service
is gone with a button, two businesses' forms with a text that finds both, forms that are
refused; three registrations that want the same slug, the second of which is entitled to
the slug that the first would be numbered with (`StemWords` is 1), a seed that collides; codes
requested twice and verified twice, codes of both kinds, a code of another business.

`slot_single` is the configuration in which the program keeps its promise. Each of its
restrictions is needed: with the queue job (`slot_overbooked`), a claim before the alert,
a second broadcast or a cancellation, a writer with an old status can undo a booking.

Fairness. Weak fairness on the steps of a request or executor that has started (the
event loop runs every ready task), on `PopJob` (the worker loops never stop popping) and
on the Redis TTL. None on arrivals: nobody has to publish, broadcast, claim or cancel,
and nothing has to crash. In `ClaimEngine` a step that waits for a lock is fair only when
it is enabled, so `EveryClaimEnds` depends on locks being given back. In `webhook` each worker's
`Handle` is fair (Meta answers every call, or the HTTP timeout does), posts and faults are
not; `AckedIsHandled` depends on it. In `double_submit` fairness is on all the requests of a scene
together, which is weaker than fairness for each: `RequestsEnd` then says that some request can
always go on until none is open.

## Findings

1. *Overbooking* (`slot_overbooked`). The two executors of a broadcast both load the slot
   as SENDING. The first reverts it to OPEN, a customer claims it, and the second writes
   OPEN over CLAIMED by its stale status. README.md:89: "Zero overbooking guaranteed".
2. *Double alert* (`slot_twice_alerted`). The idempotency check reads logs that are
   committed only when an executor ends. `tasks/broadcast_tasks.py:30`: "skips customers
   who already received an alert for this slot".
3. *Stuck slot* (`slot_stuck`). SENDING is committed before the executor is scheduled; a
   lost execution leaves the slot unclaimable and a new broadcast is refused.
   README.md:113: "Sets slot status to `OPEN`".
4. *Withdrawal undone* (`slot_uncancelled`). A cancellation is refused only for CLAIMED
   (`slot_service.py:168`), so one of a SENDING slot is confirmed; the executor then writes OPEN
   over CANCELLED by its stale status (`tasks/broadcast_tasks.py:138`), and a claim books the slot.
   One executor is enough. A broadcast still matching does it with SENDING
   (`broadcast_service.py:113`). `routers/business.py:164`: "Revokes an active appointment slot,
   preventing any client claims".
5. *Spam guard* (`alert_receipts`). Only rows still SENT are counted, and a delivery
   receipt overwrites SENT, so an alert that is known to have arrived no longer counts.
   README.md:224: "no customer receives more than 2 cancellation alerts within 24 hours".
6. *Preview* (`preview_parity`). The preview matches on the datetime with the offset that the
   browser sent, the broadcast on the stored one, which comes back in UTC: Sunday 14:00+03:00
   is an afternoon in the preview and a morning in the broadcast.
   `services/matching_service.py:28`: "Guarantees 100% query parity between preview
   calculations and live broadcast execution".

Observed while modelling, and not findings of a run:

- Two overlapping forms of one customer leave the union of their preferences
  (`OnlyOverlapsCoexist` says that nothing else does); `customer_service.py:38` speaks of
  replacing them.
- A cancellation that read the slot before a booking committed overwrites CLAIMED with CANCELLED,
  and the customer was told of the booking (`WinnerOnRecord` allows both statuses);
  the docstring of `cancel_slot_by_owner` says "Ensures slot is not already CLAIMED"
  (`slot_service.py:156`).
- Two first registrations of one phone at once: one of them gets a server error from the unique
  index (`Insert`), while README.md:100 speaks of upserting "without duplicate key conflicts". The
  row stays unique (`OneRowPerPhone`).
- An opt-out by text from a phone on two waitlists raises (`Ambiguous`, `webhook_tasks.py:258`) and
  removes the customer from neither; README.md:225: "Customers can opt out at any time".
- An alert may follow the confirmation of an opt-out if the recipients were chosen before
  (`AlertsAreWanted` is stated for the moment of the choice).
- A click while the slot is SENDING is answered with the text for a lost race
  (`webhook_tasks.py:232`) although nobody has booked.
- The opt-out keywords of `webhook_tasks.py:164` hold "בטל", README.md:225 says "ביטול".
- `get_dashboard_summary` and the waitlist's listing count customers who have opted out
  (`dashboard_service.py:203`).

## Theorems

`ClaimEngine_proofs`. The inductive invariant adds to the properties `RowInv` (the row's
lock is held exactly by the request about to commit, and then the row is OPEN; the
version counts the bookings) and `CancelInv` (a slot about to be withdrawn exists).
`AtMostOneWinner` alone is not inductive: the commit needs to know that the row it
locked is still OPEN, so at version 1, while a winner implies version 2. `TypeCorrect`,
`ZeroOverbooking` and `WinnerRecorded` follow, and `Refinement` maps every
step to a step of `FcfsSlot` or to a stutter: the commit is `Take`, the release of the
lock before the answer is `Tell`, the cancellation is `Withdraw`, a broadcast's writes are stutters.

`SlotLifecycle_proofs`. `NoOrphan` is inductive with the types: whoever writes SENDING is
a carrier, and a carrier hands over or reverts. `OverbookingPaid` needs `WinnersInv`: a
winner not on a CLAIMED row was paid for by an overwrite. `UndoneOnlyByEarlierReaders` follows from
the types: one step for each writer (`UndoStep`), which leaves the set as it writes. With nobody
in the set, a withdrawal is final (`QuietCancelIsFinal`): the slot stays CANCELLED and no claim is
committed; `slot_uncancelled` shows that this condition is needed. `AuditTrail` counts open sessions that hold a
customer's log row, so a row must not be counted twice: `OnceInv` says that an executor is
scheduled once (a broadcast is in the queue once, and not before its background task is
scheduled), and `AuditInv` that finitely many sessions hold a row and that an executor's
`pending` and `unsaved` are disjoint. A dispatch then adds one on both sides, a commit moves
a row from the session to the table.

Three more theorems are about fewer executors, and say what the findings need. With one
broadcast and Redis down, its background task is the only executor (`LoneInv`), and nobody is
alerted twice (`LoneExecutorAlertsOnce`). If customers claim by its alert and nobody cancels
(`SingleExecutor`, which the instance of `slot_single` satisfies), every unconditional write
finds the status its session loaded: nobody knows of the slot before the executor sends, and
the slot is SENDING until the executor is done (`SingleInv`). Then the slot keeps the promise of
`FcfsSlot` (`SingleExecutorKeepsFcfs`): creation is `Publish`, a claim `Take`, and SENDING is OPEN
to the outside. No write replaces CLAIMED, so there is one winner (`SingleExecutorBooksOnce`).

`AlertBudget_proofs`. `BreachHasCause` is not inductive: a broadcast that has chosen the
customer acts on a count it no longer checks. The invariant adds that, without a cause,
every alert that arrived is still SENT or in an open session (`AlertsLogged`), only one
broadcast and one of its executors are active (`OneAtATime`), and an executor that will send
has room in the day ending now (`RoomToSend`). Time only empties that day, so the delay
between count and send is harmless. `BudgetKept` holds for every limit, day and number of
broadcasts.

`Accounts_proofs`. `UniqueKeys` is about committed rows, but an INSERT takes its keys before it
commits: `KeysInv` states uniqueness for every holder of a key, committed or not, and
`RowsInv` ties rows to the requests that committed them. `LookupInv` says that what a request's
lookups excluded still differs when it inserts; with it a failed INSERT can only be due to
a row committed after the request began (`FailureHasCause`).

`LoginCode_proofs`. `OrderInv`: what is under a key was requested, and a verification deletes once,
after it found its code equal. `SpentInv`: a code read and deleted is under no key again, so
a second login with it must have read before the delete (`TwiceNeedsOverlap`). `SeenInv`: a code
that a verification saw under its key, other than the one it read, does not come back;
this rules out every other way to lose a code (`LostCodeHasCause`).

`Waitlist_proofs`. `RowsInv` and `KeysInv` are as for `Accounts`, with the row a request has
found (`target`). `PrefsInv` says whose forms a customer's preferences are, and that a DELETE under
way has in its snapshot everything committed before its request began: what survives a
commit overlapped it. `ChosenInv` records why each recipient was chosen. Two lemmas reach into
the pure modules: `MatchMeaning` shows by arithmetic that the day and time-of-day filter
accepts exactly the hours of the week that the form's fields name, for every hour and
offset; `VariantsFind` shows that the variants of an international number contain the stored form of
every spelling of it.

`WebhookPipeline_proofs`. The types need `JobInv` (a worker is idle exactly when its job is
empty). `ActedOnce` needs `KeyInv`: whoever is acted for has its key set, and without the
key a message was acted upon at most as often as its key has run out. `SET NX` then adds one
to the left side, an expiry one to the right. `OnlyGenuineActs` needs `GenuineInv`: where
a secret is set, or in production, the messages of the queue and of every job come from payloads
whose signature is genuine.

`WebhookAnswers_proofs`. `AnswersInv` is one invariant for the three properties of what is told
and for the refinement, since each needs the others' parts:

- `FocusInv`: two workers never act for one message, and a message without a dedup key is
  undecided. It rests on `KeyInv`: whoever acts holds the key.
- `CallInv`: in a call under way all copies but the last belong to retried attempts, and a
  call that returned has arrived. `CopiesBounded` follows: `MaxRetries` + 1 copies for each call.
- `TellInv`: a worker that tells has a verdict, and a copy that arrived is that verdict; one at
  the owner has told the winner.
- `CountInv`: until the sender has been told, a copy is still due for the turn under way.
  `CopiesHaveCause` alone is not inductive, as an answer may arrive while its turn is at the bound.
- `NewsInv`: verdicts and answers are true. `GoodNewsIsTrue` speaks of answers; an answer repeats
  a verdict, which must have been true, and must stay so while others claim and opt out.

The step lemmas tell the worker that moves (`Actor`) from the others (`Bystander`), whose message is
another one. `ContractKept` maps `Claim` and `OptOut` to `Decide`, a `Post` that arrives to
`TellSender` or `TellOwner`, `KeyExpires` to `Forget`, and every other step to a stutter.
`SilenceExplained` counts a message as handled while it is in a job; whoever gives it up has
answered it or blames the fault (`LeavesSettled`).

Assumptions: `BudgetAssumption` (finitely many broadcasts, a positive limit),
`ClaimAssumption` and `LifecycleAssumption` (ids are distinct from the NULL and "free"
values, `Registered` and `Waitlist` are customers), `AccountsAssumption` and `LoginAssumption`
(types, disjoint ids), `WaitlistAssumption` (the same, and that Meta names a sender in
international form), `GraphAssumption` and `PipelineAssumption` (types, bounds are natural numbers).
TLC evaluates all of them in the runs. No theorem assumes a finite number of requests,
messages, workers or customers.

Only model-checked: liveness (`EveryClaimEnds`, `BroadcastEnds`, `EveryRecipientIsLogged`,
`AckedIsHandled`, `RequestsEnd`), as fairness and ENABLED are out of the prover's reach. Every
invariant, action property and refinement that a passing run checks is also a theorem, `slot_single`'s
under the restrictions of that run.

## Plan

Done: every module of the table, its runs, and its theorems: all safety properties,
action properties and refinements that the passing runs check, and how far a booking or a
withdrawal is final.

What the plan has left, in order:

1. Weaker hypotheses for `SingleExecutorKeepsFcfs`: any number of broadcasts, of which no two
   overlap.
2. What follows from the abstract specifications alone (one winner for `FcfsSlot`, one decision for
   each life of a message in `ClickContract`), so that it need not be proved of each implementation.
3. `GraphRetry` for the calls of a broadcast and of welcome texts, which are single steps now.

## Not modelled

- The application shell: start-up, settings, migrations, error pages, static pages, deployment.
- The texts of messages and templates, the mock provider and the choice of a provider.
- The dashboard's summary and waitlist listing, which read and format; response schemas.
- Library calls on single values (HMAC, JWT, random codes): an admission test or a choice.
- `whatsapp/parser.py`, whose typed payloads the webhook task does not use.
- Deadlock detection in PostgreSQL, Redis failover, and clocks that jump.
