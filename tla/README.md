# Formal models of Sokosumi's core

Sokosumi is a marketplace on which people and AI coworkers hire agents. The part
of it that can lose money, send a thing twice or leave work behind is
`apps/core`, a stateless API on serverless functions that shares one PostgreSQL
database with itself: inline requests, cron routes and operators all act on the
same rows, any function may be killed at any point, and every outside call
(payment node, social platforms, image provider, mail) may be lost after it took
effect. The modules here model those protocols; the clients (`apps/web`, `cmo`,
`cli`, `apple`) keep no durable state and are left out.

Contents: [1 Inventory](#1-inventory), [2 Modules](#2-modules),
[3 Runs](#3-runs), [4 Fairness](#4-fairness), [5 Proofs](#5-proofs),
[6 Findings](#6-findings), [7 Not modelled](#7-not-modelled), [8 What is left](#8-what-is-left).

## 1 Inventory

Paths are below `src/apps/core/src/services/` unless they say otherwise.

### Modelled

**Task payment claims** (`task-payment-claim.service.ts`). *State*: one row per
charged purchase: status PENDING, PURCHASED or REFUNDED, lease
(`processingToken`, `processingStartedAt`), `attemptCount`, `nextAttemptAt`,
`reviewRequiredAt`, the durable payload; a table of operator actions.
*Operations*: charge and create in one transaction; lease; look up, POST, resolve
a 409, reconcile; attach, refund, reschedule, escalate; an operator's retry,
refund and resolve. *Interacts* with the credit ledger (same transaction), the
payment node (HTTP), the cron and the inline run after commit. *Hard*: the POST
may land after its caller gave up; a worker may act on what it saw under a lease
it has lost. *Correct when* a claim costs exactly one debit or nothing, is
refunded only when no purchase of it exists or can come to exist, is never bought
twice, and never rests charged and forgotten.

**Payment node client** (`src/packages/masumi/src/clients/masumi-payment.client.ts`).
Classifies the node's answers (created, conflict, permanent, ambiguous). Correct
when only an answer that excludes a purchase is called permanent.

**Task x402 payments** (`task-x402-payment.*.ts`). *State*: one row per idempotency
key: PENDING, VERIFIED, FAILED or REFUNDED, sign lease `processingAt`, fence
`signRiskExpiresAt`, attempt count, stored header and `validBefore`, refund link.
*Operations*: charge, replay, reissue, dispatch to the node's signer, finalize,
refusal refund, operator's goodwill and resolve, header purge. *Hard*: a signed
authorization is money until it expires, whether or not anybody saw it; the
fences are sums of timeouts computed before the call they cover. *Correct when*
credits given back by Core's own decision never stand behind a live
authorization, and one key never hands out two.

**Cron sync lock** (`sync-lock.service.ts`, `../routes/sync/handler.ts`). *State*:
one row per lock key (`lockedBy`, `lockedAt`). *Operations*: acquire or steal,
run the operation with a deadline, release. *Hard*: nobody rechecks the row, so
exclusion rests on the deadline being early enough. *Correct when* two
operations do not overlap while steps keep their time, and a late holder cannot
take the lock of its successor.

**Social post publisher** (`social-post-publisher.service.ts`, with the status
changes of `social-posts.service.ts` and the close request of
`project-close-lifecycle.service.ts`). *State*: the post row (status,
`attemptCount`, `planAt`, lease, revision, in-flight thread marker), its thread
parts, the publish attempts. *Operations*: find, claim, recover, check, record
attempt, publish, store progress, settle; schedule, edit, cancel, resume,
publish now; close the project. *Hard*: every step is a write of its own and the
platform has no idempotency key. *Correct when* no part is posted twice, what may
be posted is known to be in doubt, a closed project stays quiet, and every
scheduled post comes to rest.

**Image studio jobs** (`image-studio-jobs.service.ts`, the callback route
`../routes/webhooks/fal/image-jobs.ts`). *State*: one row per job: PENDING,
SUBMITTING, QUEUED, RUNNING, SUBMISSION_UNCERTAIN, then SUCCEEDED, FAILED, CANCELED
or ORPHANED; submit lease and attempts, the provider's request id, cancellation,
settlement lease with owner, outage clocks; the stored image. *Operations*:
reserve, claim, send; sweep and recover; read status and result, callback,
cancel; settle: check access, download, store, insert and charge. *Hard*: the
answer to a paid request may be lost; callback, polls and cron settle at once and
write what they read earlier. *Correct when* a job is sent once, charged once for
a stored image, and never called failed while the provider may still bill it.

**Credit ledger, charges and top-ups** (`packages/database/src/repositories/credit-bucket.repository.ts`,
`helpers/task-event-charge.ts`, `task-topup.service.ts`,
`stripe-invoice-credit.service.ts`, `job-refund.ts`). *State*: a wallet's buckets
(reference, amount, activation, expiry), their consumptions, the status of tasks.
*Operations*: charge an event or a job across buckets in order; pause a task that
cannot be paid for; grant an invoice's buckets and revive paused tasks; give a
failed job's price back. *Hard*: nothing locks a bucket, and charges are
serializable while grants and refunds run at Read Committed; an invoice event may
be delivered twice at once. *Correct when* no bucket is overdrawn, the wallet is
one balance that takes each charge and each grant once, the credits that expire
first go first, and no task waits for credits that are there.

**Task schedules** (`task-schedule.service.ts`, `task-schedule-runs.service.ts`).
*State*: the schedule (state, rule, epoch, `releasedCount`, `nextRunAt`,
revision) and its ledger of Runs. *Operations*: plan, release, pause, resume,
end, new rule, skip, move, restore, Run now. *Hard*: an operation reads the
schedule when it opens and claims the rows only when it writes. *Correct when* a
Run in a project makes one Task and an active schedule never sleeps past a planned
Run.

**Project close** (`project-close-lifecycle.service.ts`,
`project-close-sync.service.ts`). *State*: the close operation (CLOSING, CLOSED,
CLOSE_FAILED, lease, attempts, `nextAttemptAt`, failure summary), the project's
cutoff. *Operations*: request; claim; revoke accounts; release owed Runs in
batches and end the schedule; fail, retry, cancel what is owed; finalize. *Hard*:
batches pass from worker to worker while releases and edits are open. *Correct
when* a closed project owes nothing, nothing moves in it any more, and a close
that was asked for ends, or fails where people see it.

**Newsletter sending** (`newsletter-send.service.ts`, with the transitions of
`newsletter-issues.service.ts` and the warm-up of a sending domain). *State*: the
issue (status, revision, approval, lease), one send row per issue and subscriber
(status, `attemptedAt`), the domain's count of the day. *Operations*: find due
issues, claim, fail interrupted sends, list recipients by pages, render, check
consent, reserve, dispatch, record, close; edit, submit, approve, schedule,
cancel, send now; subscribe and leave; pause and resume the warm-up. *Hard*: a
run may die or lose its lease between any two statements, and the mail provider's
answer may be lost. *Correct when* nobody is mailed twice or forgotten, the
approved text goes out, no day exceeds its cap, and every issue comes to an end.

### Not modelled, and why

| component | state and operations | why not, and what would make it correct |
|---|---|---|
| soko bot turns, tools, schedules (`soko-bot-*.ts`) | turn state machine, capability handlers, occurrences | the states are spread over more than 9000 lines of authorization, reservation and reconciliation, and a module of a part would state a protocol the code does not have. A turn the runtime may have accepted must not be started again |
| effect outbox, calendar outbox | leased outbox rows | leases of the publisher's shape; an effect's content is a tool's, and an invalidation may be repeated freely |
| job sync (`job-sync*.ts`, `job-purchase-diff.service.ts`) | cursor over the node's change feed | a change is stamped before it commits, so the cursor re-reads a window: whether that suffices is decided by the node's commit times, which this repository does not bound. The refund at its end is in `TaskCredits` |
| notification follow-ups, agent sync, source import, file index | batches under the sync lock | idempotent by key; their overlap is what `lock_cron` explores |
| contacts, social connections, coworker streams, transactions, x402 demand verification, clients | see `PROJECT.json` | inside one transaction, outside this database, or pure |

`PROJECT.json` lists all components with the reason for each that is left out, and
under `hazards` the places where this code is hard to test, each with the
properties that watch it. Most lines of the repository are generated API clients,
user interface and mail templates; the modules cover the protocols, not the bulk.

## 2 Modules

| module | models | relations |
|---|---|---|
| `CompensatedCharge` | what a workspace is promised: charged once, settled or given back once | abstract specification |
| `PaymentNode` | the node as the client sees it: at most one purchase per identifier | used by the claims |
| `TaskPaymentClaim` | claims, workers, operators, faults | extends `PaymentNode`, implements `CompensatedCharge` |
| `TaskX402Payment` | one x402 payment with its requests and the clock | implements `CompensatedCharge` |
| `SyncLock` | one lock key, its cron invocations and the clock | |
| `SocialPostPublisher` | one post with its runs, people and project | |
| `ImageStudioJob` | one image job with its handlers, its provider and the requester's access | |
| `CreditBalance` | what a wallet is promised: grants received once, charges taken once and within the credits | abstract specification |
| `TaskCredits` | the buckets of a wallet, charges, grants, refunds, and the tasks paused and revived | implements `CreditBalance` |
| `TaskSchedule` | one schedule, its Runs and the open transactions on it | |
| `ProjectClose` | the closing of a project with its workers | extends `TaskSchedule` |
| `NewsletterSend` | issues, subscribers, runs, and the domain they share | |
| `*_proofs` | theorems about the module named | see section 5 |
| `MC*` | model values and symmetry for TLC | |

**How a handler becomes actions.** A database transaction is one action (the code
uses serializable transactions or single conditional updates, so each takes
effect at once or not at all). Between two awaits that other actors may use, the
handler's position is a `stage`. A remote call is one action for what the remote
side does and returns, or two where its effect can come after the caller left
(`inflight` in `PaymentNode`, `orphan` in `TaskX402Payment`). A crash forgets the
handler's locals and leaves every row as it is. A failed write throws to wherever
the code's catch leads.

**Leases.** A slot in `Workers` stands for the random token of its current lease.
A slot has one attempt at a time, so a stored token equal to the slot is that
attempt's or the one of a predecessor that is gone. In `SyncLock` a slot is
reused only after the row has dropped the old token, which comes to the same.
Lease expiry is an action of its own; where the code's time limits exclude expiry
under a running holder, whether it happens is a choice: the constant `Overrun` of
`SocialPostPublisher` and `ImageStudioJob`, and in `TaskPaymentClaim` the variable
`lateCalls`, chosen in `Init` and never changed. The runs check both choices of
`lateCalls`, and leave the leases free to run out elsewhere. In `NewsletterSend`
and `ProjectClose` a lease may always run out.

**`TaskPaymentClaim`.** `status`, `net` (credits moved so far), `token`,
`attemptCount` are columns; `expired`, `due`, `review` are the sets of claims for
which a time column compares one way or the other. `Acquire` is
`acquireTaskPaymentClaim`, `Process` is `processTaskPaymentClaim` up to the first
remote call, the `After...` tables say where each answer of a call leads in
`runAcquiredTaskPaymentClaim`, and `MarkPurchased`, `Refund`, `ScheduleRetry`,
`Escalate` are the writes fenced on the token. `attemptCount` saturates at the
review threshold, beyond which the code never distinguishes values. `posted`,
`waived`, `hurried` are history. Without `lateCalls` a POST is settled before its
backoff or lease ends (`Settled`, in `BecomeDue` and `ExpireLease`): a call is given
up after 20 s, the least backoff is 30 s and the lease 120 s. The operator's levers
wait for neither, so `RetryReviewed` and `OperatorLease` are open at any moment, a
POST in flight or not; `hurried` records the claims an operator retried or looked up
in such a moment.

**`TaskX402Payment`.** Time is Core's clock, in units: `SignRisk`, `SignLease`,
`MaxSignRisk` and `UndatedHeaderTTL` are the code's sums of constants. The node
signs within `RequestTimeout` of the dispatch and up to `Skew` ahead of Core's
clock; these two are the code's own stated assumptions. `CountingDelay` bounds the
one await that no check covers. A header is the number of its signature, so two
different authorizations can be told apart.

**`SyncLock`.** Ages instead of dates keep the state finite. `Horizon` exceeds
every age that is compared with a threshold.

**`SocialPostPublisher`.** Parts of a post are numbers; `live[p]` counts how often
part p is on the platform, which no code can see. `current` holds the runs whose
remembered revision is still the row's. Of the attempts table only the latest row
and whose it is are kept, since nothing else is read.

**`TaskCredits`.** A charge is open from the snapshot of its Serializable
transaction to its commit. `Open` computes the plan that the loop of
`prepareConsumption` would make; two open charges that each read what the other
wrote cannot both commit (`overtaken`). A grant is several Read Committed
statements: look up, insert, search for paused tasks, update each of them under
its row lock, commit. Refunds likewise. Buckets are numbered in the order in
which they are consumed.

**`TaskSchedule` and `ProjectClose`.** An operation is two steps, what it read and
what it writes if its claims still match, so any two may cross; those that claim
all they read are one step. The rule is a function from epochs to sets of times,
which stands for every kind of recurrence. A close's batch holds the project's
lock throughout and is one step.

**`NewsletterSend`.** `send` and `on` are the status and `attemptedAt` (its UTC day)
of each send; `until` is how far off `leaseExpiresAt` is. `saw[w].moved` says
whether the revision a run read has moved. `mails` counts what went out, which no
code can see; `loyal` are the subscribers active ever since the first claim.

**`ImageStudioJob`.** A slot is whatever handler is running: the request, a poll,
the cron, the callback. `UpdateMany` is the code's one way to write: a conditional
update that does nothing where the row no longer qualifies. `request` is what
the provider does with the job, `inflight` a submission whose answer was lost and
which may yet become one. The provider is taken at its word: "not found" means
that nothing will be produced, an error that nothing was; an answer that does not
arrive is always possible. `permitted` is what the access check would find now.

## 3 Runs

| run | instance | question |
|---|---|---|
| `claim` | 1 claim, 2 slots, 3 attempts to review, 2 faults, calls late or punctual, fair | do books and fences hold when calls outlive leases; when they do not, is a refunded claim never live (operators may act at any moment, and `RefundNeverLive` excuses those who did not await a POST), and every claim brought to an end or to an operator? |
| `credits` | 2 events and a job, 3 buckets, an invoice delivered twice, 2 syncs | is the wallet one balance, spent soonest first, and which task can a grant forget? |
| `credits_forgotten` | expected violation | see section 6 |
| `image_jobs` | 2 handlers, 2 faults, access lost and regained, leases overrun, fair | sent once, charged once, closed for good, and no slot held for ever? |
| `image_orphan` | expected violation, no faults | see section 6 |
| `lock_cron` | 3 invocations, timeout 4, buffer 2, steps of any length, 1 fault, fair | do operations overlap only when a step outruns the buffer, and does a dead holder's lock move on? |
| `newsletter` | 1 issue, 2 subscribers, 2 runs, batches of 2, a cap of 1 on the first day, 1 fault, 1 act, fair | nobody twice, nobody forgotten, the cap, the approved text, and an end? |
| `newsletter_early` | expected violation, the same instance | see section 6 |
| `post` | 1 part or a thread of 2, 2 runs, 2 attempts, 1 fault, 2 acts, fair | not twice, not in silence, in order, not in a closed project, not for ever? |
| `project_close` | 3 times, 2 rules (the second ends after 2 Runs), 2 transactions, 2 workers, 2 failures, 2 changes, in a project or not, fair | is no Run lost or made twice, and does a close come to its end? |
| `x402_safety` | 2 requests, 2 attempts, clock to 8 | all safety of one payment, and that it is a plain charge |
| `x402_fence` | expected violation | see section 6 |

**Why the bounds are enough.** Two slots are the least that race and also show a
third party: a slot whose attempt died can be reused while its token is still in
the row. One claim suffices because claims share no state but the
workers; that an unparsable claim (`CorruptClaims`) is escalated like any other
that throws is covered by the proofs, which hold for every set of them, and not
by a run. Three attempts separate the
first attempt, a later one and the review threshold. In `x402_safety` each
duration is 1, the smallest that makes fences, lease and validity different
points in time, and 8 units reach past every fence of a second attempt. In
`SyncLock` the durations satisfy `StepFits` with equality, so one unit less of
buffer breaks `OneAtWork`. Two parts are the least with an order; a third repeats
the second. Faults are bounded by 1 or 2: one to lose a worker, one to lose its
successor or a write in between. `MaxActs` bounds human acts and `MaxTurns`
changes of access the same way: two turns are a loss and a return. In
`NewsletterSend` the acts of the issue's normal course (submit, approve, schedule,
cancel) are not bounded at all, only edits, subscriptions and pauses; a batch of
2 with a cap of 1 is cut short, and full pages occur as well as short ones. Three
times in `project_close` are a time before the cutoff, the cutoff and one after;
`ReleaseLimit` and `CloseLimit` of 1 make every batch a partial one. In `credits`
the charges want 4 cents in all, the wallet opens with 1 and the invoice brings 2:
any charge can be the one that falls short, and the dearer one has to draw on two
buckets. An image job is sent, and charged, by at most one handler of the
two; a third would find what the second finds. All of these bounds are guards and
all are named constants; the proofs do without them.

Each property was also shown to be able to fail: `PROJECT.json` names under
`mutants` a plausible slip in one definition of the code for each, and TLC finds
the property violated under it.

## 4 Fairness

Liveness is claimed only from what the deployment does: `vercel.json` starts
each cron route again and again, every minute or, for `/sync/image-jobs`, every
five, and a function that is running goes on or is killed.

* Claims: weak fairness of a worker's steps, of the clock and of a POST in
  flight, which ends; strong fairness per claim of being picked, because the query
  takes the oldest due claims first, so one that is due again and again has its
  turn.
* Posts: weak fairness of a run's steps, of the cron's pick, of the lease and the
  backoff. Image jobs: of both sweeps, the handlers' steps and the clocks of
  leases and outages.
* Lock: every invocation's steps end (not: begin), requests keep coming, time
  passes.
* Close: transactions end, time passes, the cron claims, some worker goes on; and
  strong fairness of finding a revocation and of work under a lease that is held,
  for without it a worker could yield or die each time it has claimed.
* Newsletter: the cron finds every due issue (it takes up to ten a round,
  left-over ones before scheduled ones; that ten left-over issues come back every
  round for ever is assumed not to happen), runs go on, leases expire, days pass. `sendDueNewsletterIssues`
  has no `try` around an issue: an error before the claim ends that round, and
  fairness assumes that some round gets as far as each issue.

People and operators need not act, and neither the node nor a platform nor a mail
provider needs to answer usefully: an inconclusive answer is always possible, and
what `Resolves`, `Rests`, `LockMovesOn`, `SlotComesFree`, `CloseSettles` and
`Finishes` promise holds all the same. Crashes and failed writes are faults, and
finitely many; in `ProjectClose` they are not bounded by number.

`CHECK_DEADLOCK FALSE` is set where the system may stop: claims that are settled,
a post at rest, an issue that is sent, a closed project, a clock at its bound.

## 5 Proofs

All theorems are of `Spec`, for every value of the constants that satisfies the
named assumptions, and every leaf is checked by TLAPS. `TypeCorrect` is proved in
each module and inductive by itself, except where said.

**`TaskPaymentClaim_proofs`.** `Books` =
`NetCharge`, `PurchasedIsLive` and `SeenLive` is inductive over `TypeOK`:
`SeenLive` says that a worker about to attach has seen its own purchase, which the
node never removes, and is what a worker that lost its lease still carries. From
it follow `NetChargeHolds` and `PurchasedIsLiveHolds`, for late calls and any
number of faults. `ReviewInv` gives the safety half of `Resolves`: whoever still
owns a claim has counted its last attempt (`LastAttempt`), so the one that lets go
of it with its attempts used up, by whatever way, leaves it under review
(`UsedUpIsReviewedHolds`); the cron takes it again only from a lease that ran out.
`RefundNeverLive`, `LookupBeforeRepost` and `OneBuyer` speak of behaviours with
`~lateCalls` and need the larger `PromptInv`: a buyer holds an unexpired lease
(`BuyerHolds`), the node has not heard of an unattempted claim
(`UnheardOf`), whoever is about to POST has looked (`HasLooked`), and, of claims
that no operator hurried, a POST in flight keeps the claim from being taken up
(`InflightHeld`) and each stage knows what it needs of the node (`HolderKnows`), so
that a refund means a dead identifier. `LookupBeforeRepost` and `OneBuyer` hold
however soon operators act. `RefundNeverLive` holds for every claim on which no
operator acted ahead of an abandoned POST: that is an assumption about people, which
the code does not enforce (section 6). `ImplementsChargeHolds` shows
that every step is a step of `CompensatedCharge` or stutters.

**`TaskCredits_proofs`.** `Covered`: what an open charge has planned is still in
its buckets, unless another commit has overtaken it, and then it cannot commit.
That is all of what the Serializable level does for the ledger, and
`NeverOverdrawnHolds` follows for any number of charges, grants and refunds, of
which the last two are not serializable. `Watched`: a task that was out of credits
when a grant looked is on its list or held by its row lock until the grant lands.
With it `OnlyCrossedIsForgottenHolds` bounds finding `credits_forgotten`: a grant
forgets a task only if it crossed the very charge that paused it.
`OnlyPausedIsRevivedHolds` is a step property. The rest is about sums over
buckets. TLAPS knows the library's fold only as a recursive function that is
chosen, so the module first shows that this function exists and is determined by
its equation, and then what `Total` does when one addend changes, two functions are
added or sets are joined; each is an induction over the subsets of a finite set,
stated as a set of subsets that holds all of them. `Entered`: a grant adds only
what it is for, what an open charge has planned sums to its price, and a job that
was refunded was paid and has its bucket. From it follow `ImplementsBalanceHolds`
(every step is a step of the one number a workspace sees, or a stutter) and
`EveryCentAccountedHolds` (what the buckets hold is what was granted and refunded,
less what was charged). `Ordered`: what an open charge has planned empties every
earlier bucket it saw, unless another commit has overtaken it or the bucket has
expired; `SoonestFirstHolds` follows.

**`SocialPostPublisher_proofs`.** One invariant `Inv` for single posts and
threads. Threads need no lease at all: while a part is called its marker is set,
the marker is written only where it is null and under the row's token, and what is
live without an id is marked (`ThreadInv`). A single post has no marker, so its
argument is the lease and the open attempt: one run at a time (`HolderInv`), and
whatever is live is on record as published, being looked into, or known to be in
doubt (`AccountedFor`). The next part of a thread exists by well-foundedness of the
order. Six properties follow, for any number of runs, parts, attempts, faults and
acts of people.

**`NewsletterSend_proofs`.** `MailInv`: what was mailed was reserved, and two runs
that have reserved sends of one issue have reserved different ones. The proof never
uses that a run holds its lease when it calls the provider, so `MailedOnceHolds`
survives any lease that is lost. `ApprovedInv`: approval is of the current edition
from NEEDS_APPROVAL on, and a run whose revision has not moved has read that one.
`CapInv`: the attempts of a day are what the domain counts for that day, by
cardinalities of the sends stamped with it. `ListInv` needs the first two: every
subscriber who stayed is listed before the first reservation (pages by id, whose
last element exists by well-foundedness), a later run that starts over lists no
one twice, and a run that closes the issue as sent has left nothing queued.
`MailedOnceHolds`, `ApprovedOnlyHolds`, `CapKeptHolds` and `NobodyForgottenHolds`
follow, for any number of issues, subscribers, runs, caps and faults.
`OnlyWithdrawnGoesEarly` bounds finding `newsletter_early`: where no issue is
withdrawn while a run has it on its list (`NoneWithdrawnWhileListed`), none begins
before its time. `FoundInv`: until then what a run has listed is due, or has begun.

**`ProjectClose_proofs`.** `CloseInv` is `TypeOK`, `OneTaskPerRun` and four parts.
`EditInv`: an open edit has seen no later revision, and while it is the same, rules
are left. `PlanInv`: an open release that is still current would not plan again what
is planned out; so one that commits after the close finds nothing to do, which no
lock sees to. `OperationInv`: by the second failure no transaction from before the
cutoff is open, for which a first failure must not be final (`MaxFailures` is 2 or
more) and delays outlast transactions (`Quiet`). `OwedInv`: a Run due at the request
stays owed until it has its one Task or somebody cancels it. `OneTaskPerRunHolds`,
`NoRunOverlookedHolds`, `ClosedOwesNothingHolds` and `ClosedIsStillHolds` follow, for
any rules, horizons, batches, transactions and workers. `LateInv` is the other
side, that a close makes no Task it does not owe. A release that is open has read
the clock at the cutoff at the latest; while the revision stands, what it has in
hand is still there and was due by then, and what it plans anew lies beyond the
cutoff. So `OnlyOwedMakesTasksHolds`: after the request only the Runs owed at that
moment make Tasks, and those due at that very moment that a release already had in
hand; TLC shows that without this second case the statement is false. The steps of `TaskSchedule`
are proved here, as those of a schedule whose project may close; that there is an
earliest planned Run is well-foundedness again.

**`SyncLock_proofs`.** `LeaseInv`: a running invocation no older than the timeout
owns the row, whose age is its own. `StartInv`, `StepInv`: start and deadline are
where the delays put them. `OneAtWork` follows under `StepFits`: the arithmetic
the buffer has to satisfy is an explicit hypothesis. Also proved, and not in a
run: `WithinLeaseOwnsHolds`, `OnlyExpiredIsStolenHolds`.

**`TaskX402Payment_proofs`.** `Inv` is proved part by part: `ClockInv` (no stamp is
in the future), `FenceInv` (whatever may still be signed dies before the fence),
`AttemptInv` (a row with one counted attempt has only that one to have signed),
`HeaderInv` (a stored header is the one handed out), `TurnInv` (the requests'
turns at the node are a lease apart). `ResolvedIsDead` and `OneSigner` assume
`CountingDelay = 0`, the condition that finding `x402_fence` shows to be
necessary; all others hold without it, for every choice of timeouts.

**`ImageStudioJob_proofs`.** `Inv`, inductive over `TypeOK`: one handler at most
is between its claim and the record of the answer, and until then the row is not
closed and knows no request (`SenderInv`); what attempts, stage and row say of
the provider (`RequestInv`): sent no more often than attempted, a stored id
excludes a submission in flight; a reader's verdict stays true while it waits to
be written (`ReaderInv`). The unconditional writes of the sender are safe only
because of the first part, the late writes of readers because of the third.
`SentOnceHolds`, `RetryIsFreeHolds`, `ChargedOnceHolds` and
`ClosedStaysClosedHolds` follow, for any number of handlers and faults, and
`HolderKeepsLeaseHolds`, which is in no run. `OrphanedKeepsNothingHolds` bounds
finding `image_orphan`: an orphaned job keeps and charges nothing where settlements
end within their lease (`~Overrun`) and the requester, once refused, is not let back
in (`MaxTurns` at most 1); TLC violates it when either condition is dropped. It
needs who may hold a settlement (`SettlerInv`), that access was refused for good
(`AccessInv`), and that a settler on its way to ORPHANED has kept nothing
(`RefusedInv`).

The books (`NetChargeHolds`, `SettledIsFinalHolds`) are proved for both payment
components and checked by the runs as part of `ImplementsCharge`.

**Only model-checked.** The liveness properties (`Resolves`, `SlotComesFree`,
`LockMovesOn`, `Finishes`, `Rests`, `CloseSettles`), which are beyond the prover:
it has no rule for fairness and no `ENABLED`. Every other property of a passing run
is a theorem as well.

## 6 Findings

Each has a run that expects the violation.

* `credits_forgotten` (code): a charge that falls short reads before a grant lands
  and pauses its task after the grant has searched for paused tasks. The levels of
  isolation differ, so both commit, and the task waits although the credits are
  there.
* `image_orphan` (code): a settler whose access check was refused releases its
  lease and only then writes ORPHANED, by row id. If the requester is let back in
  just then, another settler delivers and charges, and the late write denies it.
  `OrphanedKeepsNothingHolds` says when it cannot happen.
* `newsletter_early` (code): the list of due issues is minutes old when its last
  issue is taken, and the issue is asked for its status again but not for its time.
  One that was withdrawn and scheduled anew for later goes out at once;
  `OnlyWithdrawnGoesEarly` says that no other does.
* `x402_fence` (code): the dispatch delay is checked before an awaited write. A stall
  there sends the request later than `signRiskExpiresAt` allows for, and a
  resolve can refund credits while the authorization lives.

Met while modelling, without a run of their own:

* The operator's levers do not wait for an abandoned POST. An attempt gives up its
  lease in the write that puts the claim under review
  (`task-payment-claim.service.ts:337-350`), and a resolve takes the row whatever its
  schedule (612-615). In the seconds after a timed-out POST it may find nothing and
  refund (662-669), and then the POST lands: a live purchase nobody pays for,
  although the comment at 603-607 speaks of "authoritative absence". A retry in the
  same seconds (534-554) is safer, because the second POST usually meets a 409 and
  finds the purchase; it goes wrong only if the node refuses the terms before it
  looks at the identifier. Drop `hurried` from `RefundNeverLive` and TLC finds the
  resolve in 21 states, with punctual calls and without a fault; leave it out
  of `RetryReviewed` and it finds the retry.
* An operator's retry is not on the audit trail if the instance dies between the
  reset of the claim and the audit write, two separate writes.
* Recovery takes a post's latest attempt whichever schedule it belongs to
  (`social-post-publisher.service.ts:571`). A post missed once, rescheduled, and
  lost by a run before its own attempt was on record is called missed again
  although it was on time.
* A resume claims the schedule by its `state` alone (`task-schedule.service.ts:759`),
  although the comment at 568-571 says the version is compared: a rule set
  meanwhile is answered with Runs of the rule that was read.
* Pausing or ending a schedule without a project takes no lock, so a release that
  is open may make a Task whose Run the stop has deleted, although the comment at
  `task-schedule-runs.service.ts:225` says released ones stay. If that Run had been
  moved to an earlier time, the rule's own time for it is free again, a resume plans
  it anew, and it makes a second Task (TLC finds this with four times and three
  changes). That is why `OneTaskPerRun` forbids two Tasks, and asks for the ledger's
  row, only in a project.
* An end-after-N rule that is edited may release more than N Runs in all.
* If listing the recipients of an issue fails with nothing queued yet, the run
  closes the issue as FAILED for good, although `send-now/post.ts:70` says "Keep the
  scheduled issue available to the cron worker if the inline attempt fails".
* After a batch that the cap cut short, `retryAt` is computed from a clock read
  after the provider's call: past midnight it skips a day.
* A mail accepted for a run that has lost its lease is later recorded as FAILED, and
  its provider id is lost. `MailedOnce` says "SENT implies mailed", not the reverse.

## 7 Not modelled

Inside modelled components:

* Posts: quotes and first comments (they relate two rows; the comment is best
  effort), creation and approval, the text and media rules (an attempt may be unfit
  at any time). A single post whose run outlives its lease is excluded on purpose:
  `vercel.json` kills a function after 300 s, the lease is five minutes and the
  run's own budget 240 s; without this `PostedOnce` and `Warned` would not hold for
  a single post, whose call is not preceded by a look at the lease. For threads the
  overrun is checked.
* x402: the content of demands and headers.
* Image jobs: quotas and the quote (counts over other jobs), the numbering of
  versions, which of the outage clocks ran out, and the copy into the drive after
  delivery, which is idempotent by name.
* Credits: one wallet, without the scopes that choose it; how an invoice is read
  into grants. A job is given back only while it has a charge. A personal grant
  revives tasks by their owner, a workspace's by its workspace; one set of tasks
  stands for either.
* Schedules: edits of the Task's blueprint and project, deletion, an Owner who
  leaves, the release of a queued Run by its own time, the Run and Task that Run now
  makes (only the revision it takes). An open release sees the clock move once at
  most, and no transaction is open across a lease or a delay (`Quiet`), because the
  database client gives it five seconds. A rule never fills the 2000 Runs the ledger
  plans at most (`MAX_PLANNED_RUNS`). `FOR UPDATE` on the project is taken to
  conflict with the foreign keys' `KEY SHARE`, as Postgres documents.
* Close: one schedule and one account per project; `MaxFailures` is at least 2 (the
  code has 3).
* Newsletters: the health sample behind a pause, test mails, drafts, the deletion of
  an issue, and projects that send through the shared sender, which have no cap. A
  deleted subscriber who comes back is another one. The day stamped on a send is the
  one its transaction read. The order of the queue is left open, and the first day
  without a cap stands for all later ones.

The database is taken at its word: transactions are atomic and isolated at their
level, unique indexes hold, a single statement is one step. Clocks of instances are
one clock, apart from the node's `Skew`.

## 8 What is left

1. The posts of a closing project in `ProjectClose`, which now only knows its
   schedule and accounts; the ledger under the two payment modules.
2. `EffectOutbox` and the turns of the soko bot, once a boundary can be drawn
   around their states; the cursor of the job sync with the node's commit delay as
   a named assumption.
