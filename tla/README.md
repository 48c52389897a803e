# A formal model of the attendance system

TLA+ modules, TLC configurations and TLAPS proofs about the Flask application in
`src/app.py` and the scripts beside it: what its handlers do to the shared database
when several worker processes run them at once, when a request dies halfway, and
when time passes. `PROJECT.json` maps every definition to the lines it models.

## 1. The system

`app.py` is one Flask application over an SQLite database, `database/app.db`
(tables created by `migrations/`), a second small database `FaceBase.db`, and a
directory of face photos. gunicorn runs it as `2 * cpus + 1` synchronous worker
processes that are recycled every 500 requests (`gunicorn.conf.py`); on Windows
waitress runs one process with several threads. There is no background job:
everything happens in a request, or in a script an administrator starts.

Three facts shape every model here.

* **A statement is a step.** `query_db` and `execute_db` (`app.py:454-469`) open a
  connection, run one statement, commit and close. No handler holds a transaction
  over two statements. (The two counters of section 3.3 keep one connection, but
  their SELECT opens no transaction, so it comes to the same.)
* **The schema does not help much.** There is no UNIQUE constraint on attendance,
  roll numbers or sessions, foreign keys are not enforced, and ids are
  `INTEGER PRIMARY KEY` without AUTOINCREMENT, so the id of a deleted last row is
  used again, while browser sessions, reset links and corrections still name it.
  One constraint that does bite is the UNIQUE pair of student and fingerprint:
  it makes an error of the second of two simultaneous first logins from a device.
* **A login is a cookie.** The session is kept in the browser, signed; the server
  keeps none of it, so what a handler "removes from the session" is removed only
  where its response arrives.

### Components

| component | state | operations | what makes it correct |
|---|---|---|---|
| attendance records | `attendance` | mark, kiosk, override, approval, deletion | one row per student and session; rows only for sessions that exist; a correction decides |
| correction requests | `attendance_correction_requests` | file, approve, reject | one pending per pair; a decision was applied |
| session lifecycle | `sessions` | create, start, stop, cancel, reschedule, delete, lazy auto-close | open only while active; no double booking; closed when elapsed |
| schedule rules | none | conflict, listing, auto-close, late entry | the four agree on what a schedule means |
| lockouts | counters and locks in `admins`, `students` | login, mark, resets, clear | enough failures lock; a lock holds |
| live session page | in-memory version per process, the browser tab | publish, long-poll, interval refresh | no missed change; no worker kept for ever |
| browser session | the signed cookie | login, logout, CAPTCHA, liveness challenge | a token is used once; a logout lasts |
| passwords | `admins`, `students`, two tables of reset links | login, add, delete, change, reset, startup, script | the last account is never deleted; a link works once, and all of it |
| student records | `students` | register, import, delete, link, log in by provider | roll numbers unique; one student per provider account |
| faces | photos, `face_embeddings`, `photo_count` | register, add, delete one, reset, delete student | the three agree; a face is matched to its owner |
| logins | fingerprints, login sessions | login, logout, touch | new devices and concurrent sessions are reported |
| escalation and alerts | `audit_log` as a score, escalation flag, alert time | login checks, score, escalate, clear, alert | escalated and alerted when due, announced once |
| schema | the database, `alembic_version` | stamp, upgrade | the revision never ahead of the schema |
| backup and restore | archives, files moved aside | backup, retention, restore | nothing lost; a completed backup outlives the retention |
| embedding migration | marker table | migrate | every image embedded once |
| reports, risk, recognition decisions | none | reads | figures that agree with the tables and each other |

They interact through the tables. A mark reads `sessions` (lifecycle), `students`
(lockouts, escalation) and `attendance`, writes `attendance` and the lockout, and
publishes to the live page of the process that served it. Listing pages, session
pages and marks run the auto-close. A login resets its lockout, runs the device and
session checks and then the score; a reset link clears the lockout. Deletion of
sessions and students removes attendance rows but not correction requests, links or
cookies. Backup copies what the handlers write, in the order database, images.

The hard behaviours: two handlers on the same rows in any order; a value read
before slow face work and used after it; a handler or script that dies between two
commits; clocks passing between a read and a write; ids that come back; counters
held in one process and compared in another; responses that overtake each other.
`PROJECT.json` lists each at its line under "hazards", with the properties about it.

## 2. Modules

| module | what it is |
|---|---|
| `Attendance` | attendance rows and correction requests, one action per statement |
| `SessionGate` | abstract: what attendance may assume of a session |
| `SessionLifecycle` | the session handlers, one action per statement, over a clock |
| `AtomicLockout` | abstract: an attempt is one step |
| `Lockout` | the two lockouts, one action per statement |
| `Monitor` | the live page: tabs, processes, threads, messages on their way |
| `Credentials` | accounts, password changes and reset links |
| `StudentDirectory` | roll numbers, addresses and provider accounts of students |
| `FaceEnrollment` | photos, embeddings and counts of students |
| `LoginWatch` | devices and login sessions, and what a login reports of them |
| `Escalation` | the score, the escalation flag, the low-attendance alert |
| `SchemaUpgrade`, `Revisions` | `run_migrations`, and the thirteen revisions as data |
| `BackupRestore` | `backup.py` and `restore.py` over the files |
| `EmbeddingMigration` | `migrate_embeddings.py` beside the application |
| `BrowserSession` | the cookie, over tabs and responses in any order |
| `SessionRules` | schedules read by four handlers, minute by minute |
| `AttendanceReport` | the counting loops of reports and analytics |
| `AttendanceTrend` | risk levels, forecasts, features and training examples of a history |
| `FaceDecisions` | matches from similarities, head turns from face boxes |
| `AttendanceProofs`, `SessionLifecycleProofs`, `LockoutProofs`, `CredentialsProofs` | theorems about the module of that name |
| `StudentsProofs` | theorems about `StudentDirectory` and `FaceEnrollment` |
| `EscalationProofs` | theorems about `Escalation` and `LoginWatch` |
| `SchemaUpgradeProofs` | theorems about `SchemaUpgrade`, `EmbeddingMigration` and `BackupRestore` |
| `PagesProofs` | theorems about `Monitor`, `BrowserSession`, `SessionRules`, `AttendanceReport`, `AttendanceTrend` and `FaceDecisions` |
| `MCDuplicate` | `Attendance` with the pairs a mark wrote a row of, for one run |
| other `MC*` | definitions for TLC: workloads, windows, topologies, stories, symmetry |

A handler is a little state machine: `req[r]` holds the statement worker `r` will
execute next (`pc`) and the local variables that survive until then. A check and
the early return after it are the action of the statement that read the data.
`Abort` ends a request before any statement: a later check refused it, its worker
was killed, or SQLite raised "database is locked".

Variables marked *history* in the modules are not in the program. They record
what had happened (a write inside another correction's window, say) so that a
property can speak of it; no guard reads them, except that bounds on counters may.

Operators whose comment begins with *Slip* are plausible mistakes, each standing
before the definition it would replace. They are not part of any specification:
replacing the definition by its slip must make some property fail, which shows
that the property is about the code.

Most of these handlers are racy, and knowingly so. The form of most properties is
therefore *what goes wrong goes wrong only in this way*: `...Explained`, "unless two
of them met". Such a property is stronger than the one-worker promise (which it
implies, since a single worker meets nobody) and says where a lock or a constraint
would have to go.

**Stories.** Components that share nothing at run time share a run: `MCStudents`,
`MCWatch`, `MCMaintenance` and `MCRules` choose a *story* at the start and then let
one module run while the others stay in their initial states. The state space is the
sum of the parts. A property that is about one part names its story, and the parts
that carry several properties about one hazard bundle them (`GalleryIsRight`,
`BackupsRestore`, `RulesAgree`, ...), together with the module's type invariant; the
conjuncts are separate definitions with a comment each.

### 3.1 Attendance

A pair is (student, session); `rows[p]` is the list of its rows, `session[e]` the
view of a session that the gate of a mark sees: closed, open, cancelled or none.
`SessionGate` states the steps this view may take and `SessionLifecycle` is proved
to take no others; `Schedule`, `Start`, `Stop`, `Cancel`, `AutoClose`,
`Reschedule`, `DeleteSession` here are instances of those steps.

Abstractions: face verification, liveness, group, network and late-entry rules are
a choice between Present, Late and refusal; notes, timestamps and confidences are
left out; `locked` is the set of sessions older than the edit limit, which `Age`
and `Reschedule` change. The kiosk consults neither the session nor the lock, as
in the code.

With any number of workers: a duplicate row needs a write inside the DELETE-INSERT
window of a correction (`DuplicateNeedsTornCorrection`), an undisturbed correction
decides (`CorrectionDecides`), a row without a session was written during or after the
deletion (`OrphanNeedsStrayWrite`), an approved request was applied
(`ApprovedWasApplied`). With one worker only: `SingleRow` and `OnePendingPerPair`.

`MCDuplicate` adds which pairs hold a row that a mark wrote, for the one claim the
repository makes about duplicates: duplicate *marking* is prevented by the guarded
INSERT. Two marks do not get past it; a mark that is committed between the DELETE and
the INSERT of an override or a correction does, because their INSERT has no guard, and
the marked student has two rows (`MarkedOnce`, which `Attendance_duplicate` refutes).

An approval goes on when the session row is gone (`ApproveCheck`), so an orphaned row
needs no concurrency at all: file, delete the session, approve. That is why
`OrphanNeedsStrayWrite` is the strongest statement about orphans here.

### 3.2 Session lifecycle

A row has a status, the active flag and a window (two dates, two times of day).
The clock counts instants; a day has `DayLength` of them. `raced` and `unchecked`
are history: a conflict check is overtaken when another live window is written
before its own write; a session is unchecked when it holds a slot that no valid
check covered. Starting a cancelled session is such a case, without any race: its
slot may have been given away, and `start_session` does not ask.

The auto-close is a sweep over a snapshot. Both callers are one action pair: all
active rows (listing pages) or one row (a session page, a mark). The SELECT of the
listing that follows is the state when `todo` is empty, which is where
`ListingIsAccurate` looks. The run has two workers, or one of them alone (`workers`),
so that what holds only for one (`AloneListingIsAccurate`) is checked beside what
holds for any number (`OpenIsActive`, `DoubleBookingExplained`, `ImplementsGate`).

Left out here: subjects, titles, network and group options, unparsable dates. The
edit lock is read by the attendance handlers only, so it is in `Attendance`
(`locked`, which `Reschedule` may clear: no handler here asks for it).

### 3.3 Lockouts

One account; login and attendance-marking lockouts are the same statements on
different columns, so one module stands for both. `wrong` is history: failures
since the last clear. `LockMatchesCounter` and `UnlockedNeedsLostCount` hold with any
number of workers. That the limit of failures locks, and the refinement of
`AtomicLockout`, need one worker: two failures at once may count as one, and a
failure that read an older count can write NULL over a running lock, which `lost`
records as well.

### 3.4 Live page

One session, several tabs. `host` places threads in processes, so that the same
module is gunicorn with several processes and waitress with several threads; the run
starts with either. Changes of the data are counted, published ones (marks,
overrides, approvals) apart from silent ones (a deleted student, a failed attempt).
A tab is new, ready to poll, waiting, or left; its long-poll answer and its interval
refresh travel separately and may arrive in either order. `Restart` is the recycling
after `max_requests`, or, where `Abrupt`, the death of a process with all it was
doing. With two processes a tab whose polls alternate between them never parks as
long as their versions differ; the page is still current, which is what
`EventuallyCurrent` says.

Fairness (`Fairness` in the module) and why the code justifies it: a thread goes
on with its request; the wait loop has a deadline, so a parked poll either wakes or
expires; the browser handles answers it receives; and a queued poll is eventually
accepted by one of the threads that come free (strong fairness, because a thread is
free only now and then; the accept queue of the listening socket is first in, first
out). Nothing makes anyone mark, refresh or leave. The interval refresh is not
fair, so `EventuallyCurrent` rests on the long-poll alone.

### 3.5 Credentials

Rows of `admins` and `students` with the lock, reset links with owner and state, the
names of administrators whose cookie is still good, and per worker the statement it
is at. Passwords are not values: a comparison is a choice, and what matters is whose
password a handler changes. Startup (`init_databases`) makes the default administrator when
it finds none, `reset_admin_password.py` runs from the shell.

`LastAdminKept`: the rule "cannot delete the last remaining admin" survives cookies of
deleted administrators, startup and the script; only two deletions that counted the
same accounts break it. `SecondUseExplained`, `SpentLinkTookEffect`: three commits
change the password, spend the link and lift the lock, in this order, so a crash
leaves a link that still works rather than one spent for nothing.
`AstrayNeedsDeletion`: an old link or cookie changes somebody else's password only
through an id that came back.

### 3.6 Students and faces

`StudentDirectory` is who a student is, `FaceEnrollment` what the student looks like;
both let ids come back. Registration, import, contact changes, deletion, and the
callback of a provider, which links an account or logs in (Google and OIDC are the
same statements on two columns; the module is one provider). A person, the n-th
account made, is not in the code: it is how the properties tell the owners of one id
apart.

`DuplicateRollExplained`: only an insertion that another check overtook duplicates a
roll number. `LinksExplained`: one student per provider account unless two callbacks
met, an address a student gave is not replaced, and a stale browser session links to
the next owner of its id and to nobody else.

`FaceEnrollment` follows every handler through file, embedding and count.
`PhotosAgree`: between requests, files and embeddings agree and are numbered from 1,
unless a photo was deleted by itself. That exception is no race: the next enrollment
counts the files, takes a number that is in use, overwrites that file and leaves two
embeddings that name it. `GalleryIsRight`: a deleted student leaves no face behind,
and a face matched to another student belongs to an earlier owner of the id who used
an old cookie, or came from requests that met.

### 3.7 Logins, escalation, alerts

`LoginWatch` is `_establish_student_session` up to its reports, `Escalation` what the
reports lead to. In `Escalation` an event is its weight in the score; the two kinds a
network change logs are named, the others are any event. (`student_login_failed` and
`student_login_blocked` are logged under the name 'anonymous' with the roll number as
target, so they never count in a student's score, and are not events here.)

`EscalatesOnce` is two statements. `HighScoreEscalates`: a login that read a score at
the threshold leaves the student escalated until the flag is cleared. Logins and clears
that meet on the way do not lose that; a login that dies between the score and the flag
does, and then the next login reads the score again. `OneNotice`: it is announced once,
unless a login met another or the clear there, or died there. The flag is only half of
the state an administrator clears: the events stay in the score, so the next login
escalates again even without a new event, whereas the docstring of
`clear_security_escalation` (`app.py:3071-3075`) speaks of new risk events that cross
the threshold again. `OneAlert`: one low-attendance alert per cooldown, unless two marks
met. `LoginsNoted`: devices after the first, and sessions live at the same time from
different origins, are reported.

### 3.8 Maintenance

`SchemaUpgrade` is `run_migrations` and the part of Alembic it calls, statement by
statement, in any number of processes that may be killed. SQLite commits each DDL
statement; only the version is written in a transaction with its UPDATE. `Revisions`
is the chain as it is in `migrations/versions`. `RevisionIsTrue`: the version named is
never ahead of the schema. `FailureExplained`: a process that meets nobody and is not
killed never fails and leaves no revision half done; conversely one killed within a
revision leaves a database on which every later start fails, until somebody repairs
it. Where two stamps cross, Alembic may insert a second version row and fail only at
the next start; in the model the later stamp fails at once, and has met another process
either way.

`BackupRestore`: the archive of a completed backup, taken while students enroll, has the
image of every embedding in it, because the database is copied first and the handlers
save the image first. A backup may leave three other things under the name of an
archive, all of which the retention counts: what a killed one wrote (`Part`, which
cannot be unpacked); what one that failed within `tar.add` closed early (`cut`), with
the database and some of the images, which a restore accepts; and an archive with no
database, made while `app.db` was missing, which is only a warning. `SomeGoodArchive`
says what that leaves of the retention: the archive of a completed backup always
outlives killed and failed ones, and it can be restored unless it is of the last kind.
That exception is real: a restore killed between moving the database aside and moving
the new one in, then a backup that keeps one archive, and none that can be restored is
left. (The files moved aside are.) A restore killed anywhere leaves the old files
moved aside, with the exceptions the properties name (two moves in one second overwrite
each other). Each move is one step; across file systems `shutil.move` copies and then
deletes, which is not in the model.

`EmbeddingMigration`: the script over a list of images, while the application saves
and wipes. An image the application itself saved has an embedding but no
mark, so a later run of the script stores a second one: one of the three exceptions
of `EmbeddedOnce`.

### 3.9 Rules and figures

These modules hold no interleavings but computations, over all small inputs.

* `BrowserSession`: `SingleUse` and `LogoutSticks` for any order of the responses of
  two tabs. Because a response carries the whole cookie, both hold only where no other
  request was under way.
* `SessionRules`: the conflict check, the listing, the lazy close and the late-entry
  rule are four functions that read the same columns. They agree up to the exceptions
  stated: sessions that run past midnight are compared by time of day alone, and a
  daily session takes marks only within a window of its *first* day's start
  (`MarkedInWindow`), since the lazy close and the late-entry rule look at no other.
* `AttendanceReport`: four loops over the same rows. `PerfectMeansAll` states what the
  percentages count: every session in the range, planned and cancelled ones too,
  although `cancel_session` says of a cancelled one that it "never took place at all".
  It speaks of fewer than 2000 sessions of a subject: from then on rounding to a tenth of a percent
  takes one absence away. (The proof showed this; no run is that large.)
* `AttendanceTrend`: `analytics.py` and `ml_predictions.py` in exact integers (tenths
  of a percent, as the code rounds). At the default threshold of 75 the forecast
  agrees with the floats of the code; at 60, say, the float quotient before `ceil` may
  be a hair above an integer and the code shows one session more. A history has an entry
  for every session with a date, planned and cancelled ones too, and changes as sessions
  are planned, marked, moved and deleted: one yet to be held is an absence until the mark.
  So a training example changes when something happens to one of its sessions, and its
  label is not always "what actually happened", as `build_training_examples` has it.
  `ExamplesLocal` says that nothing else changes it, `LabelUnseen` that its features are
  made of the sessions before the label only.
* `FaceDecisions`: recognition among all students and verification of one give the
  same score for every `MATCH_TOP_K`; a larger one is stricter; the head turn is a
  matter of the whole span. A gallery is a sequence of photos and a decision is about
  sets of its indices; scores are fractions, compared by multiplying across, so that
  nothing is rounded. Similarities are integers, a cosine in some unit; the code starts
  its search at -1 with `>`, which no other cosine is below, so a photo of similarity
  exactly -1, which the code skips, is not in the model.

## 4. Runs

| run | instance | shows |
|---|---|---|
| `Attendance_workers` | 2 workers, 1 pair, up to 2 rows, 1 correction, every handler | races, half-done requests, deletion and reuse of an id |
| `Attendance_one_worker` | 1 worker, 2 corrections | what a single worker guarantees |
| `Attendance_duplicate` | 2 workers; *expects a violation* | a mark inside an override leaves the marked student two rows (finding in `PROJECT.json`) |
| `SessionLifecycle` | 2 workers or 1, 2 sessions, 2 overlapping windows, 3 instants | races, the refinement, accurate listings |
| `Lockout_races` | 3 workers, limit 3, up to 6 failures | consistency under races |
| `Lockout_one_worker` | 1 worker, limit 3, duration 2, 8 instants | refinement; locks that expire and are renewed |
| `Monitor` | 2 processes, or 1 with 2 threads; 1 tab, 2 published and 1 silent change, 1 abrupt restart | liveness; no poll waits for missed news |
| `Credentials` | 2 workers, 2 names, 2 administrator ids, 1 student id, 3 accounts ever, 1 link | last account, reset links |
| `Students` | 2 workers; 2 rolls, 2 addresses, 1 provider account, 2 ids; faces: 1 id, 2 accounts, 2 images, 2 numbers | roll numbers, links, gallery |
| `Watch` | 2 workers; weights 1, 2, 1, threshold 2, cap 3; 2 devices, 1 address, 2 sessions | escalation, alerts, reports |
| `Maintenance` | 2 processes; 13 revisions; 1 face, retention 1, 3 seconds, 2 restores; 2 images, 2 embeddings each | kills at every point |
| `Rules` | 2 tabs, 2 tokens; 8 schedules, 2 sessions, 7 minutes in days of 4; 3 sessions by 2 students; histories up to 12; up to 4 photos, `MATCH_TOP_K` 0 to 3, and 4 frames | rules and figures over all small inputs |

Bounds. Rows, corrections, failures, changes, restarts, accounts, links, tokens and the
clock are bounded by `Max...` constants in the guards; nothing else is. The races all
involve a reader and a writer of one row, which two workers provide (three for the
counter); handlers of different pairs or accounts touch disjoint rows, so one pair and
one account suffice, while overlap needs two sessions and a sweep needs a list of them.
An id comes back as soon as one more account may be made than there are ids, which the
bounds of `Credentials` and `Students` allow. In `Maintenance` two backups meet in one
story and restores happen in the other, where backups come one at a time; a backup
leaves images out only where there are none, and the clock stands once two met or fell
into one second (`Modest`, `Aside` in `MCMaintenance`). `BackupsRestored` is proved of
`BackupRestore` without these limits. In `Rules` the schedules are chosen to touch, to
overlap, to repeat daily, to span a night and to be inverted; histories of 12, with
insertion, removal and change at every place, are three times the minimum of 4 and
longer than both windows of 5; four photos let two students own two each. The proofs of
section 5 remove the bounds for what they cover. Symmetry is over workers, students and
other values no configuration names apart, and only in runs without liveness. Deadlock
is checked everywhere except in `Monitor`, where every tab may have been left and every
bound used up, and `Rules`, where a history ends when it is as long as it is let grow.

## 5. Theorems

All proofs are checked by TLAPS, for every value of the constants that satisfies the
named assumptions: any number of workers, students, sessions and windows, any limits.
The bounds are arbitrary naturals, so no bound is "large enough"; the guards that
enforce them remain. The assumptions say that a bound is a natural (where the code needs
one of something, at least one), that a function or a set of records has its type, that
the threshold is within the cap of the score, or that a marker value (`"none"`,
`"part"`) is not one of the values it stands beside; each is named where it is declared,
and TLC evaluates it on the run's instance. Where a component is checked as a story of a
composition, the theorem is about the composition's specification, so that run and proof
speak of one and the same formula; the invariant then reads *story => invariant of the
component*.

A strengthened invariant is tried with TLC on the run's instance before it is proved
(add it to the configuration). Most have one shape, the **section argument**: a history
variable names what may go wrong (two workers in a section, a death inside it); as long
as it did not happen to this row, at most one worker is inside, and what that worker
read before still holds of the tables. The paragraphs below say what is read and what
still holds.

### Attendance, sessions, lockouts

`AttendanceProofs`: `TypeCorrect` strengthens the types by the fact that a
correction being resolved exists. `DuplicatesExplained` needs to know that a pair
inside some request's window is empty or torn: that is the invariant, since a
DELETE opens the window on an empty pair and any write before the INSERT tears it.
`OneWorkerSingleRow` adds that with one worker nobody can be in somebody else's
window, so nothing is ever torn. `OrphansExplained` carries "rows of a pair whose
session is gone or going are strayed". `ApprovedApplied` carries "a request about
to write 'approved' has inserted its row". `CorrectionsDecide` is an action
property from the invariant of the duplicates. `OneWorkerPending` (one worker)
carries "who is about to file finds nothing pending" (`PendingOK`).

`SessionLifecycleProofs`: types; `OpenSessionsAreActive` by the kinds of writes a
handler makes; `DoubleBookingsExplained` carries, for every checked request that
was not overtaken, that its window conflicts with no live session;
`LifecycleImplementsGate` maps every step to a step or a stutter of the gate.
`AloneListingsAreAccurate`, where one worker is alone, for any finite set of workers:
what the sweep has passed was not elapsed at its beginning, and what it has still to
look at is as it was listed (`AloneOK`).

`LockoutProofs`: types; the lock matches the counter; while no count was lost the
counter is the number of failures (`UndercountsExplained`); with one worker no
count is lost, hence `OneWorkerFailuresLock` and `OneWorkerImplementsAtomic`.

### Accounts and students

`CredentialsProofs`: types, with "who holds a link holds one that was made" (`Held`).
`AstrayExplained`: the account a request or a link means is still in its row or gone
(`Meant`); an account never moves. `LastAdminStays`: unless a deletion relied on a
count that was overtaken there is an administrator, and while a deletion is under way
that was not overtaken there are two (`Enough`): every removal marks the other
deletions late, so only one that is not can take the last but one. `SecondUsesExplained`:
a link nobody shared and nobody died at has one holder, who has not used it before the
password is changed (`SingleAt`). `SpentLinksTakeEffect`: who is about to mark a link
has changed the password or found the account gone (`Effect`), and whoever owes an
unlock is on the way to it (`Owing`).

`StudentsProofs`, `StudentDirectory`: types; `DuplicateRollsExplained` from "who found a
number free is right until somebody inserts it" (`RollsRight`). `LinksAreExplained` is
three invariants: an account of which no two callbacks met belongs to one student, and
to nobody while it is being matched (`OneAt`); whoever had an id has it still or is gone,
which needs that no person has two rows (`Distinct`, `Theirs`); a callback about to
write an address read the one its student gave (`Fresh`).

`StudentsProofs`, `FaceEnrollment`: `PhotosAlwaysAgree` and `GalleryIsAlwaysRight` rest
on one invariant, `FacesInv`, for each student by itself. `Agrees` says, statement by
statement, how far the count that will be written, the files and the embeddings are
from one another while one worker is at work on the student; `Rests` that they agree
when nobody is. The count of embeddings is a cardinality, so the lemmas are about what
one insertion or removal does to it. Where no photo was ever deleted by itself, the
numbers are 1 up to the count, and the number the next image takes is free; after such
a deletion only the count is kept, which is the exception of section 3.6. `Rightly` and
`Owned` follow whose faces they are over ids that come back.

### Logins, the live page, the browser

`EscalationProofs`: types; for each of the two checks, the invariant says that while
nobody met in its section at most one worker is inside, and what that worker knows
still holds: the cooldown is still due and nothing was sent (`AlertedOnce`), the flag
is down and no notice written, or a score at the threshold is being acted upon
(`EscalatedOnce`, for both of its statements). `LoginsAreNoted`, of `LoginWatch`: every
device but the first is reported or about to be (`FirstOK`, `ReportedOK`); who looked
for live sessions has found those there are (`FoundOK`), so that of two live ones the
later was reported (`NotedOK`), which has to hold for later sessions that are *not* live
too, as they may be touched again.

`PagesProofs`, `Monitor`, in every topology: types; `ParkedPollsAreFresh`, as long as no
process restarted: a process counted no more marks than were committed, those its
threads have yet to publish included (`Counted`, a sum over threads); a tab has one poll
on its way (`OnePoll`); no version travels without the data that belongs to it
(`Covers`). A restart sets a version back to zero while tabs remember the old one, which
is why the invariant is about the time before.

`PagesProofs`, `BrowserSession`: `CookiesKeepUp`, for any number of tabs and tokens: a
token that was accepted without meeting another request is in no copy of the cookie
any more, or the one response under way takes it out (`UsedInv`); after a logout alone
only a login carries a user (`LeftInv`). `SessionRules`: `RulesAlwaysAgree`, for any
schedules, length of the day, grace and window: no two sessions let in by the conflict
check conflict (`Apart`), and the minute arithmetic does the rest (`ListedByDay`,
`Divided`).

### Maintenance

`SchemaUpgradeProofs`, for any chain of revisions in which no statement creates what
another does (`DistinctAssumption`, which TLC evaluates on the real chain): types;
`RevisionTrue` and `StampDue` from an invariant that says what each process has seen
done: the revisions before its own, its own statements so far, and, where it stamps,
the schema of the stamp. A database without a version table is never touched, which is
why an old decision to stamp is still right. `FailuresExplained` adds what the database
looks like *exactly* to a process that is alone.

`MigrationEmbedsOnce`, for any images: one in the hand of a single run has no embedding
until that run stores it and one from then on (`EmbedInv`); what is about to be marked is
embedded, what is about to be embedded is there (`HandInv`). `BackupsRestored`, for any
faces, seconds, processes and number kept, and for `BackupRestore` itself, without the
limits of the run: what was enrolled is live or aside
(`KeptInv`); the live pair of files matches, or, in the middle of a restore, that of its
archive (`ImageInv`); backups that come one at a time write newer and newer names, so the
retention, which runs only after a backup completed, finds that one newest (`GoodInv`).

### Figures

`PagesProofs`, the other half. What a report, a forecast or a match computes is a fold
over rows, a history or a gallery, and the induction theorems of the library take an
operator as a parameter, which the provers cannot instantiate. So induction is done
over *sets*: the cases a statement holds for are a set `C`, and the least case outside
it contradicts the step (`SubsetInduction` over the subsets of a finite set, `CountUp`
over an interval). A fold of the community modules is a recursive function over
subsets; `FoldsExist` shows that there is one, `SumsAgree` that the sum does not depend
on the order in which CHOOSE takes the elements, and `SumFacts` is what the rest uses:
a sum over a set is its value at any element plus the sum over the others.

* `FiguresAlwaysAgree`, for any students, subjects, days and any finite number of
  sessions. `FibresAddUp`: the sizes of the parts of a partition add up, which makes
  the subjects add up to the total (`SubjectsMatch`), the days of the trend to the
  report (`TrendMatches`), and the cohorts to the students (`CohortsMatch`, with
  `AverageBetween` for their averages). `PerfectMatch` is arithmetic about rounding; the
  attempt without a bound on the sessions failed, for the reason given in section 3.9.
* `TrendAlwaysMeansIt`, for any history, minimum, windows and thresholds. `Windows`: the
  older part of a history and the recent one are parts of one sum (`TwoParts`), so a
  total above the threshold that is projected to fall below it soon needs a recent rate
  below the rest, rounding included: a high risk is a declining trend (`HighDeclines`).
  `CrossesFirst`: the quotient rounded up is the first number of sessions at which the
  projection is below the threshold. `RunsStep` unfolds the streak loop one outcome at a
  time, from which a streak is a run of outcomes that is there and that no longer one
  contradicts (`StreaksRun`). The history is any sequence, since sessions are planned,
  marked, moved and deleted in any order (`TakenOut`, `PutIn`). `ExamplesKeep`: cutting
  a history short leaves the examples whose sessions are all there as they were.
  `LabelsUnseen`: other outcomes after an example's past leave its features as they
  were.
* `FacesAlwaysDecided`, for any gallery, any boxes, and every `MATCH_TOP_K`.
  `HighestExists`: among fractions there is a first highest one, so that the scan
  finds what the comparison of all would. `GreatestExist` and `GreatestSum`: the k
  closest photos exist and no k others have a greater sum. `OnePhotoMore`: the average
  of one photo more is no higher, from which `Stricter`; `Dominant` and `Turning` are
  the two other statements.

Assumptions: the sets of students, sessions and subjects are finite, similarities are
integers, boxes have a positive width, settings are naturals and the minimum of
sessions and the window at least one (`ReportAssumption`, `TrendAssumption`,
`FaceAssumption`), as the code's defaults are.

### One worker

Two corollaries say what the explanations amount to when the application is served by
a single worker thread (which is an assumption of the theorem, not of the module).
`OneWorkerKeepsUnique`: roll numbers are unique and a provider account belongs to one
student at most, although no column is declared UNIQUE. `OneWorkerCredentials`: the
last administrator is never deleted, and a link that changed a second password is one
at which the worker died before marking it.

### Only model-checked

`EventuallyCurrent` and `ThreadsComeFree` of `Monitor`: liveness under fairness is out of
this prover's reach. Every other property of a passing run is the subject of a theorem.

## 6. Not modelled

* Image processing and embeddings: detection, brightness and blur, blinks and smiles,
  texture and moire scores. They are floating-point functions of pixels; the models
  take their verdicts as inputs.
* Training and prediction of the logistic regression (floating point). What goes into
  it, features and examples, is in `AttendanceTrend`.
* The iris interface, a mock without a caller in the attendance flow.
* Rate limits (a library's counters, per process) and the network rule (a comparison
  with a list), which the handlers' models have as a choice to refuse.
* The OAuth exchange, done by Authlib; what its answer does to the tables is modelled.
* Logging, metrics, error reporting: append-only output that nothing reads, but for
  the score.
* `app_settings`: upserts of single rows that move thresholds, constants here.
* Exports, pagination and filters of lists: layout. Templates other than the live page.
* `downgrade()` of the revisions, which no code calls; `set_admin_recovery_email.py`,
  one UPDATE; the superseded desktop scripts.

## 7. Plan

Every safety and action property that a run checks is proved. What may come next, in
this order:

1. What would hold after the repairs the explanations point at: a UNIQUE constraint on
   (student, session), one transaction around count and delete. The modules have the
   statement each repair would replace as one action.
2. The section argument is repeated in the proofs about attendance, alerts, logins
   and roll numbers; a common module of it would shorten them.
3. The runtime settings, which move thresholds between two statements of a handler.
