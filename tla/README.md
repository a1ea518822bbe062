# Verification of Atlas 2.0

TLA+ models, TLC configurations and TLAPS proofs for the news-screen service: a
Go daemon that drives a jailbroken Kindle over SSH, keeps a clock on it, walks
news queues in Redis every quarter of an hour and interrupts both for alerts
that arrive over gRPC. Paths below are relative to the repository.

Contents: [the system](#the-system), [the modules](#the-modules),
[the runs](#the-runs), [bounds](#bounds), [fairness](#fairness),
[the proofs](#the-proofs), [only model-checked](#only-model-checked),
[findings](#findings), [observations](#observations-without-a-run),
[not modelled](#not-modelled), [plan](#plan).

## The system

| Component | State it keeps | Operations | Talks to |
| --- | --- | --- | --- |
| Supervisor (`internal/supervisor`) | lifecycle, desired-on, what runs, run numbers, alert queue, two channels | commands `start shutdown reconcile newsChanged newsPass alert snapshot stop`, internal messages `newsStopped newsStopTimedOut newsRetry alertFinished`; `reconcile` after most of them | starts the news worker and alert goroutines, switches the display |
| Request protocol (`request`, `trySend`, `reply`, `Stop`) | one reply channel and context per call, `done`, `stopResult` | enqueue; wait for reply, context or `done` | gRPC handlers, cron, main |
| Alert presentation (`internal/alert`) | none | show, hold, clear | display controller |
| News worker (`internal/newsworkflow`) | clock goroutine, pass goroutine, pending token | paint the clock, wait for `refreshNow`, run a pass | dashboard, display |
| Dashboard (`internal/dashboard`) | memo of backdrop files | list genres, show each, rotate up to N stories | Redis store, Kindle |
| News queues (`internal/news`) | per genre a list, a set of genres, deduplication keys, dead letters (Redis) | Push (a script), Genres (SMEMBERS, LLEN, SREM), Next (LMOVE, quarantine) | Redis, gRPC handlers, dashboard |
| Display controller (`internal/kindledisplay`) | `running` under a mutex | Start, Stop, IsRunning, ShowClock, RunClock, Show, Clear | Kindle over SSH |
| Frames (`internal/kindle`) | cache of prepared images, the display's size, files on the device | clock, genre, story: rotate, clear, light, size, upload, draw, text; the layout of each; what is made of a photograph | HTTP, SSH |
| Scheduler (`internal/scheduler`) | none | active window, cron of start, stop and passes | supervisor |
| Service main (`cmd/news-screen`) | none | boot, serve, signal, shutdown | everything |
| gRPC server (`internal/grpcserver`) | none | AddNews, AddAlert, GetStatus | store, supervisor |
| SSH client (`internal/sshclient`) | none: an OpenSSH process per command | run, upload | Kindle |
| Configuration (`internal/config`), CLI (`app.go`), generated API | none | | |

How they interact: one goroutine, the supervisor's loop, owns the panel. gRPC
handlers, cron and main send it commands; the goroutines it starts (news worker,
alert) and its timers send internal messages. A news worker owns two more
goroutines (clock, pass), and a pass reads Redis while the handlers of AddNews
write it. Every paint ends in the commands of a frame, sent over SSH.

What is hard about it, and what makes each part correct:

- *Supervisor.* `select` serves two channels in any order while goroutines are
  still unwinding from a cancel; results and timers of former runs arrive late; a
  device command may take effect although its result is lost; the signal cancels
  contexts before the loop is told to stop. Correct: one painter at a time, on a
  display that runs; no result is lost; the status tells what runs; alerts are a
  bounded FIFO; Stop ends and leaves nothing alive; the window is served.
- *Request protocol.* The caller's context, `done` and the reply race, in two
  selects. Correct: what a caller is told is true, the loop never waits for a
  caller, every call returns.
- *News worker.* Cancel, signal, and the ends of its own goroutines race in three
  selects. Correct: its two painters never overlap nor outlive it, every pass
  answers a signal of its own, no signal of a run is lost, a cancel is followed by
  the return.
- *News queues and pass.* A walk over queues that are pushed to, trimmed and
  quarantined meanwhile, one call at a time. Correct: lists stay bounded and free
  of duplicates, only a trim drops a story, malformed items are shelved, stories
  are shown.
- *Service.* Three goroutines of cron, calls, a signal, a channel that may be
  full, and timeouts around most waits. Correct: desired-on follows the window, the
  order of the shutdown leaves nothing behind Stop, a signal ends the process.
- *Display.* Any command of a frame may fail with its effect, without it, or with
  its effect to come when other commands have been given, and the next frame begins
  on what is left. Correct: a frame that was painted to its end shows itself alone,
  in type that can be seen; the image cache keeps its books and limits.
- *Layout and photographs.* Integer percentages that round down, on any panel; a
  panel that refuses regions of one pixel; white type on whatever a photograph
  holds. Correct: every region fits and none overlaps another, the rows of the copy
  stay dark, the picture stays true to the photograph.

## The modules

| Module | Models | State and actions |
| --- | --- | --- |
| `Supervisor` | `supervisor.go`, `alert/worker.go`, the start and stop of `kindledisplay/controller.go` | The variables are the fields of `internalState` plus the two channels, the live goroutines, the light of the panel. One action per case of the loop's switch (`ReceiveStart`, `AcceptAlert`, `NewsStopped`, …) and per exit of reconcile (`ReconcilePause`, `ReconcileStartAlert`, …), the goroutines' steps (`NewsExit`, `AlertShow`, `AlertExit`), the senders and the signal. `phase` says whether the loop is at its select, before reconcile, or done. `internal` is a set: its senders are goroutines that may be delayed. |
| `AlertQueue` | what the service promises of alerts | abstract specification: accept, start, finish, give up |
| `NewsWorker` | `newsworkflow/worker.go` with the goroutines of `RunClock` and `ShowNewsCycle` | `pc` is the select or join the worker stands at, one action per branch |
| `NewsStore` | `news/store.go` | Redis: lists, genre set, keys, dead letters; scripts and transactions are one step, everything else one step per call |
| `NewsPass` | `Genres`, `Next`, `ShowNewsCycle`, `drainGenre` on `NewsStore` | one step per Redis call; a pass may be cut short at any of them |
| `Service` | `cmd/news-screen/main.go`, `scheduler.go` | main's `pc`, the clock in minutes, cron goroutines, the command channel, blocked calls; the supervisor as main sees it |
| `Requests` | `request`, `reply`, `Stop`, the loop's receive and end, the gRPC handlers | one call per caller; its place, context, reply channel and result |
| `ImageCache` | `getPreparedImage`, `putPreparedImage` | map, order of use, bytes |
| `Layout` | `newDashboardLayout`, `drawStaticChrome`, `drawClock`, `newStoryLayout`, the sizes of `genre.go` and `ShowTitle` | no state: the regions as functions of the display, and what must hold of them |
| `KindleDisplay` | `controller.go`, `commands.go`, `clock.go`, `genre.go`, `RunStory`, and `RunContext` and `UploadContext` of the SSH client | an operation is a script of device commands (`todo`); each succeeds, or fails with its effect now, later (`late`) or never; the panel is a set of layers, a text with its ink or a picture |
| `Picture` | `prepareStoryBackground`, `enhanceLocalContrast`, `grayscalePercentiles`, `einkTone`, `storyScrimPercent` | a photograph on its way to the panel, one action per pass over its pixels |

`MCSupervisor`, `MCNewsPass`, `MCService`, `MCRequests`, `MCKindleDisplay` and
`MCPicture` give the constants their values. `SupervisorProofs`,
`NewsWorkerProofs`, `NewsPassProofs`, `ServiceProofs`, `RequestsProofs`,
`LayoutProofs`, `KindleDisplayProofs` and `PictureProofs` hold the theorems.

Composition: `NewsPass` extends `NewsStore`, `KindleDisplay` extends `ImageCache`
and `Layout`, `Picture` extends `Layout`, `Supervisor` has an instance of
`AlertQueue`. Between the others
the interfaces are stated and used as assumptions. `Supervisor` takes of the
worker that it returns when it is cancelled, which is `CancelEnds` of
`NewsWorker`, and that nothing of it paints afterwards, which is `OneGoroutine`.
`KindleDisplay` takes of its callers that they take turns, which is `OnePainter`
and `DisplaySwitchedAlone` of `Supervisor`. `Service` and `Requests` take of the
loop that it ends when its workers have, which is `StopCompletes`.

A definition whose name ends in `_Bug` is a mutant: the same definition as the
line below it, with a slip a programmer could make. It is used by no other
definition; with it in place of the original the property it stands beside in
`PROJECT.json` fails.

## The runs

| Run | Question | Answer |
| --- | --- | --- |
| `supervisor` | Does anything ever paint beside the owner of the panel, whatever is cancelled, delayed or failing? Does the status tell the truth? Are alerts a bounded FIFO? | No; yes; yes. `OnePainter`, `PaintersOwnDisplay` (with nothing left alive when `done` is closed), `RunsAreAccountedFor`, `DisplaySwitchedAlone` and `StatusTellsTheTruth` (with the queue depth) hold, the supervisor implements `AlertQueue` (`AlertFifo`), and reconcile never gives up an alert (`ReconcileKeepsAlerts`). |
| `supervisor_live` | Does what must happen happen? | Alerts leave the queue (`AlertsLeaveQueue`) and the window is served again after a failed worker (`WindowIsServed`), unless the display finally failed to start and the status says so: the code then arms no timer and waits for its next command. Stop ends (`StopCompletes`). The end of the window darkens the panel, or a failed stop is the last thing the status reports (`WindowEndsDark`). |
| `news_worker` | Do the goroutines of the worker overlap, and are signals lost? | No, nor does one outlive the run: `OneGoroutine`; a pass serves a signal of its own (`PassesAreAskedFor`), every signal of a run gets a pass (`SignalIsServed`), a cancel ends the run (`CancelEnds`). |
| `news_pass` | What do pushes, expiries and cut-short passes do to the queues? | Bounded (a list that is too long from the start, since the limit was lowered, never grows and is cut by the first push), no duplicates, no story twice in a pass unless a key expired or an item was quarantined, losses by trim alone, malformed items shelved, stories shown or pushed out, unless the picture of a genre could not be read. |
| `service` | Does the service follow its window and shut down in order? | `WindowAgrees` (a boundary that was dropped, or fell into the boot, excepted until the next one), `StopIsLast`, `SignalEnds` hold over days without end, with crashes and restarts. |
| `requests` | Can a caller be misled, left waiting, or block the loop? | Not by ok or a refusal (`RepliesAreTrue`, `OkIsFinal`), and no call is left waiting (`CallsReturn`) or blocks the loop (`ReplyHasRoom`). But the error of its own context may mislead it: "request deadline reached before acceptance" (`server.go:225-227`) is also said of an alert that was accepted, when the deadline passes as the loop handles it, so `RepliesAreTrue` leaves it out. |
| `kindle_display` | Is a painted frame what it should be, after any failures before it? | Yes, but for an effect that comes late: `WholeFrame`. The cache keeps its books and limits (`CacheBooks`), and every region of every frame fits the display (`RegionsFit`). |
| `picture` | Is white type readable on every photograph, and is the picture still that photograph? | Yes. `Readable`: the rows of title and genre screen stay at 99 or less of 255, of genre and description at 112, of the source at 120, and nothing is crushed to black. `TrueToPhoto`: the crop covers the display, the integral image gives the mean of each box also at the edges, few pixels are cut off by the stretch, and tones keep their order. |
| `temporary_display`, `dark_panel`, `forgotten_genre`, `opening_pass` | Does the code do what its documentation says here? | No: see [findings](#findings). |

Deadlock is checked in `news_pass`, `service` and `kindle_display`, whose
systems never stop. In the others they may: bounds are used up, or Stop has ended
everything.

## Bounds

Bounds are constants named in the modules' headers (`Max…`); each cuts an input
that is unbounded in the code.

- `Supervisor`. Three commands beside the alerts let two interfere while a third
  (an alert, a stop timer, a result) is under way; one fault is enough to take
  every error path once. `StartupRetryCount` counts the tries of a start. It is one in
  `Supervisor.cfg`; the live run has two, and as many faults, so that a start may fail and
  be tried again, or fail finally. Three
  alerts give the FIFO a middle. An alert capacity of 1 is full with one alert
  waiting and one shown, and a command channel of 1 lets `trySend` find it full.
  `MaxNewsRuns` of 2 bounds one thing only: after the signal `appCtx` is cancelled,
  so a worker the loop starts returns at once and is restarted until Stop arrives,
  as often as the retry timer fires.
- `NewsWorker`. Three signals are one being served, one pending, one coalesced
  with it; three runs let what a run leaves reach the next one and its successor.
- `NewsPass`. Lists of three with passes of two, so that trims, rotation and the
  limit per genre all matter. Redis holds either of two things: one genre with nothing
  that decodes and another with a story pushed before the start, with its key or
  without, and legacy items under its other spelling, more together than a list can
  take; or a genre with four items, one more than the limit since it was lowered. Two
  pushes, one expiry and one cut-short pass are enough for a duplicate, a trim under a
  walk and a repeated walk; the same fault may be a picture that cannot be read.
- `Service`. A day of six minutes and hours of three, three windows (one over
  midnight, one that begins with an hour, where a pass and the start coincide). The
  day repeats without end: nothing counts days. A channel of two is filled by a
  cron job and one blocked call.
- `Requests`. Three callers: main's Stop, an alert, and a third of any kind;
  contexts end at any step.
- `KindleDisplay`. One late effect per behaviour (`Landed`), which may come at any
  time after its command; but for it the state is finite without a bound. A cache of
  two images and three units lets a large image evict two small ones. One display,
  of 800 by 600: other sizes are a matter of `Layout`, for which there are theorems.
- `Picture`. Displays of five and six pixels with every picture of three lumas,
  so that boxes are cut off at every edge; one of two by 119 with
  stripes, so that the regions of the copy are there, are rounded to a row off their
  percentage, and the percentiles leave pixels out. Sources that are wider, taller,
  too large, and so small that their crop is empty. The curve is an approximation
  within two units of the power 0.92; the theorems hold of every curve that rises.

## Fairness

- `Supervisor`: the loop's goroutine is scheduled, `select` serves both channels
  (Go picks at random among ready cases), timers fire, and a goroutine whose
  context is done or whose hold is over returns. Weak fairness is enough, since
  the bounds make every behaviour finite: a message never taken would stay takeable
  for ever. Nothing is assumed of clients, nor that a healthy worker ends. The
  live run sets `PromptResults`: a cancelled worker's result reaches the loop
  before the stop timer of its cancellation fires (`WorkerStopTimeout`, 5 seconds by
  default, `config.go:29`; the SSH command of a cancelled context is killed at once,
  `ssh.go:163-175`), also when the worker fails as it is cancelled. Safety runs do
  without it.
- `NewsWorker`: a goroutine whose context is done returns, and a pass ends.
- `NewsPass`: calls to Redis return and passes recur (cron). Pushes and cut-short
  passes are bounded, as a pass that always fails shows nothing.
- `Service`: main, cron goroutines and the loop are scheduled, and `trySend` never
  blocks, so that a job ends within its minute. One wait of main after the signal has no
  timeout: `<-grpcDone` (`main.go:284`), where `GracefulStop` waits for the handlers also
  after `Stop`. So a call must return once `Stop` of the server has ended its context,
  which `request` sees to, and only then: of a call with a live context nothing is
  assumed, nor of workers.
- `Requests`: callers and loop are scheduled, and the workers end. No deadline is
  assumed: calls return without one.

## The proofs

TLAPS checks, for every value of the constants the modules' assumptions allow:

**Supervisor** (`SupervisorProofs`). `TypeCorrect`, `Ownership`, `AtMostOnePainter`,
`PaintersAreNamed` (which includes that `done` finds nothing alive), `NoResultIsLost`,
`SwitchedAlone`. The types
are split into the flags and the data (channels, queue, numbers), with a frame lemma
per group of actions. The safety properties are consequences of `OwnershipInv` =
`NewsInv` ∧ `AlertInv` ∧ `PanelInv`, which says for each worker in which of three
places its run is: none, a live goroutine, or exactly one result under way that
bears the current number. That is why a late result of another run cannot be
mistaken, and why no flag stays set. The one conjunct that is not about a single
worker is `temporaryAlertDisplay ∧ newsRunning ⇒ alerts ≠ <<>>`: the branch of
reconcile that ends a temporary display (line 380) does not ask whether news
runs, and stops the display. It may do so only because news and a temporary
display meet only while an alert is still queued, and that branch wants an empty
queue. Without the conjunct `OwnershipInv` is not inductive.

`StatusIsTrue`: what the lifecycle says holds at the select only, so the invariant keeps
two versions, `Truth` there and `HalfTruth` before reconcile, which is what the two
branches that leave the lifecycle alone need of it. The published depth has a stale
moment too: an alert has ended, and reconcile is sure to start the next one or news
(`DepthInv`). `AlertsAreKept` needs `DisplayIsDue`: an alert that waits has a display to
wait for, so that the branch which gives the queue up is never taken with one in it.
`ImplementsFifo` is the refinement of `AlertQueue`, step by step: `OwnershipInv` gives
that the screen shows one alert at most, and `OfferedOnce` that none is accepted twice.

**News worker** (`NewsWorkerProofs`). `WorkerTypes`, `NeverTwoPainters`,
`NoUnaskedPass`. The invariant is the types, `WorkerInv` (which goroutines live at which
select) and a count: signals accepted = passes begun + tokens held + signals coalesced
or dropped, as an inequality.

**News queues** (`NewsPassProofs`). `TypeCorrect`, `ListsAreBounded` (`QueueBound`),
`PoisonReachesDeadLetters` (`PoisonIsShelved`), `NothingStoredTwice` (`NoDuplicates`),
`LostByTrimAlone` (`LostOnlyByTrim`) and `NoStoryShownTwice` (`NoRepeats`), for any genres,
spellings, limits and initial lists. What each command does to one list is a lemma on
sequences (`Trimmed`, `RotatedKeeps`, `RemovedKeepsOthers`, `ShelvedTyped`); `OneList`
carries it over to the store, and one lemma per command is used wherever the pass or a
client gives it. Nothing is assumed of the length of the lists in Redis, so `QueueBound`
speaks of steps: what takes something in ends within the limit, and nothing else lengthens a
list. The types are not inductive alone: that a rotation has a story to move needs which
calls have a genre at hand (`PassInv`). A migration loses nothing only because a name that
is migrated is not that of a genre, which `Genres` tests (`store.go:77`) and
`StoreAssumption` states.

That nothing is stored twice is inductive with its reason, `StoredOnce`: a story whose
key was never over has its key while it is stored, and no other spelling holds it. It is
false of a Redis in which a story is without its key from the start, which is why
`StoreInit` counts such a story as one whose key is over. That a pass repeats nothing is
a statement about positions: of the last n items of the list, n being what is left of
the pass, none has been shown (`Ahead`). A push puts a story at the back that has not
been shown, as the push of one that has is refused for its key, and its trim takes from
the front, where the shown ones are, and leaves as many as the limit; a rotation moves an
item from the back to the front and lowers n. `WalkInv` says so while no key is over and
nothing is quarantined, for a pass of no more stories than a list may hold
(`-news-per-genre` 10, `-news-queue-limit` 100): of a list stored under a higher
limit a trim may leave fewer than a longer pass has still to show.

**Service** (`ServiceProofs`). `ServiceTypes`, `WindowFollowed`, `OrderlyShutdown`. The
invariant has the types, the places of main, server and loop that can occur together
(`Places`), that a cron goroutine sends within its minute (`JobsInTime`), the agreement of
commands and window (`Agrees`) and `StopIsLast`. What the queue will make of DesiredOn is
`Leads`, which is carried over a send, a receive and a rest by three lemmas (`AppendLeads`,
`TailLeads`, `SameLeads`); that the window changes at its boundaries only, also over
midnight, is `OnlyBoundariesSwitch`.

**Requests** (`RequestsProofs`). `RequestTypes`, `CallersAreToldTheTruth`,
`LoopNeverWaits`, `OkMeansDone`, and `GoneCallersAreDropped`, a command whose caller
has returned has no effect. The invariant says of a
command that it is in the channel or at hand once at most, unanswered and without
effect while it is, and of its caller that it waits, or has its context done, or
left because the loop has ended.

**Display** (`KindleDisplayProofs`). `DeviceTypes` (`TypeOK`), `CacheKeepsItsBooks`
(`CacheBooks`), `FramesAreWhole` (`WholeFrame`) and `LaidOut` (`RegionsFit`), for any
stories, pictures, cache limits, panels and initial states of the device. The invariant
`FrameInv` is `WorkInv` (the script of the operation, what of it is left, and that a
picture is ready or drawn only in between) and `Painted`: how much of what the frame
promises is already true when such a part of the script is left, unless a late effect
has come. Horizontal, blank, lit are won command by command and never lost within the
operation; the layers after the clear are the frame's own, which for the picture needs
that the file holds what was last uploaded when `image` is ready, though anything may
have been in it before. The cache keeps its books because no image is in its order twice
(`CacheInv`): a hit takes out the one place of its key, an eviction takes bytes and
images of the same stretch of the order. That the loop of put ends with room is
arithmetic: with the order empty there is room for any image that was not skipped. The
bytes of an order with an image put at its end, taken out or cut off follow from lemmas
on running sums.

**Layout** (`LayoutProofs`). `StoryOnPanel`, `LabelsOnPanel`, `DashboardOnPanel`,
`ClockOnPanel`: on every display at least 200 pixels high and 1.3 times as wide, the
regions can be drawn, are on the panel and do not overlap; `LaidOut` rests on them.
The bands follow from one lemma on sums of rounded percentages; the columns from the
bounds of the gutter; the clock from a bound of its font by its width.

**Picture** (`PictureProofs`). `PicturesStayReadable` (`Readable`) and
`PicturesStayTrue` (`TrueToPhoto`), for every source and display, whatever the scaler
makes of the photograph, and every curve. The invariant `PictureInv` says what each step
hands to the next. Behind it: `CopyStaysReadable`, a pixel of any luma, after tone and
veil, is as dim as its row demands, on every display of a hundred lines or more;
`CropCovers`; `MeanOfBox`, the four corners of the integral image give the sum over the
box, which is built row by row and within a row pixel by pixel (`BoxSum`,
`StretchOfRow`), also where an edge cuts it; `FewBelow` and `FewAbove`, the histogram is
counted up to its target and not before; `TonesInOrder` and `VeiledInOrder`.

Induction over data is done without the library's theorems, which take an operator as
their parameter: `Induction` of `LayoutProofs` has a set in the place of the predicate
and follows from `LeastNumber`, that a set of numbers with a member has a least one,
which follows from the cardinality of intervals. Recursive functions (`Bytes`, `RowSum`,
`Integral`) and the fold of `BoxMean` are unfolded by showing that a function with their
equation exists (`RunningSums`, `TotalsExist`) and that there is but one (`SameSums`,
`TotalIs`). The modules they are in declare no `RECURSIVE` operator.

Assumptions used are the named `ASSUME`s of the modules: capacities and counts are
natural numbers, a genre's name is no other spelling, windows begin and end at different
minutes of the day, an hour divides the day and the interval an hour
(`config.Validate`), the scaler returns lumas of 8 bits for each pixel of the display,
the curve rises from 0 to 116 (a power of a fraction is monotone, `einkTone`), and the
values that mean "none" are not names. TLC evaluates them in every run.

## Only model-checked

The liveness properties, which rest on fairness and are out of reach of the prover:
`AlertsLeaveQueue`, `StopCompletes`, `WindowIsServed`, `WindowEndsDark`, `CancelEnds`,
`SignalIsServed`, `StoriesAreShown`, `SignalEnds` and `CallsReturn`; and that the
findings are findings. Every safety invariant, every action property and the refinement
that a passing run checks is also a theorem.

## Findings

- `temporary_display` (`WindowKeepsDisplayOn`, `supervisor.go:380`). An alert is
  accepted before the window (alerts outside it are allowed), the window opens while
  it shows, the alert ends: reconcile stops the display as that of a temporary alert
  and returns, with desired-on true. The panel is dark inside the window until the
  next command.
- `dark_panel` (`OffMeansDark`, `supervisor.go:218`). A start that fails after its
  backlight command has left the panel lit with `DisplayRunning` false; the scheduled
  stop then does not call `display.Stop` and reports off.
- `forgotten_genre` (`StoredIsShown`, `store.go:85`). A push between the `LLEN` and
  the `SREM` of `Genres` leaves a story in a list whose genre is forgotten, until
  another story of the genre is pushed.
- `opening_pass` (`EveryPassIsServed`, `scheduler.go:76`). The start of the window and
  the pass of the same minute are two goroutines; if the pass is sent first it is
  ignored, and the window opens without its first pass.

## Observations without a run

Behaviours met while modelling that the models contain and no property forbids:

- A token a cancelled run has not taken stays in `refreshNow`, which the supervisor
  never drains: the next run begins with a pass, although `supervisor.go:441` says
  "No immediate news kick".
- A command that reconciles restarts a failed worker at once and skips the backoff of
  `src/README.md:37`.
- An alert that arrives between the signal and Stop is accepted, and given up by Stop.
- A scheduled start or stop that finds the command channel full is dropped
  (`supervisor.go:186`), and the next one is a day later. After a lost stop the panel stays
  on, against `news-screen/README.md:66-68`.
- Desired-on is computed at boot before a reconcile that may take half a minute, and cron
  starts after it (`main.go:181-192`): a boundary in between is missed for a day, against
  `news-screen/README.md:55-57`. `WindowAgrees` excepts both kinds of boundary, and shows
  that the next one, or a restart, repairs them.
- `request` waits for its reply, its context or `done`, and Go takes any that is ready
  (`supervisor.go:163-171`). A deadline that passes while a command is handled is reported as
  "before acceptance" (`server.go:225-227`) although the alert may have been accepted; a
  client that repeats the call shows it twice.
- A display that finally failed to start, or a temporary one that failed to stop, is left
  to the next command: no timer tries again (`supervisor.go:357-361`). In the window that
  is the next pass of the cron at the latest; an alert waits as long.
- A worker that fails as it is cancelled for an alert takes the path of a failure, which
  arms a retry and does not reconcile (`supervisor.go:281-288`), and the retry is moot
  while an alert waits. The stop timer of the cancellation starts the alert, up to 5
  seconds late; a failure later than that timer would leave the alert to the next
  command, which `PromptResults` excludes from the live run.
- `Next` decodes every item of a call into one variable (`store.go:148,162`): fields of an
  item that does not decode may fill in those the next one lacks. The models tell which
  item is shown, not with which fields.
- `LTRIM` after a rotation drops stories that were shown lately rather than the oldest
  ones; a story a trim dropped keeps its deduplication key for a day, so that pushing it
  again stores nothing; a quarantine in the middle of a walk makes a story repeat.
- With a pass pending, the clock may be painted once only between two passes.
- The genre label is white without background: it cannot be seen when the backdrop
  could not be uploaded or drawn (`genre.go:60-77`), which is why `WholeFrame` asks for
  a picture under white type of stories only.
- `loadGenreBackdrop` remembers a read error as it remembers a file: every pass ends at
  that genre until the service is started again, and genres behind it in the alphabet
  are not shown either. `StoriesAreShown` excepts it.
- A command whose `ssh` was killed at a deadline may still run: it may light a panel
  that Stop has left dark, or draw on the next frame.
- From ten to twelve o'clock the time leaves no room for its period, which is moved to
  the edge of the band and covers the end of the time's box (54 pixels on 1448 by
  1072); `ClockFits` asks for no overlap of one-digit hours only.
- A source that is a pixel wide or high may have an empty crop: its picture is black.
- A Stop that fails after its clear command leaves `Controller.running` true on a blank
  panel; Show sets no light, which is why `WholeFrame` excepts alerts.

## Not modelled

Texts, fonts and readings; the decoder and the scaler of images, of which `Picture`
takes any result; the HTTP client with its retry without query and its
private-address policy, of which a fetch that may fail is left; validation,
authentication and conversion in the gRPC server, which are functions of the request;
the queries of the device; the arguments of `ssh`, and part of a command (a frame's
text is several FBInk calls in one command; `KindleDisplay` has it done or not done).
Where a genre's file is found (`backdrops.go`). Daylight saving: a day has its minutes.
The CLI (`app.go`) is one-shot and shares the packages; its own loop `ShowNews` is the
repeated pass of `NewsPass`, and its clean-up the commands of Stop. Generated code.
The durations of timers are abstracted: a timer may fire at any time after it was set.

## Plan

Written, in this order: `Supervisor` with `AlertQueue`, since everything painted
depends on its loop; `NewsWorker`, the goroutine it relies on; `NewsStore` and
`NewsPass`, where clients and the pass meet; `Service`, boot, window and
shutdown; `Requests`, what callers are told; `ImageCache`, `Layout` and
`KindleDisplay`, the frames; `Picture`, what is behind their type. Theorems for all.

Next:

1. Model: an abstract specification of the panel (one owner, whole frames) that
   `KindleDisplay` implements; the durations of retry (`retryDelay`) as a function
   checked against its definition; the composition of `NewsWorker` with
   `NewsPass`, so that a cancel arrives at every call.
2. Prove: of the liveness properties the safety arguments they rest on, as that
   some step of the worker is always possible after a cancel, or that a number falls
   with every step of a pass; what `KindleDisplay` does to the abstract panel.
