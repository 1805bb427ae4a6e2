# TLA+ models of lightstep-benchmarks

lightstep-benchmarks measures LightStep tracers. A *controller* starts a
*client program*, which generates spans at a given rate with some tracer, and
watches its CPU time and memory. The tracer reports the spans to a group of
*mock satellites*, small HTTP servers that count what they receive. At the end
the controller asks the satellites for their counts and returns a `Result`.

What a benchmark is worth depends on a few things nobody sees when it runs:
that a satellite under load counts every span once, that the counts of one
test do not leak into the next, that the samples of a result belong together,
that a client sends what it is told to and uses the CPU it was calibrated for,
and that a test ends. These are what the modules here are about.

Paths and line numbers are those of the repository.

## 1. The system

| part | code | state | operations | talks to |
|---|---|---|---|---|
| mock satellite process | `benchmark/mock_satellite.py` | `spans_received`, `global_lock`, `MODE`; one thread per request | POST `/api/v2/reports`, GET `/spans_received` | tracers and handlers, by HTTP |
| chunked request reader | `benchmark/utils.py` 78-153 | the body read so far | `do_POST`, `_read_chunk_length`, `_read_delimiter` | base class of the above |
| satellite handler | `benchmark/satellite.py` 17-68 | `_spans_received_baseline`, the process | get, reset, `is_running`, `terminate` | its satellite |
| satellite group | `benchmark/satellite.py` 71-207 | `_satellites`, a list or None | get, reset, `all_running`, start, shutdown | handlers, one after the other |
| controller | `benchmark/controller.py` 295-535 | calibration constants, the (unused) timeout | `benchmark`, `_raw_benchmark`, calibration | group, client process |
| client process and samplers | `benchmark/controller.py` 80-207 | `_program_time`, `_clock_time`, `_cpu_list`, `_memory_list`, `_lock` | `run_test`, `get_results`, two daemon threads | the client, through psutil |
| result | `benchmark/controller.py` 210-292 | counts, times, lists | quotients of its fields | scripts and tests |
| log pipes | `benchmark/utils.py` 12-42 | two pipes and two threads per child | `_log_output` | every child |
| clients in Python, Go, C++ | `clients/python_client.py`, `go_client.go`, `cpp_client.cpp` | `spans_sent`, `sleep_debt`, open spans | `perform_work`, `generate_spans` | a tracer |
| clients in JavaScript | `clients/js_client_v2`, `clients/js_client.js` | chained promises | `generateTraces` | a tracer |
| disconnect graph | `disconnect_graphs.py` | measurements, the loop variables, a Timer per trial | benchmarks while a Timer stops satellites | controller, group |
| other graphs | `cpu_graphs.py`, `dropped_graphs.py`, `memory_graphs.py` | lists of a rate and of all rates; files that are appended to | loops of benchmarks inside two `with` statements | controller, group |
| notebooks | `analysis/*.ipynb` | lists read from those files; an interactive figure | `read_file`, differences, plots; the figure program saved with the output | files, the kernel |
| regression tests | `regression_tests.py` | | single benchmarks | controller, group |
| vendored Go code | `clients/vendor` | | | third-party, left aside |

What is hard here:

* *Threads.* A satellite has a thread per request and shares one counter. A
  run of a client has three threads that share one lock, with some reads
  outside it. The disconnect graph has a Timer that stops satellites under a
  running test.
* *Ordering.* Satellites are asked in sequence while reports keep arriving;
  get and reset are separate requests; reports of an earlier client may be late.
* *Failure.* Satellites die or are stopped and started; the answer to a report
  that was counted may be lost, so that it is sent again; a call may fail
  between two satellites; a client may die at any moment.
* *Byte streams.* A body may be cut anywhere, and may look like its framing. A
  pipe that nobody reads stops its writer.
* *Long runs.* A graph takes hours and may be aborted at any benchmark; its
  files are appended to, run after run, and read by counting lines.
* *Time.* A second of grace is all that reports get; a timeout is set that
  nothing reads; a client's debt of sleep is paid in instalments.

What makes each part correct:

* satellite: a report is counted whole, once, or refused and not counted; an
  answer to a GET agrees with all answers given before it; every request ends.
* bookkeeping: every counted span goes to at most one result and, except for
  spans that were late, to the right one; no result misses a span that was
  counted when it was asked for; counts never become negative; a call ends.
* sampling: the values of a result belong together and are as recent as
  promised; no thread hangs or outlives its run.
* reader: `POST` gets the body that was sent, or is not called; a handler ends.
* logs: all that the client writes is logged, and logging never stops it.
* client: the number of spans asked for, well-nested traces, all sleep slept or
  owed and never far behind, nothing left in the tracer.
* graphs: a point is the mean of one rate's trials, a difference is one of two
  benchmarks of the same trial, a figure has all its rates.
* figure in a notebook: it ends up showing the figure in the kernel, and so does
  the picture that is saved; closing reaches the other side.

The hazards of the code, each with its line and the properties that cover it,
are listed in `PROJECT.json`.

## 2. Modules

| module | models | in place of an abstract specification, or refines |
|---|---|---|
| `MockSatellite` | the threads of one satellite | implements `SpanCounter` |
| `RequestReader` | `ChunkedRequestHandler`: how a satellite reads a body | |
| `ClientProcess` | `run_test`, `get_results` and the two samplers | |
| `LoggedClient` | the same with the client's pipes and the threads that log them | implements `ClientProcess` |
| `Benchmark` | `Controller.benchmark`, the group and its handlers, with client, tracer and network as environment | implements `SpanLedger` |
| `SpanClient` | `perform_work` and `generate_spans` in three languages | |
| `TracedClient` | the same with the tracer that `build_tracer` returns, and its flush | composes `SpanClient` with a library |
| `JsClient` | `generateTraces` and `generateSpan` of the JavaScript client | |
| `SatelliteGroup` | the constructor, `start` and `shutdown` of the group as steps of threads, over processes with ports; used by the next | |
| `DisconnectGraph` | `disconnect_graphs.py`: its main thread and its Timers | composes with `SatelliteGroup` |
| `GraphScripts` | the three other graph scripts, run after run, and the reader in the CPU notebook | |
| `NotebookFigure` | the interactive figure of the notebooks | |

The modules fit together by what each takes from another. `Benchmark` counts a
span in one step because `MockSatellite` implements the atomic `SpanCounter`.
Its `RunTest` and `NoSample` are the two ways in which `ClientProcess` shows
`run_test` to end, and its fairness for `ClientExit` says that the client's loop is
finite (a client may also end early, or be killed). `DisconnectGraph` takes a benchmark
as one call, which returns or, when its client died before the first sample, raises
(`ClientProcess!HasProgram`). That it does either is assumed there: it is
`Benchmark!BenchmarkEnds` if the client ends and no satellite that is alive leaves
a question unanswered. `GraphScripts` takes it the same way, and a group as something
that is there or not; which of its processes live is `SatelliteGroup`'s. `RequestReader` says
what the report of a `POST` thread of `MockSatellite` is made of, and where that
thread may hang before `MockSatellite` begins.

Proofs are in modules of their own, named after the component (`LoggedClientProofs`
has those about `ClientProcess` too), but for two: those about `RequestReader` are
in `MockSatelliteProofs`, as it is the base class of the satellite's handler, and
those about `NotebookFigure` in `GraphScriptsProofs`. The two modules name their
specifications `ReaderSpec` and `FigureSpec` for that. `SumTheorems` has what all
need to know about sums over finite sets and folds over sequences.

A definition named "Fault" in a comment is not part of any specification: it is
a wrong version of the definition after it, kept to show that the
properties notice. `PROJECT.json` says which property notices which.

### MockSatellite

`POST` threads parse (`BadReport`, `SlowFail`, `Process`), take the lock
(`Acquire`), run `spans_received += n` as two steps (`Load`, `Store`), give the
lock back (`Release`) and answer (`Respond`). A `GET` thread reads the counter
without the lock (`ReadCounter`). `Respond` may find that the peer has gone
(`reply = "lost"`), and `Terminate` is SIGTERM between any two steps. Reports
are reduced to their number of spans. `MODE` is chosen in `Init`, so that every
mode is covered by every run and every proof; the delays of the modes are
arbitrary, as every step is.

`code[p]` becomes 200 with the store, since nothing but that answer can follow
it in the code; the refinement to `SpanCounter` needs the moment at which a
report is counted. `floor` is history: what the sender of a GET could know.

### ClientProcess

The main thread polls (`MainPoll`), then evaluates the properties in the order
of `get_results` 203-207; `HasProgram` and `HasClock` are the unlocked
`hasattr`, the `Read...` steps the four holds of the lock. `RtStep` is
`_save_runtime_stats`, `ListStep` is `_save_list_stats`, with one step for each
poll, read, acquire, store and release. A child is `running`, then a `zombie`
until any of three threads polls it, then `reaped`; psutil may or may not read
a zombie and cannot read a reaped child. Samples are numbers: the n-th pair is
written as n and n, so that a torn pair shows as two different numbers, and a
list is its length.

### RequestReader

A connection is the bytes that are sent (`wire`), of which `arrived` have
arrived and `pos` are read; `ArriveByte` and `Cut` are the peer's. `do_POST` picks a
kind of body (`ReadHeaders`), reads a fixed one in one `read` (`ReadFixed`), or
goes round `_read_chunk_length` byte by byte (`ReadLengthByte`), the chunk
(`ReadChunk`) and its line end (`ReadDelimiter`). A `read(n)` waits for n bytes
or the end of the connection and then returns what there is (`Available`,
`Got`). The loop that reads nothing at the end of a connection changes no
variable and so is no action: the model is then stuck where the code spins.

`Bytes` may be any set; those that matter to the framing are CR, LF, digits and
the semicolon that an extension begins with. Lengths are below 4, so that `int(..., 16)` reads the same as a single digit;
leading zeros make a line longer than `max_bytes`, which is 4 here and 16 in the
code.

### LoggedClient

`LoggedClient` extends `ClientProcess` with two pipes. A stream is its sequence
of lines; `sent`, `read` and `logged` count them. `Write` waits when the pipe is
full; `_log_output` reads a line and logs it, dies of one that is not ASCII, and
ends when the pipe is empty and the child gone. The client exits of itself when
it has written everything (`Finish`), and may die at any time (`ChildExit`).
Everything in `ClientProcess` goes on as before, which is a theorem.

### Benchmark

`pc` walks through `benchmark`: `reset` (496-499), `start` and `run`
(`_raw_benchmark`), `check` and `get` (513), `final_reset` (514). A reset or a
get takes one step per satellite, so that everything else may happen between
two satellites. `AskFails`, `NoSample` and `CheckFails` are the ways a call
raises: a satellite, dead or alive, may refuse the connection or break it off, and
one that is alive may answer with another status or no integer
(`satellite.py` 47-56). The state a call leaves behind is kept for the next, also
when the reset failed after the first satellite and all are alive. `Hang` is a
satellite that is alive and never answers: `requests.get` has no timeout, and only
the end of that process lets the call go on. `Shutdown` and
`Start` are the group's, called between two benchmarks; `Crash` is a satellite
that dies. Spans travel one by one (`flight`, and `stray` once their test is
over); a report of n spans is n of those steps, in any order with others, which
allows more behaviours than whole reports do.

The arguments of `benchmark` other than `satellites` take no part, and a rate
of zero, which raises before anything has happened, is left out. `Start`
includes the check of the processes at the end of `__init__`: a process that
does not survive the first second is a `Start` followed by a `Crash`, and the
group is in place although the constructor raised, as in the code.

History variables say what the properties need: `own` (spans of this test that
a satellite has counted), `owed` (their sum when asked), `strayed` (spans on
their way when this test reset), `quiet`, `credit` and `mark` (for the ledger).

### SpanClient

`PerformWork` is the loop, `GenerateSpans` the recursive function as a stack of
open spans. The three languages differ in two places and the model names them:
where the recursive call hangs its spans (`ParentOfNext`: below the server
span, in C++ below the db span), and when the db span ends (`Recurse`: in Python
before the recursive call). They also differ in when they flush (`Exit`). Times
are integers; `sleep` may be negative, which calibration yields for a client
that cannot use the CPU it is to use.

### TracedClient

The tracer is a library and external. It has a buffer of `MAX_BUFFERED_SPANS`
into which finished spans go (`RecordSpan`), drops what does not fit, and
reports at its own time (`Report`) to the one satellite or the set of satellites
that `build_tracer` was given. `FlushAndExit` is the end of `perform_work`: with
a flush everything buffered is reported, without one it may be.

### JsClient

Everything happens in one thread, in the order in which promises are fulfilled.
`microtasks` is the queue of reactions that are due; each is named for the
`then` it runs. `.then(() => generateSpan(...))` returns a promise, which takes
two more reactions (`Adopt`, `Settle`) before the outer `then` is fulfilled, as
the language prescribes. `doWork` resolves its promise before it returns it, so
that no timer comes between the reactions (`NextTimer` needs an empty queue).
`generateTraces` throws for a repeat below one, before it starts a span.

### SatelliteGroup and DisconnectGraph

`Benchmark` has one thread, for which `start` and `shutdown` are steps.
`SatelliteGroup` breaks them up for several threads: a thread that is in a
method has a frame that says at which step it is, on which group, list of
handlers and port. `shutdown` looks at `_satellites` twice (`Shutdown` 198,
`Each` 204) and then goes through the list it found; `terminate` is a signal
(`Terminate`) and a wait (`Wait`); `_satellites` is cleared after the last
(`Clear`). `__init__` starts the processes (`Spawn`) before it has the list
(`Assign`), and `all_running` looks twice again (`Check`, `Poll`). A process
binds its port or finds it taken (`Bind`) and may live on for a while after
SIGTERM (`Exit`). Finding None where a list is needed is a `TypeError`
(`raised`).

`DisconnectGraph` calls it from the main thread (`Construct`, `After`) and from a
Timer per trial (`First`, `Second`, `Restart`, in the order of
`satellite_action`). `action` and `bound` are the two loop variables that the
Timer's closure shares with the main thread: `bound` is assigned only when the
constructor has returned. A plan is a sequence of trials and says whether
benchmarks last: if they do, a benchmark returns after the Timer of its trial
has ended (180 seconds against 120 and the time a start takes); otherwise at
any time.

### GraphScripts

The three scripts are one loop with different bodies: `cpu_graphs.py` has
trials of a traced and an untraced benchmark and saves the two lists after each
rate, `dropped_graphs.py` has one benchmark a rate and saves at the end,
`memory_graphs.py` one benchmark a rate and a file for each. A value is the
`Row` it comes from: the run, the rate and the trial or second. A mean is the
sequence of rows it is computed from, so that averaging the wrong rows shows.
The constructor of the group (`EnterGroup`), calibration (`EnterController`),
every benchmark (`BenchmarkRaises`), every save (`SaveRaises`), the drawing
(`DrawRaises`) and the missing `--trials` (`RangeNone`) may raise, as may an
interrupt anywhere; `Leave` is the end of the `with` statements either way. A save
that raises has written any number of the rows, perhaps all; a row itself is not
torn. `cpu_graphs.py` saves its two lists one after the other (75-83): a failure
between them, or within the first or the second, leaves files that pair no longer, and
every later run appends to both. `failed` is history and says which runs failed
to save. Files survive runs; `ReadLine` is the loop in the notebook's `read_file`,
folded over them. The notebook itself reads copies of the files in
`cpu_comparison/`, which were made by hand, and are taken to be current.

### NotebookFigure

A saved notebook holds in its output the program that made its figure
interactive: matplotlib's front end, at the version that was used. It is not
this repository's own code, but it is in its files and the module models it as
it is there. The kernel's side is not, and `Answer` is what the front end relies
on: that a `draw` is answered with an image, as a difference to the last one
sent or in full, that an `image_mode` precedes the first image of another mode,
and that a `refresh` makes the next image a full one.

Each handler is one step. The second definitions of `updated_canvas_event`,
`_init_toolbar` and `handle_save`, which come later and replace the first, are
the ones modelled. Sizes and pixel ratios are positive whole numbers.
`handle_resize` compares the new size with the width of the canvas in pixels, which
is its size times the ratio (340, 212-213): with a ratio of 2, a resize from 300 to
600 is ignored, and one to the size the canvas has already is carried out. A `Timer`
copies the canvas a second after an image has come, be it loaded or not and be the
figure open, closed or removed. A picture is the version of the figure it shows; drawing an
image over anything but what it was made for gives `Mixed`. `Onload` looks up
`image_mode` when the image has been loaded, as the code does (82), which is why
`UpdatesShown` makes an exception: an image that loads after the next message
may be drawn in the wrong mode, or not at all if another has taken its place
(426, 433). Without the exception the property is violated. The last full image
repairs the canvas; a figure whose last image is a difference may stay wrong
until it is resized. `OutputSaved` excepts a copy that was taken before the last
image was loaded (`overtaken`), which nothing repeats, and a closed figure that was
cleared for a new size whose image it never got.

## 3. Runs

| run | instance | distinct states | checks |
|---|---|---|---|
| `mock_satellite` | 2 reports of 1 and 2 spans, 2 questions, 3 modes | 143,928 | `LockProtects`, `AnswersAgree`, `ImplementsCounter`, `EveryRequestEnds` |
| `request_reader` | bodies of up to 3 bytes in every split, lengths of 1 to 3 digits, an extension | 246,762 | `BodyWhole`, `ReaderEnds` |
| `logged_client` | up to 2 samples per thread, 3 outputs, pipes of one line | 340,218 | `NoHalfSample`, `ResultCoherent`, `NothingMuchMissed`, `LogComplete`, `SamplersEnd`, `LoggedRunEnds` |
| `benchmark` | 2 satellites, 2 benchmarks of 2 spans, 1 repeated span each | 1,090,257 | `NeverNegative`, `NothingMissed`, `NothingForeign`, `QuietIsExact`, `ImplementsLedger`, `BenchmarkEnds` |
| `traced_client` | 320 command lines a language, up to 13 spans in groups of 6, a buffer of 4, 2 satellites | 232,020 | `DebtConserved`, `DebtBounded`, `WellNested`, `GeneratesRepeat`, `FlushDelivers` |
| `js_client` | 0 to 4 traces of 6 spans | 460 | `ChildrenFirst`, `ReportsWhole` |
| `disconnect_graph` | 5 trials with 2 satellites if benchmarks last, 2 trials (a reconnect and another one) if they may not | 58,285 | `NoPortConflict`, `NoOrphans`, `TrialAsLabelled`, `GraphEnds`, `TimersEnd` |
| `graph_scripts` | 3 runs of any scripts, 2 rates, 1 or 2 trials or none given | 414,309 | `RatesNotMixed`, `DifferencePairs`, `FiguresWhole`, `FilesWhole`, `ScriptEnds` |
| `notebook_figure` | 3 versions, sizes of 300 and 600, ratios of 1 and 2, 2 events of the user | 2,503,117 | `UpdatesShown`, `OutputSaved`, `KernelTold` |
| `client_timeout` | 3 samples, the client need not end | | `TimeoutStopsTest` is violated |
| `js_repeat` | as `js_client` | | `RepeatSpans` is violated |
| `stale_timer` | as `disconnect_graph` | | `ShutdownInTest` is violated |

The last three are disagreements between the code and what its documentation or
comments say. `TimeoutStopsTest`: the limit of `runtime * 2` seconds that `benchmark`
documents is stored and never read. `RepeatSpans`: the JavaScript client makes six
spans for each of `repeat`, so that satellites receive six times the `spans_sent` of
its results and `dropped_spans` is negative; `docs/adding_tracers.md` 10 asks clients
for `c['Repeat']` spans. `ShutdownInTest`: a Timer outlives a benchmark that ended
early and shuts down the satellites of a later trial, against the comment at
`disconnect_graphs.py` 79.

What the runs show besides, as conditions in the properties:

* `BodyWhole`: a fixed body that is cut off is handed to `POST` as if whole
  (`utils.py` 89), and a chunk length with an extension, or too wide, is taken for
  the end of the body (149-153). A `POST` may fail to parse what it gets, or not.
* `ReaderEnds`: if the connection ends in, or in front of, the line of a chunk
  length, the handler's thread reads nothing for ever (141-145).
* `LoggedRunEnds`: a client that writes a line which is not ASCII and then more
  than a pipe holds blocks, and `run_test` with it (38-42).
* `DebtBounded`: if a group of spans owes more than one `sleep_interval`, the debt
  grows with every group (`python_client.py` 132-135), and the client uses more
  CPU than calibrated. With the pause of 0.1 seconds (`controller.py` 28) this
  begins below 18 spans per second for a target of 70% CPU; `docs/api.md` 83
  promises the target no matter the parameters.
* `RatesNotMixed`: the notebook never shows the last rate in a file, and its
  points are means over several rates if `--trials` was not its `TRIALS`.
* `BenchmarkEnds`: a satellite that is alive and does not answer hangs `benchmark`
  for ever (`satellite.py` 47).
* `DifferencePairs`: a run of `cpu_graphs.py` that fails between its two saves, or
  within one, shifts what later runs append to the two files, so that the differences
  of the notebook are those of unrelated trials from then on.
* `ScriptEnds`: satellites that a failed constructor leaves behind are not shut down
  and stay `orphaned` (`satellite.py` 99).
* `ReportsWhole`: the JavaScript client's tracer must hold all spans of a test, as the
  reporting timer gets no turn before the last.
* `UpdatesShown` and `OutputSaved`: see NotebookFigure above.

Seen on the way and not the subject of a run: a client that exits before its first
sample makes `benchmark` raise an `AttributeError` (`controller.py` 136-139; `HasProgram`
and `NoSample`), of which its docstring says nothing; `spans_sent` is what was asked
for, however the client ended (533), against the docstring of `Result` (216-217); reset of a group that is shut down
only warns and benchmark goes on (`satellite.py` 162, against the comment in
`controller.py` 496-497); the deviation of a difference uses the traced one twice (`cpu_graphs.py` 140,
and the notebook 848 and 854); `TRIALS` and `RUNTIME` of `cpu_graphs.py` are not
used, and without `--trials` the script raises after it has calibrated;
`memory_graphs.py` starts satellites and does not hand them to `benchmark`.

### Bounds, and why they are enough

* Two reports make every conflict on the counter and the lock, with different
  sizes so that any lost or doubled report shows in the sum. Two questions are
  needed for one to be answered before the other is asked. The theorems about
  `MockSatellite` have no bound.
* Two samples give a first one and one that can be torn against it; three in the
  runs without pipes. The numbers only grow, so that more samples repeat them.
  Proved without a bound. Pipes of one line are full at once; the three outputs
  have more lines than fit, a bad line with room for the rest, and a bad line
  with none, so that the client blocks.
* Bodies of three bytes over CR, LF and a digit contain every piece of framing,
  also across two chunks, and every prefix of the connection is cut off. Proved
  for any bytes, bodies, numbers of chunks, widths, extensions and `max_bytes`.
* Two satellites are what it takes for something to happen between two of
  them; two calls, for one to leave something to the next; two spans, for one
  on time and one late. One repeated span makes a counter exceed what was
  generated. `MaxTests` and `MaxResent` are guards of `Benchmark` and
  `Resend`. Proved without them.
* Up to thirteen spans are two groups and a rest; 0, 1, 3, 4, 6, 7 and 13 are
  the boundaries of a group and of the three nested spans. A buffer of four
  overflows within a group, or not, by when the tracer reports. Proved for any
  command line, group, buffer and set of satellites.
* Four traces mix their reactions in every way one can be before another; the
  interleaving is the same for each pair. The depth is the client's own. Proved
  for any number and any depth.
* Three runs of scripts are an aborted one, a complete one and one after it in
  any order, and two rates are one that has a successor and the last. `MaxRuns`
  guards `RunScript`. With two trials a rate can be aborted in its middle.
  Proved for any numbers of runs, rates and trials.
* Sizes of 300 and 600 with ratios of 1 and 2 have the resize that is ignored, the
  one that is repeated and all ordinary ones.
  Three versions of a figure make two changes, so that the second is announced
  while the image of the first is asked for, sent or being loaded. Two events of
  the user make a drag, which is a start and a step, or an event before a close.
  `MaxVersion` and `MaxEvents` guard `Change` and the user's steps. Proved for
  any numbers of them, and any sizes.
* The five trials are the four of the graph and the first of its second round,
  so that every trial that has a successor has it. Two trials are enough for a Timer to
  act on the group of another trial while that one's Timer is at work too. Two
  satellites, so that one is down and the other is not yet. `MaxLists` guards
  `Spawn` and is never reached: five constructors and one restart in the one
  plan, at most three in the others. Proved for any plan and numbers.

`CHECK_DEADLOCK FALSE` is in every configuration since each of these systems
stops: the requests are handled, the run is over, the calls are used up, the
client has exited. The liveness properties, for those that have threads to wait for,
say that they stop where they should.

### Fairness

* `MockSatellite`: weak fairness for each thread that handles a request. The
  interpreter schedules all its threads; a thread waiting for the lock gets it
  since every request takes it once, so that finitely many are ahead of it. No
  request need arrive and SIGTERM need not come.
* `ClientProcess`: weak fairness for each of the three threads and for the
  passage of time; `client_timeout` assumes nothing of the client.
* `LoggedClient`: the same for the threads, and for the two log threads. The
  client goes on as long as it can (`ClientStep`): its loop is finite
  (`python_client.py` 126-135), but it may be blocked in a write.
* `RequestReader`: weak fairness for the handler only. Bytes need not arrive and
  the connection need not end, as the server has no timeout.
* `Benchmark`: weak fairness for the controller's thread and for the end of the
  client. Nothing is assumed of satellites, network or caller: what asks a satellite
  may succeed, raise or hang at any time (`Hang`), and fairness does not say which.
* `TracedClient` and `JsClient`: none, as nothing is claimed to happen.
* `GraphScripts`: weak fairness for the script that runs, whose benchmarks are
  taken to return or raise (they are called with satellites that may hang them, see
  `BenchmarkEnds`). Nobody need run another.
* `NotebookFigure`: weak fairness for the kernel, the browser's messages, the
  loading of an image and the timers. The user need do nothing.
* `DisconnectGraph`: weak fairness for the main thread, each Timer and its going
  off, and the processes taken together (they bind or exit once each). A
  benchmark is taken to return or raise; it is called without the group, so that
  nothing asks the satellites (`disconnect_graphs.py` 83-87).

## 4. Proofs

All are for arbitrary values of the constants and checked by TLAPS. Every safety
property that a passing run checks is proved; what is not is liveness.

`SumTheorems`. The models add up numbers per satellite, handler and report with
`MapThenSumSet`, which is defined by recursion over the set. Its facts are proved
without an induction rule: of the subsets for which a statement fails there would
be a smallest one, which cannot be. With the recursion unrolled once (`SumRemove`)
the rest follows: sums of equal, of changed and of smaller functions, and over
larger sets (`SumAgree`, `SumChange`, `SumBelow`, `SumMonotone`). A fold over a
sequence recurs over the set of its positions, from which it takes the last; that
there is a function to unroll, for any base and step, is `FoldExists`, and each
fold of the models is then a sequence of values of which one follows from the one
before.

`MockSatelliteProofs`, from `SatelliteAssumption` (sizes are natural numbers,
reports and questions are different, `NoThread` is neither):

* `TypeCorrect`, by induction over the actions.
* `LockCorrect`. `LockProtects` is inductive given `TypeOK`: a thread is in the
  critical section just if it holds the lock, so that two cannot be, and what a
  thread has loaded stays the counter's value until it stores.
* `Refinement`, that `Spec` implies `SpanCounter!Spec`. It needs besides that a
  thread that has not yet stored or been refused has decided nothing
  (`Undecided`). `Store` is then `Accept`, for `loaded[p]` is the counter by
  `LockProtects`; the refusals are `Refuse`, `ReadCounter` is `Read`, and all
  other steps stutter.
* `AnswersTrue`. The counter is the sum of the reports counted, of which only
  finitely many have arrived, though `Posts` may be infinite; the counter never
  passes what was posted nor falls behind what a question knew (`AnswersInv`).

In the same module, from `ReaderAssumption` (what the framing is made of are bytes,
and an extension begins with a semicolon), is `BodyIsWhole`, that `POST` gets the
body that was sent but in the two cases that `BodyWhole` names.

* The bytes of a report in chunks are a fold over their lengths. `WireIs` says what
  comes of it: there are places `p` and `f` in the bytes and in the body such that
  frame k stands between `p[k - 1]` and `p[k]`, its line first, then the body from
  `f[k - 1]` to `f[k]`, then CR LF (`Layout`). A smallest frame that is not where it
  should be, or that is moved by a later one, cannot be (`FrameStays`).
* `ReaderInv` says where in this layout the reader is: `buf` is the beginning of the
  line of some frame (`InLine`), or the line (`BehindLine`) or the piece
  (`BehindPiece`) of a frame is behind it, and `binary_body` is the body up to
  there; unless the connection ended within a piece, in which case what follows can
  only raise. `BodyWhole` alone says nothing while a body is being read.
* `LineEnds` is why bytes that look like framing do no harm. In a line without an
  extension, CR LF is at its end only, and the number in front of it is the length of
  the chunk (`ValueIs`), zero for the last one alone. In a line with one, CR LF may
  come early, but never before the semicolon, so that there is no number
  (`NoValue`).

`LoggedClientProofs`, from `PipeAssumption` and `MaxSamplesAssumption`. About
`ClientProcess`: `TypeCorrect`, `HalfSampleNeverSeen`, `ResultsCohere`,
`ResultsFinal`. The inductive invariant relates the program counters to the
samples: who holds the lock is in its critical section; outside it the numbers of
a pair, or of the lists, agree; once the main thread has left its poll the child
is reaped, so that a sampler has at most the sample left that it was taking.
About the pipes: `RunImplemented`, that `LoggedSpec` implies `ClientProcess!Spec`,
since every step is one of the run with the pipes unchanged or one of the pipes
with the run unchanged; `LoggedResultsRight`, that the three above hold therefore for
runs with logs; and
`LogsComplete`: what is read is sent, and all that is read is logged but for the
line a dead reader died of; an ended reader saw the pipe empty and the child
gone, after which nothing is sent.

`BenchmarkProofs`, from `BenchmarkAssumption`: `TypeCorrect`,
`BaselineNeverPasses`, `ResultsMissNothing`, `LedgerImplemented`,
`ResultsHaveNothingForeign`, `QuietResultsAreExact`.

* The invariant bounds, for every satellite, `baseline` and `mark` by the counter,
  and `own` by what has been counted since the baseline was last moved in the
  reset that precedes the client; `owed` by `got` follows satellite by satellite.
  For the ledger, a get credits what is between `Settled` and the counter, because
  no mark passes the baseline at that time; a reset discards, and everything else
  counts or stutters.
* Two sums over the satellites bound a result from above. What an open satellite
  has beyond the spans of this test, or may still get of earlier ones, was astray
  at the reset (`LateBound`). A span generated or sent again is at one place at
  most: owed, held by a satellite, on its way or in the tracer (`OwedBound`). Both
  are needed: neither the result nor its parts are inductive by themselves.
* `quiet` is chosen when the satellites are about to be asked, and nothing comes
  after it: the client has ended and left nothing in its tracer
  (`ClientWaitedFor`), so that what a reset leaves at zero stays so (`StaysQuiet`).

`SpanClientProofs`, from `ClientAssumption` and `TracerAssumption` (the set of
satellites is finite; the code lists eight ports, `python_client.py` 18): `TypeCorrect`,
`SleepAccounted`, `SleepKeepsUp`, `AllGenerated`, `SpansNest`, `FlushSendsAll`, and
`TracedClientRight`, by which the first of them hold of the client with its tracer.
The invariant says that the group fits what is left (`GroupFits`), that each of
its spans is to be started, open or finished (`SpansCounted`), and that the debt
is at most one sleep, and two before it is paid (`DebtStep`). `Nested` adds where
the next span will hang: below an open one, or it is the first of its group;
`WellNested` alone is not inductive. `Accounted` says that a finished span is in
the buffer, dropped or at one of the satellites. The products of sleep and spans
are in lemmas of their own.

`JsClientProofs`, from `JsClientAssumption`: `ChildrenFinishFirst` and
`ReportsAreWhole`. The first invariant says of every reaction that is due, and of
every span that waits, what must have happened to the child: a `settle` or a
`finish` of a span that is no leaf is due only if the child is fulfilled, which is
when it is finished. The second one (`Underway`) says the converse, that nothing
is forgotten: a span that is started is finished, or a reaction of it is due, or
it waits for its child. When no reaction is due, a span that is not finished would
have one below it that is not, and the deepest such span is a leaf.

`GraphScriptsProofs`, from `GraphScriptsAssumption`: `PairsRight`,
`FiguresAreWhole`, `FilesAreWhole`, `RatesStayApart`.

* While trials are running, the two lists have the same rows but for the last
  traced one, and when the trials of a rate are over they are equal. As long as no
  run failed to save, the files are equal except between the two saves, when they
  differ by just these lists; after that, the traced file has at each place, up to
  the rows of the first such run, what the untraced one has, and what is added behind
  them does not change that. No untraced row is without its traced one even then, since
  a traced list is saved whole before the untraced one is begun.
* `Drawn` says for each script, at each place of its loops, which rows its lists
  hold: those of the rates and trials done, once each and in order. A figure is
  drawn where all are done, and a file is appended to where a rate, or a run, is.
* `RatesKept` says that the traced file is a sequence of whole rates, no two the
  same, if all runs had the notebook's number of trials. `read_file` is a fold over
  its lines; it is unrolled into a sequence of states (`LinesRead`), of which the
  n-th is known by the smallest-counterexample argument again (`ReadsParts`): the
  whole lists so far, and the rest.

In the same module, from `FigureAssumption`, are `UpdatesAreShown` and
`OutputIsSaved`. Both say something only of a figure at rest, with nothing under way
in either direction; neither is inductive. `FigureInv` says, while the figure is
open in the kernel, what every message under way and every timer will still bring:

* One draw at a time is asked for or answered, and as long the browser waits
  (`OneDraw`), so that images come in the order of their versions.
* The last image is of the figure as it is, or one to come is, or a draw will be
  asked for (`ImageComes`); the same for the size of the canvas, which may also be
  left where the ratio times it is the figure's (`SizeComes`), and for the mode: what the browser takes images for is told in order (`ModeTold`).
* The canvas shows the last image once it has loaded, if none was late and each was
  drawn over what it was made for (`CanvasDrawn`). Clearing the canvas, when it is
  resized, breaks that; a full image is then to come, which heals it (`CanvasHeals`, of a canvas that has the figure's
  size).
* The output of an open figure is the picture of the canvas, or a timer is set, or an
  image is to come that sets one, or the last copy overtook an image (`OutputComes`).

Of a figure that may be closed or removed, `OutputKept` is the invariant: as long as an
image is loading a timer is set or its copy has overtaken it, and the output is the
picture of the canvas, or will be, unless the canvas is cleared.

`DisconnectGraphProofs`, from `GroupAssumption` and `GraphAssumption`:
`TypeCorrect` for all plans, and for those whose benchmarks last `PortsAreFree`,
`NobodyIsOrphaned` and `TrialsAreAsLabelled`. The three are one argument. `Turns`
says that the Timers of earlier trials have ended, later ones are not set, and
this one's works only while its benchmark runs; hence one thread at most is in a
method (`Alone`), and it uses the group of its own trial. For that thread
`ShutdownAt` and `StartAt` say, step by step and port by port, what has become of
the processes, and between methods the group stands or is gone (`Satellites`). In
every case one list at most has processes, of which somebody knows (`OneList`). A
port is then free when a process binds it, no constructor raises, and nothing is
left behind. None of this holds without the premise, as the plans that are not
punctual show.

Only model-checked is all liveness, since neither fairness nor `ENABLED` is in the
prover's reach: `EveryRequestEnds`, `ReaderEnds`, `SamplersEnd`, `LoggedRunEnds`,
`BenchmarkEnds`, `GraphEnds`, `TimersEnd`, `ScriptEnds` and `KernelTold`. The three
violations are TLC's counterexamples.

## 5. Not modelled, and what could come next

* Calibration: its trials are sequential and without failure paths of their own;
  what matters in it is arithmetic on measured floating-point numbers. That it
  may raise is in `GraphScripts` (`EnterController`).
* What is measured (CPU, memory, time), the rates in a result, labels and colours
  of plots, log texts.
* The memory notebook, whose cells plot one file per client and trial as it is,
  and whose outputs hold two more copies of the program in `NotebookFigure`.
* The files and plots of the disconnect graph. A trial's file is appended to and
  has no mark between runs, so that the memory notebook would draw the samples of
  two runs as one curve.
* The JavaScript client of version 1, whose work function is never called; the
  regression tests, which are single benchmarks with assertions on measured
  numbers; the installation scripts.
* Third-party code: tracers (the environment of `Benchmark`, the library of
  `TracedClient`), psutil, matplotlib's kernel side, the vendored Go libraries.

Next would be calibration and the deviations in the graphs, for which the models
need numbers rather than the rows they are computed from.
