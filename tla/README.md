# A verification of croniter-rs

TLA+ modules for the scheduler in this repository (`src/`), the TLC
configurations that check them, and theorems about them checked by TLAPS.
Everything is translated from the Rust code; where the documents and the code
differ, the code is modelled and the difference is recorded as a finding.

## The system

croniter-rs is a library. It parses a cron expression, and walks from an
instant to the next or the previous instant the expression names, in naive
local time or in a time zone. A conformance server (`src/src/bin/conformance.rs`) wraps it behind
a line protocol, and a Python package (`src/tools/bridge/croniter`) drives the
server so that croniter's own test suite runs against the Rust code. The library
is sequential; what is hard in it is not concurrency but long chains of legal
steps over an irregular calendar. The bridge is where processes and threads meet.

| component | source | state | operations | talks to |
|---|---|---|---|---|
| calendar | `expr.rs`, chrono | none | leap years, month lengths, checked addition | used by everything |
| expression representation | `expr.rs` | the expanded fields, `nth_weekday_of_month`, `nearest_weekday` | read only | made by the parser, read by the search |
| parser | `expand.rs` | none between calls | `expand`, one pass per field; `get_low_from_current_date_number` | makes an `Expanded` |
| strict checks | `expand.rs` | none | `check_strict` | called by the parser's callers |
| hash expressions | `expand.rs` | none | `hash_expand` | called by the parser |
| date search | `calc.rs`, `calc` | the cursor `unaware_time`, `year` | one jump per field | called twice by the union |
| union | `calc.rs`, `calc_next` | the two answers | two searches, a choice | called by the time zone tail |
| time zone tail | `tz.rs`, `lib.rs` `calc_with_tz` | the candidate, `guard` | localise, retry in a gap, try the other offset | calls `calc_next` repeatedly |
| croniter object | `lib.rs` `Croniter` | `cur`, `start_time`, `tz`, `is_prev`, the year bound and whether it was given | `get_next`, `get_prev`, `*_from`, `set_current`, `all_next`, `all_prev` | calls the tail, moves `cur` |
| range iterator | `lib.rs` `CroniterRange` | the object, `stop_ts`, `done` | `next` | drives the object |
| match | `lib.rs` `match_range` | none | one `get_prev` and a comparison | drives the object |
| conformance server | `bin/conformance.rs` | `PARSES`, `NEXT_HANDLE` | parse, search by handle, destroy | one request, one reply per line |
| Python shim | `tools/bridge/croniter/__init__.py` | the process, the lock, a handle per object | `call`, respawn, `__del__` | the server, over pipes |

What makes each of them correct:

* **date search**: the answer is the *nearest* fire, in both directions. The
  search jumps from field to field, so a jump that is too long loses a fire
  silently and a jump that is too short or goes the wrong way loops. It stops,
  and it reports "no such date" exactly when there is none within the years it
  may look at.
* **union**: two searches, each over half of the day rule, give the nearest fire
  of the union; a half that never fires does not hide the other.
* **time zone tail**: the answer is strictly after (before) the start as an
  *instant*, is a local time that exists, and no fire in between is passed, across
  gaps and repeated hours.
* **croniter object**: a failed step leaves the cursor alone; going forward and
  back returns to a fire; the explicit year bound decides whether `all_next`
  stops or raises.
* **range iterator**: exactly the fires between the ends, and it ends.
* **match**: true exactly when a fire lies in the range.
* **parser**: an expanded field is the set of values its items name, whatever
  their order; nothing out of range gets into it, and nothing well formed is refused.
* **strict checks**: exactly the dates no year in play has are refused.
* **server and shim**: an object is answered from the parse it was made with, a
  call gets its own reply or an error, the lock is released whatever fails, and
  every call ends.

The hazards behind these are listed, at their lines, in `PROJECT.json`, with the properties that
would catch them. Three have none, for the code does fall for them and the README says so: the half
hour of #258, a finalizer inside a call of its own thread, and a create whose reply is lost. The
order of the two sides of the union is checked in local time only.

## Modules

| module | models | |
|---|---|---|
| `MonthLengths` | `is_leap`, `last_day_of_month` | |
| `Calendar` | chrono's calendar | a month is its index since year 0, a day its number since 1 January of year 1, an instant a day and a time of day |
| `CronMeaning` | `Expr`, `Expanded`, the `RANGES` table | what an expanded expression *names*, with no search in it; the reference for everything else |
| `SearchRequest` | the arguments of `calc` and its first lines | the request, its first candidate, the years in scope, the answers allowed |
| `NextFire` | nothing: the promise | one request, one right answer |
| `CalcSearch` | `calc` and its helpers | one action per `proc_` block |
| `CalcNext` | `calc_next` | runs `CalcSearch` once or twice and chooses |
| `TimeZone` | `tz.rs`; chrono-tz | an instant and a local time are numbers of ticks, a zone is a table of changes of offset |
| `TzTail` | `calc_with_tz` | from a search in local time to an instant |
| `Croniter` | the object `Croniter` | a cursor, its zone and bound; every public call, over the steps of `TzTail` |
| `CroniterRange` | `croniter_range_iter`, `CroniterRange` | a walk between two instants, over the object's steps |
| `MatchRange` | `matches`, `match_range` | a step back from the later end and a comparison of truncated lengths |
| `Clients` | who drives an object: a caller, a range or a match | composes the three modules above |
| `Expand` | `expand` and the hash expressions | one action per popped item, opened and closed field |
| `FieldMeaning` | nothing: what items *name*, and which texts are well formed | the reference `Expand` is compared with |
| `StrictCheck` | `check_strict` | on what `Expand` accepts |
| `ConformanceServer` | the server's handles | one action per kind of request, and its death |
| `Bridge` | `_Bridge` and the life of a Python object | threads as stacks of calls, over the server |
| `CalendarProofs`, `CalcSearchProofs`, `CalcSearchRefines`, `CalcNextProofs`, `TzTailProofs`, `ClientsProofs`, `ExpandProofs`, `BridgeProofs` | | the proofs |
| `MCCalcSearch`, `MCCalcNext`, `MCTzTail`, `MCClients`, `MCExpand`, `MCBridge` | | expressions, starts, zones, ranges, items for TLC |

### How `CalcSearch` corresponds to `calc`

`calc` is one loop. Its body tries the fields in the order year, month, day of
month, day of week, hour, minute, second. The first field the cursor does not
satisfy moves the cursor, resets everything below, and `continue`s. So one action
is one turn of the loop: `ProcYear`, `ProcMonth`, `ProcNearestWeekday` or
`ProcDayOfMonth`, `ProcDayOfWeekNth` or `ProcDayOfWeek`, `ProcHour`,
`ProcMinute`, `ProcSecond`, and `Found` when no field moves it. `GiveUp` is the
loop condition turning false, `NoYearLeft` the early return of the year block.
A guard such as `HourDone` is the chain of blocks that fell through.

* `cur` is `unaware_time`. The code's second variable `year` is always the year
  of the cursor (it is assigned after every move) and is left out.
* Requests carry whole seconds and a flag `sub`: whether the start has a part
  below the second. The code adds or subtracts a microsecond going back and
  truncates, and the flag is all that survives of the microseconds.
* A field is a set with a flag for `*` and one for `l`. The parser sorts and
  deduplicates a field and puts `l` last, so the lists the helpers walk are those
  sets in order. `get_next_nearest_diff` and `get_prev_nearest_diff` are translated
  with every branch, including the raw first value that may lie past the range and
  the value past the previous month's length that going back must skip.
* `add_months_wrap`, `add_months_clamped` and `ymd_hms` together are `MoveToMonth`:
  every caller asks for the first day of a month going forward and for the last
  going back.
* chrono's checked arithmetic is `MoveTo`: a sum outside `Days` is the
  `bad_type_range` error.

`CalcNext` keeps the code's order: the first search, its error returned at once
unless the split is clean, the second search, the choice. The mapping of its two
legs onto `CalcSearch` blanks one day field and carries `w` and `nth`, as the
code's `w_days` and `nth` clones do.

### How `TzTail` corresponds to `calc_with_tz`

One action per search: `First` localises the first fire and decides whether the
gap it may lie in is tolerable, `Retry` is one turn of the `while` loop, `GuardStops`
the error at its limit, `Shift` the second search at the other offset and the choice
between the two, `ShiftNone` the return when the offset is the same, `FirstNaive` the
return without a time zone. `SearchFails` is the `?` behind each of the three calls
of `calc_next`.

* `calc_next` is taken by its promise: the nearest fire beyond a local time, or an
  error. A schedule is the set of local times it names and whether its hour field
  has a `*`, the only thing the tail reads of the expression.
* `is_successor`, `timezone_delta` and `add_tzinfo` are translated from `tz.rs`. What
  chrono-tz answers (`None`, `Single`, `Ambiguous`) is the number of instants a local
  time has, computed from the table of changes.
* The years of the search bound are a distance in ticks (`horizon`).

### How `Croniter`, `CroniterRange` and `MatchRange` correspond to the object and its users

`Croniter` extends `TzTail`: `cron` holds the object's fields, `call` the call under way.
`Begin` is the entry of `step` (the direction is stored before the search, and stays
stored when it fails), `Searching` a step of the tail, `FoundMore` and `FoundLast` the
move of the cursor after an answer, `Stops` and `Fails` the two ways `collect_many`
treats an error. `get_next` and `get_prev` are a walk of one. `result` keeps what the
last call returned, for the properties. Return types (`RetType`) and the
conversion to float are left out: instants are whole seconds, which both
represent exactly. `start_time` and `dst_start_time` are copies nothing reads.

`CroniterRange` extends `Croniter` and replaces its callers: `Build` and `Refuse` are
`croniter_range_iter`, `NextCalled` to `RunsOut` are `CroniterRange::next`. There the
microsecond by which the ends move is one tick. The bound on years covers both ends
of the range and a year more; as a distance it covers the range, its ends and a probe.

`MatchRange` puts an object without a zone a microsecond after the later end (`Ask`),
takes the object's own steps, and compares (`Compare`, `NoneBefore`, `HandsOn`). A tick
is a microsecond here too and `Second` of them make a second, so that both truncations
to whole seconds are there.

### How `Expand` corresponds to `expand`

The code splits a field into texts and pops them from a stack. A range, a step or a
`weekday#n` range is replaced by its numbers, which are pushed again unless a range of
the field has pushed them before (`seen`); anything else becomes an entry (`res`).
`OpenField` is the head of the loop over the fields with the expansion of a hash and
the test for `?`; `PopNearestWeekday`, `PopRange` and `PopValue` are the three ends of
the loop over the stack, `CloseField` the collapse of a full list to `*`, `Mixed` the
test after the last field. Every early return is a disjunct of `RefuseColumns`,
`RefuseField`, `RefuseText`, `RefuseNearestWeekday`, `RefuseRange`, `RefuseValue` or
`RefuseMixed`, in the order of the code's tests. An overflow is a choice: `PanicField` and
`RefuseRange` are the panic of a build that checks, `OpenField` and `RefuseRange` what a build
that wraps goes on with.

* A text is an *item*: its form (`a`, `aw`, `a-b/s`, `a/s`, `*/s`, `h(a-b)/s`, `?`), its
  values (numbers, names of months and weekdays, `l`, other words), its step and its
  `#n`. Which string has which form is the hand-written patterns' business and left out.
* Entries are a set with flags for `*` and `l`: the code sorts and deduplicates them.
* Numbers are compared with `I64Max` where the code parses or adds: `Fits`, `ValueErrors`,
  `Overflows`, `HashOverflows`.
* The hash is any number; `hash_do` shifts and reduces it as the code does.
* `from` holds the fields of the start an expression is relative to; an exact epoch is
  no start, as in the code. Its year is any integer. `Remainder` is Rust's `%`, which is
  negative for a start before 1970: what is then pushed is a year before 1970, and a
  negative number is a text with a `-` (`Negative`).

`FieldMeaning` says what an item names without a stack, by counting. Relative to a start a
range begins at the first value that is whole steps from the start (`RangeFrom`), wherever the
text says it begins, and may turn into a wrap or a whole field. `NamesItsItems` compares; it
leaves out fields the code takes for full by their count (`Overcounted`) and, relative to a
start, hashes and steps that meet the field nowhere or at its top alone (`Relative`), all
described below. `CheckStrict` may follow what the parser accepts, with any of the years a
caller gives.

### How `ConformanceServer` and `Bridge` correspond to the bridge

The server reads one line, answers it, and reads the next: an action per request at the
head of `requests`. What a search returns is abstracted to the parse it was computed
from, for that is what a handle decides. A random expression has several parses and each
expansion draws one. A call whose handle is unknown is expanded anew, and may be refused or panic
like a new object (`Expanding`). An expression may panic (`huge_number`); the process then ends,
first its pipes (`ending`) and then itself, and the shim's `poll` sees only the latter.

In the shim a call is `asking` (before the lock), `locked`, `reading` (after
`_ensure_started`, the number and the write) and `received`; a failure anywhere leaves
the `with` block, which releases the lock. A thread is a *stack* of calls because
`__del__` may run between any two steps of Python code and makes a call of its own; it
does not run while the thread waits for the lock or for a line. `Interrupt` is a
`KeyboardInterrupt` in the main thread: it leaves the topmost call, and a reply still to
come stays in the pipe. `Shutdown` is the `atexit` handler, which takes no lock.

### Abstract specification

`NextFire` says: a request has no answer, and then has one of `Answers(request)`.
`SearchRequest!Answers` makes that precise: a fire of the expression, strictly on
the asked side, within the years, with no fire nearer; or an error, allowed only
when no fire is in scope, and of the kind "off the calendar" only when the years in
scope reach its end. `CalcSearch` is checked to implement it (`IsNextFire`, with
the answer read off the cursor and the outcome), and so is `CalcNext`, for the
union (`IsUnionFire`); with `W` or `weekday#n` in force in both searches its promise is
`CarriedAnswers`, the nearer side's fire, or an error when a side never fires. `TzTail` implements the same promise with the answers of
`TailAnswers` (`IsNextInstant`): an instant fires when its local time is a fire, or
when it is the first after a gap that holds a fire and the hour field is no `*`; the
answer is the nearest firing instant strictly ahead. An error is allowed only when nothing in reach of the search fires that is a fire
itself and ahead in local time too (`GoesOn`), or when the gap holds more fires than
retries; how the tail treats a last fire that is moved out of a gap, or repeated, is a
finding.

## Runs

All runs read real expressions and starts; a calendar of a few years takes the
place of chrono's half million. The calendar arithmetic is chosen at the places
where it is irregular.

| run | shows |
|---|---|
| `search` | months of every length and a leap year, days 28 to 31, `L`, `W` on weekends and at month ends, `#5`, `#l`, several `#`, weekdays; hours, minutes, seconds and listed years from the first and last instants of an hour, a day and a year, with and without a part below the second; a bound of seven years around 2100 (not a leap year, so 29 February is eight years away), both ends of the calendar, expressions that never fire; in both directions: no fire is passed, no turn goes back, the search returns, the answer is the nearest fire, and an error means that nothing is in scope |
| `union` | pairs of restricted day fields, also with a side that never fires, and all combinations of `day_or`, the vixie bug and a starred text; `W` and `weekday#n`, which stay in force in both searches |
| `tz` | an hour forward, an hour back, both within two days, and no time zone; daily schedules and single fires; the cursor at every tick from an hour before the change to hours after it, in both directions: the answer is the nearest firing instant, strictly ahead of the cursor; a gap with more fires than retries stops the search |
| `clients` | all sequences of calls on one object, with and without a zone, with an hour skipped or repeated, the bound given or not: walks are gapless, the cursor follows what was returned, a step forward and one back return; ranges over a day around the change, in both directions, with and without their ends: exactly the firing instants between them; matches around fires of every kind, both ends at every microsecond: a match has a fire in it, and with whole seconds a fire in the range is a match |
| `expand` | every kind of item alone in every field, at and beyond the ends of the field; pairs of items in both day fields; every step over a wrap; full lists against full lists; hashes and their ranges, up to the overflow; expansion relative to a start, also one before 1970 or after 2099; seconds first; the strict check over months, leap years and given years |
| `bridge` | two threads, one of them interrupted once, two objects, four calls, a random expression and one that panics: replies are not mixed up, the first server holds the parses of the living objects and no others, the lock has one holder, every call ends |
| `nth_split`, `gap_guard`, `last_fire`, `range_gap`, `huge_number`, `respawn` | findings, below |

Bounds. `FirstYear .. LastYear` is the calendar's range; `MaxYears` is
`max_years_between_matches`. Both are small so that the year bound and the
calendar's ends are reached; the code's default of 50 years adds no case, and the
theorems hold for every value. Starts and expressions are enumerated in
`MCCalcSearch` and `MCCalcNext`; the choice is by the lengths of months and
rounds, which are the only numbers the jumps depend on. A tick of `MCTzTail` is a quarter of an hour, and a
day has six hours: gaps, repeated hours and the hours around them are all the tail
can tell apart. `Minute = 1` makes a probe of the gap one tick, `ProbeLimit` is longer
than every gap as 24 hours are, and `GuardLimit` is above the fires of a gap for every
schedule of `tz` but the densest, as the code's 1000 is below 3600 for a second field
only; `TailAnswers` allows an error there, and `gap_guard` is the finding. `tz` uses
changes of a whole hour: over a half hour back the promise fails, which
`src/docs/DEFECTS.md:28` records as an upstream defect that is kept on purpose (#258). What
the theorems ask of zones and schedules instead of these bounds (`Regular`, `PlainRange`)
TLC evaluates as an assumption of `MCTzTail` and `MCClients`. `clients`
has two bounds, one shorter than the schedules' pauses so that searches fail, and
walks of three; `call` sequences are unbounded because the cursor stays within the
fires of three days. Its ranges have ends before, at and after the change whose local
times are regular, and ends at the change itself that are refused (`range_gap`). A
minute has four ticks and a second two, the fewest for which truncating to a second
and a part below it differ. `expand` has the code's own field ranges; `I64Max` is 3000,
above every number a field may hold and small enough for TLC's integers, so numbers at,
below and above it occur. `bridge` has two objects and two threads because handles,
replies and the lock can be mixed up only between two; four calls allow two objects, a
panic and a use, or a finalizer inside a call of another thread's neighbour, and one
interrupt leaves one reply too many in the pipe for all calls that follow. Objects not
yet made are interchangeable, so `New` makes any one of them. Deadlock
checking is off because a search, a parse or a session that has returned stops.

Fairness. `calc` is sequential code: while a turn of the loop is possible it is
taken. `WF_vars(Next)` says only that. `Terminates` and `CallTerminates` rest on
it and on the turns moving away from the start; there is no fairness among the
actions, because at most one is enabled. In `Bridge` every thread with a call under way
is scheduled (`WF` of `Step(t)`, for each thread) and the server answers what it has
read (`WF` of `Serve`): a search ends, as `search` shows. Nothing makes a thread begin a
call, interrupt or exit. Python's lock is not fair; that a waiting call gets it in the
end is due to the others making finitely many calls.

### Findings

* `nth_split`. With a day of month and `weekday#n`, `calc_next` runs two searches
  that both keep the `#` rule, but the second blanks the day of month. When both
  find a fire the nearer is returned, so `0 0 10 * 5#2` fires on every second
  Friday, the 10th or not. `src/tests/original/test_croniter.py:242-246` says of
  this split that "it stays an intersection" and that such an expression must keep
  raising "instead of silently dropping a field".
* `gap_guard`. `calc_with_tz` gives up with `BadDate` after 1000 fires in a gap. With a
  second field and a `*` hour a gap of an hour holds 3600, so `* * * * * *` fails from
  the last second before the gap. `src/src/error.rs:28` says `BadDate` means "no
  matching date within `max_years_between_matches`".
* `last_fire`. After a fire in a gap is moved past it, the second search starts from
  the cursor's local time shifted by the change, which may lie beyond the fire. If that
  fire was the last one, the second search fails and its error is returned:
  `30 2 8 3 * 0 2026` in New York answers 03:00 from 01:15, and `BadDate` from 01:45.
  A last fire in a repeated hour loses its second instant in the same way: once the
  first instant is the cursor, the first search finds nothing more.
* `range_gap`. The start is moved back by a microsecond as a local time. At the first
  instant after a gap this lands in the gap, and the range fails with "not
  representable in tz", while `src/src/lib.rs:634-636` says an aware start is passed on
  and yields aware results.
* `huge_number`. Ends and step of a range are checked to be digits and parsed with
  `expect`, and digits may not fit an `i64`: `1-99999999999999999999 * * * *` panics.
  `src/README.md:211-217` says of these three calls that "none is reachable by any
  input". The same number alone is refused, as an error.
* `respawn`. When the server has died, the shim starts another, which knows no handle and
  counts from 1 again. An object made before is expanded anew, so a random expression is
  drawn again, or is answered from the parse of a newer object with the same number; when
  it goes away it drops that parse. `src/README.md:112-113` says "the engine holds that
  parse for the object's lifetime". The panic above is one way for the server to die.

Also met, without a run of their own:

* Only the first candidate is asked whether it exists. The second search's may be moved out
  of a gap as well (`src/src/lib.rs:493`), and is returned when it is nearer, under a `*` hour
  too: `30 * 8 3 *` in Havana, where 8 March 2026 begins with a gap from 00:00 to 01:00, answers
  01:00 from 23:10 on the 7th, with 01:30 already found. The fires must begin at the gap:
  with an hour before it like the one after it the first search would have stopped there.
* An end of a range in the second of two equal hours moves to the first, because the ends
  are localised with `.earliest()` (`src/src/lib.rs:705`); `src/docs/DEFECTS.md` knows this
  as #259. The ends of `clients` are away from it.
* A finalizer that runs while its thread holds the bridge's lock waits for itself, and
  every later call of any thread with it (`src/tools/bridge/croniter/__init__.py:319`,
  `:191`). `Returns` has this as its only exception. A `KeyboardInterrupt` ends the
  wait; the object's parse is then never dropped.
* After an interrupted call the replies are one behind, so every later call fails with
  "out-of-order response" until the server is replaced. `OwnReply` is about none of them
  being taken for an answer.
* After the interpreter's exit handler, a finalizer starts another server only to drop a
  handle it does not have.
* A fire with seconds inside a gap is moved past it and keeps its seconds (02:30:30 becomes
  03:00:30), and a search that begins in between misses it. The schedules of
  `clients` with a gap are on whole minutes.
* `match_range` truncates both lengths it compares, so an end with a part below the second
  may lose a match; `MatchesFires` asks for one only with whole seconds.
* A wrapped range may leave out one value too many after the wrap, when the step jumps
  over the end of the field (croniter does the same); `Wrapped` allows either.
* Thirty entries and `l` are counted as 31, so `1-29,31,l` becomes `*` and fires on the 30th
  (`Overcounted`).
* Relative to a start, the low end of a range is lost; `src/docs/DEFECTS.md` knows this as #252
  (`RangeFrom`).
* Relative to a start before 1970, steps in the year field begin before 1970 unless the start
  is whole steps from it, for the remainder of `src/src/expand.rs:412` is negative there: `*/2`
  from 1969 pushes 1969, and the expression is refused. `AcceptsWellFormed` has this as an
  exception (`StartsEarly`).
* Relative to a start after 2099, a long step may begin beyond the field. What is pushed is then
  the part of the wrap from 1970 on, counted from there and not from the start; where the range
  ends before 1970 as well it is nothing, and the search finds no date. `ExpandTypeOK` allows the
  years, and no other field, to be empty then (`LateStart`).
* The strict check looks at numbers only: it refuses `31,l`, `31W` or `*,31` in a month of
  30 days, which do fire (`RejectsImpossible` speaks of plain fields).
* `5-0` and `0-0` are accepted as days in five columns, though day 0 is not.
* `*/s` with a step as long as the field or longer, relative to a start at the field's top, begins at
  the bottom: both ends are then the same number, which the code takes for the whole cycle
  (`src/src/expand.rs:743`). `Relative` leaves it out.
* Relative to a start, weekdays can become mixed with `weekday#n` where the text is not, and
  the expression is refused; `AcceptsWellFormed` has this as the other exception.
* A step near 2^63 overflows the loop's addition: a panic in a debug build, a refusal in
  a release build. `StepFine` leaves such steps out of what is well formed. In a hash, the low end and the
  step (`src/src/expand.rs:317`) or the ends of a range of 2^63 numbers (`:300`) overflow in the same
  way; a release build goes on with a number of the range, or a negative one, which is refused.

## Proofs

Every theorem holds for every value of the constants its assumptions allow, with no
bound on the number of steps. `PROJECT.json` lists them with the properties they state.

### The date search: `CalendarProofs`, `CalcSearchProofs`, `CalcSearchRefines`

For every calendar range, every set of expressions the parser can produce, every set
of starts and every year bound (`CalendarAssumption`, `ExprAssumption` and
`RequestAssumption` are all that is assumed):

* `TypeCorrect`: `Spec => []TypeOK`;
* `NothingIsSkipped`: `Spec => []NothingSkipped`;
* `AlwaysMovesAway`: `Spec => MovesAway`;
* `ImplementsNextFire`: `Spec => IsNextFire`, the refinement of `NextFire`.

`NothingSkipped` speaks of every position of the cursor, not only of the answer, and
with `TypeOK` it is inductive: a step preserves it when no fire lies between the old
and the new cursor. So each `proc_` block has a lemma that its jump passes no fire and
goes away from the start (`StepOK`).

1. *Gaps* (`NextGap`, `PrevGap`, `RoundGap`): what the two nearest-value helpers
   return is a distance no value of the field lies within, wherever the round
   begins.
2. *Calendar* (`CalendarProofs`): month starts in closed form follow each other
   by month lengths; every day is in exactly one month; months and days are
   ordered alike. The monotonicity of month starts is proved by a least
   counterexample, since induction schemata take an operator argument.
3. *Stamps*: an instant is a number, additions add to it, and comparing hours,
   minutes and seconds is comparing stamps at three levels.
4. *Steps*: one lemma per `proc_` block. The two
   hardest are `DayOfMonthStep`, where going back the length of the previous
   month decides and a jump may cross two month ends, and `W` and `#`, where the
   days a month offers are shown to be all its days that match (`NearestWorkday`,
   `NthWeekday`).
5. *First and last state*: the first candidate passes nothing in either
   direction, with or without a part below the second, and dropping the seconds at
   the end passes nothing (`FirstCandidateSkipsNothing`, `FoundStep`).

The refinement needs two more parts in the invariant, both about the cursor: `Beyond`
(it lies strictly on the asked side of the start, so an answer never is the start
itself) and `NothingLeft` (with the outcome of an error, no fire is in scope). The step
to an error rests on the edge lemmas: the year of the cursor is past the bound, or
the addition has left the calendar, and either way all that is still ahead is outside
the scope. `YearsAssumption` says that the calendar holds the years 1970 to 2099 a
year field may name; chrono's reaches 262,000 years either way.

### The union: `CalcNextProofs`

`CallInv` adds `LegOK` (a search under way is a search of the request of its leg,
with the invariant above) and `FirstOK` (the first answer is an answer to the first
leg's request) to the types. `UnionFires` says that the fires of the schedule are those
of its two halves together, and `ScopeCovers` that both legs look at the same years;
the nearer of the two answers is then the union's. `CallTypeCorrect` is
`CallTypeOK`, and `ImplementsUnion` the refinement `IsUnionFire`, both for every
schedule, `W` and `weekday#n` in both halves included.

### The time zone tail: `TzTailProofs`

`AlwaysAhead` proves `Progresses`: an answer is strictly ahead of the cursor as an
instant. `TailInv` keeps, at each step, where the local candidate lies relative to the
cursor's local time at one of its offsets. Its core is `ComesAgain`: a local time that
has two instants has them as far apart as the change of offset, and a fire that is
ahead locally and behind as an instant comes again. `ZoneAssumption` is that changes are
farther apart than offsets differ, and it is needed: with changes closer together a
local time could have three instants, and `localize` would return an
arbitrary one. The zones of the tz database satisfy it, with months between changes of
an hour or two.

`AnswersNextInstant` proves `IsNextInstant`, the refinement of `NextFire`, for zones and
schedules that are `Regular`. Without a hypothesis it is false, and each part has its reason
in the code, or its counterexample:

* `MovesToTheEnd`: a fire in a gap is moved to the end of the gap. `add_tzinfo` probes minute
  by minute, so this holds of fires on whole minutes; 02:30:30 is moved to 03:00:30.
* `SameMinutes`: what a change repeats or skips fires at the same minutes an hour before and
  after, or as far as the clock is put. Hours times minutes are like this where the change is of
  whole hours and away from the edge of a day the expression restricts. Over a half hour it
  fails (#258, above), and at midnight a fire is moved out of a gap although the hour is a `*`
  (below the findings).
* `KeepsUp`: after a change that skips or repeats a fire the schedule fires once more before
  the next change, or never again beyond it. Otherwise one search may meet two changes whose
  effects cancel, and is content that the offset is the same: in New York
  `15 1 1 7,11 *` asked from the first 1:30 of 1 November 2026 misses the second 1:15, because
  the next fire in local time is on 1 July, two changes away and at the same offset.

The inductive invariant is `TailPath`, over the types of `TailInv`. The candidate (`Candidate`)
is a fire ahead in local time with nothing on the way but fires in a gap that are not to be
moved (`PassedBy`). While the search retries, it counts those it has met (`Retried`), which are
more than `guard`; so a stop at the limit is `Crowded`. `Reached` is the instant a usable
candidate is given. What it may have missed has a local time already past, or one beyond the
candidate: the second instant of a repeated one, or the end of a gap. When
it shifts, `Missed` is the core: if a firing instant is nearer than the candidate's, the offset
has changed on the way, and the second search, from the shifted local time, finds exactly that
instant. It has a half for each direction, and in each a case for an hour repeated and one
for an hour skipped, with and without a `*` hour. `ShiftFinds` is the other side: where the
schedule goes on, the second search does not fail.

### Who drives an object: `ClientsProofs`

`ClientInv` joins the invariants of the three callers: `ObjectInv` (`CursorOf`: the
cursor is the last instant found or where the call began; `UnderWay` and `AtRest`: a
search is under way exactly within a call), `WalkInv` (a list goes strictly onward and
the cursor is its end) and `MatchInv` (the answer to compare is the nearest fire before
the probe). `CronTypeCorrect` and `CursorIsLast` follow for every interleaving of calls
and setters. `WalksGoOnward` and `RangesGoOnward` are the half of `GaplessWalk` and
`WholeRange` that says a list never turns back or repeats, which needs no hypothesis.

`WalksAreGapless` is `GaplessWalk` and `StepsAndBack` is `RoundTrip`, both in full, for
regular zones and schedules. `WalksInv` adds to `ClientInv` that the search under way is right
(`TailPath`), and that every instant of a list is the next firing instant after the one before, in
the call under way and in the one whose result is kept. A step and a step back are then two
neighbours read from both ends (`ThereAndBack`).

`RangesAreWhole` is `WholeRange` in full, for regular zones and schedules and plain ranges.
`WholeInv` says what a range has yielded at any of its steps: every instant due (`Due`, between the
moved ends) up to where it has come; and that after a failed search none is due beyond.
`RangeEnds` and `RangeGoesOn` say why the ends moved by a microsecond bound the same firing
instants as the ends asked for, and why a search fails only when the range has run out. The
hypothesis `AllPlain` asks of the ends that no other instant has their local time or one next
to it (`PlainEnd`: the findings and #259 are about those that are not), that offsets differ by
half a day at most, that no gap in the range holds more fires than retries, and that either
every firing instant of the range is a fire with its local time to itself, or the schedule goes on
beyond the range, within the bound: else `last_fire` ends the range too early.

`MatchesAreFires` is `MatchesFires` in full. The argument for truncation is
`SecondsReach` and `WholeSecondsReach`: two instants whose truncated distance is at most
that of the ends touch. `MatchAssumption` says that fires are on whole seconds, that a
second is more than one tick (a microsecond) and that a minute is whole seconds; all
three are facts of the units.

### The parser and the strict checks: `ExpandProofs`

`ExpandInv` is inductive over the steps of `expand`: the types, the order of the fields
(`InOrder`), `Filled` (every entry is in the range of its field, and a field under work
without an entry still has items on its stack), `NearIsAlone` (a `W` has the field of
days to itself) and `NthInRange`. `Filled` is what makes no accepted field empty, and needs
care: numbers already `seen` are not pushed again, so a range could leave nothing behind.
It says that while there is no entry, the top of the stack is among the numbers just
pushed, if any were. This gives `ExpandTypeCorrect`. `VerdictHolds` adds what the strict
check has answered, for `RejectsTheImpossible`.

`AcceptsTheWellFormed` and `NamesTheItems` compare the stack machine with `FieldMeaning`,
through `Meaning`: of a well-formed expression,

* a field under work (`Working`) has on its stack and among its entries, together, what
  its items name. `Kept` says that a number pushed by an earlier range is still on the
  stack or an entry, so skipping it loses nothing; `Reading` picks of the two readings
  of a wrapped range the one the code takes; `Steady` says that no item of a field
  `Relative` does not leave out has steps that begin outside it;
* a closed field (`Told`) names what its items name, through the collapse to `*`;
* a refusal contradicts well-formedness at the point where the code refuses, except for
  weekdays mixed with `weekday#n`, where only those relative to a start are left
  (`MixedIsRelative`), and for what steps have laid before the first year (`EarlyNumber`,
  `EarlyIsYear`).

The arithmetic is in `StepsNamed` (a step from a number to a number), `WrapNamed` (a range
over the end of the field, in both readings), `FirstStep` and `StartSteps` (the first of the
steps through a start, and the steps from there on, are those the text names) and `RangeNamed`,
which joins them over the branches of the
code. `Unseen` and `num_range_step` run over lists; where an induction over a list is
needed it is made by a least counterexample (`NoLeast`), because the induction theorems take
an operator argument.

`ExpandAssumption` types the expressions, says that the minute, hour, day, month, weekday and
second of a start are within the ranges of their fields, as chrono's are (nothing is assumed of
its year), and that `I64Max` is above every number a field may hold (it is
2^63 - 1); `StrictAssumption` types the years. The bound on `I64Max` was missing until the
proof asked for it: a range's step may only overflow beyond what is well formed.

### The bridge: `BridgeProofs`

The invariant comes in layers, each inductive relative to those before it. `Typed` and
`Numbered` (requests are numbered in the order they are sent and replies come in that
order, across respawned processes) carry `RepliesAreOwn`: a call accepts a line only with
its own number, and no reply left behind by an interrupted call can have it. `Lives`
relates each thread's stack of calls to the lock and to the objects' lives, for
`LockIsOfOneCall`. Above them `Handled`, `Used` and `NoLeak` say of the first server that
handles are given out once, that a request still in the pipe names an object that is
alive or being dropped, and that no handle is left over; these give `ParsesAreHeld`. A
finalizer that runs in the middle of another call is what makes them necessary: its request
lies between two of the call's own. `ServerAssumption` and `BridgeAssumption` only type
the constants.

### What stays model-checked

Liveness: `Terminates`, `CallTerminates`, `Returns` rest on fairness and stay with TLC. Every
invariant and every action property the passing runs check is stated by a theorem. Of those
with a hypothesis on zones, schedules or ranges, the runs show that the instances TLC visits
satisfy it: `RegularInstances` and `PlainInstances` are assumptions TLC evaluates before it
starts, 1356 triples of a range, a schedule and a bound for the latter, 154 of which have a fire
that is moved or repeated and 556 a schedule that does not go on beyond the range. The findings
`gap_guard` and `last_fire` are the two exceptions `TailAnswers` makes.

## Not modelled

* Text: lower case, `@` aliases, splitting at blanks and commas, and the hand-written
  patterns, below the forms they tell apart; error messages and their wording.
* `crc32` and the random source: fixed functions of their input, taken as any number.
* The server's conversions of dates, offsets and time zones, and its JSON.
* The shim's copy of an object's cursor and its Python versions of `match_range` and
  `croniter_range`, which are croniter's own and drive the shim's objects.
* Return types and float timestamps.
* `error.rs` is an enumeration. The benchmarks, the fuzzer and the corpus tools are
  development tools around the library.

## Plan

1. `TzTail` over `CalcNext` in place of its promise, for the day rules whose two sides
   a change of offset can reorder (checked with the promise so far).
2. The shim's object cursor over the server's answers, and the server's reading of
   local times that do not exist.
