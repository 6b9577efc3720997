# TLA+ verification of the I2P+ memory-leak detector

This directory models `src/memory_leak_detector.py` and
`src/extract_untranslated.py` in TLA+, checks the models with TLC on small
instances and proves the central invariants with TLAPS for every instance.

## 1. Inventory

### Components, their state and operations

| Component | Code | State it keeps | Operations |
|---|---|---|---|
| Monitoring Loop | `monitor_memory` 254-308, `main` 591-595 | `use_proc`, `snapshots`, loop index, the `--output` file | header write (`'w'`), one trial probe, `count` iterations of acquire / append / CSV append / sleep, post-loop analysis |
| Trend Analyzer | `analyze_trend` 311-360 | none (pure) | first-vs-last growth classification, old-gen warning |
| jstat adapter | `get_jstat_memory` 98-152 | none | run `jstat -gc` (10 s timeout), zip header/value rows, `float()`/`int()` conversions, KB→MB |
| /proc adapter | `get_memory_from_proc` 73-95 | none | read `/proc/<pid>/status`, prefix-match `Vm*` lines |
| jmap adapter | `get_jmap_heap` 155-189 | none | run `jmap -heap` (30 s), regex per region |
| Console adapter | `get_memory_from_console` 494-512 | none | one HTTP fetch, one regex |
| GC log scanner | `parse_gc_log` 192-233, `find_gc_logs` 363-381 | counters and two lists during one pass | per line: four substring counters, two regex extractions |
| Wrapper log scanner | `analyze_wrapper_log` 384-416 | two lists during one pass | first existing candidate path, OOM and memory-warning lines, tail 5, 100 chars |
| Diagnostic Client | `diagnose_memory_issues` 419-491 | the `diagnosis` dict | two independent fetches, four extractions, ordered recommendation rules |
| Process discovery | `find_java_process` 37-70 | none | two `pgrep` calls, cmdline filter |
| Heap dump | `analyze_heap_dump` 236-251 | none | one `jmap -dump` (120 s) |
| PO extractor | `extract_untranslated.py` 10-45 | `in_msgid`, `current_msgid`, `msgid_lines`, result list | per line: msgid start, continuation, msgstr check |

### How they interact

The tool is single-threaded and synchronous. `main()` dispatches on flags.
The `--monitor` path writes the CSV header, then `monitor_memory()` calls
the jstat adapter once to choose the mode, then calls the chosen adapter
`count` times, appending to `snapshots` and to the output file, and finally
hands `snapshots` to `analyze_trend()`. The only concurrency is with the
*monitored router process*, which runs independently: between any two steps
of the tool its heap and RSS change, it runs collections, jstat may stop
(or start) answering within its timeout, and it may exit. The output file is
the only persisted state.

### What is hard

* the mode is decided once, from a reading that may be stale a second later
  (jstat recovering or failing after the probe);
* failed acquisitions silently drop iterations, so the trend compares
  whatever first and last samples survived, possibly none;
* I/O errors on the output file are not caught and kill the run between
  the in-memory append and the write;
* numeric edges in the classifier (first reading 0, exact thresholds);
* the CSV file's header is written before the mode is known, and the file
  is truncated;
* conversions in the adapters that fail on real input (see the hazards in
  `PROJECT.json`: `int()` of jstat's decimal `YGCT`, `GCT * 1000` on a
  string, the `OGCT` column that jstat does not print, the GC regex that
  needs a leading `->`).

### Properties that make each component correct

* Monitoring Loop: samples of one session come from one adapter; the file
  ends with the header plus one line per collected sample at every point
  (partial runs leave consistent partial data); what the file held before
  the run is kept (spec 4.3; the code breaks this); every run terminates.
* Trend Analyzer: with two or more samples, the verdict is the spec's
  classification of the first and last; with fewer, no analysis.
* Adapters: a well-formed report yields a snapshot whose fields are the
  report's values (the spec's heap used ≤ committed); any failure yields
  None, never an exception.
* Log scanners: counters equal the number of matching lines; extracted
  lists keep file order and the most recent five.
* Diagnostic Client: one fetch's failure does not hide the other's
  findings; recommendation tiers are exclusive.
* PO extractor: a reported entry is exactly an entry whose msgstr is empty.

## 2. Plan

Modules, in order of importance (done ones marked):

1. **`MonitorLoop`** (done) — the monitoring path and the trend analyzer,
   with the router as an environment. MC module `MC_MonitorLoop`.
2. **`MonitorLoopProofs`** (done: type correctness, file/sample mirror,
   mode homogeneity, `AnalysisMatchesSpec`, and the safety part of the
   refinement of step 4).
3. **`JstatParse`** (done, composition with `MonitorLoop` open) — `get_jstat_memory`'s parsing as a pure operator over an
   abstract report (columns present, lexical kind of each value); runs
   showing that a real JDK `-gc` report is rejected and that `old_gc_count`
   is never the report's full-GC count. Then compose with `MonitorLoop`
   (the adapter's answer derived from a report instead of `jstatUp`).
4. **`MonitorSession`** (done) — the abstract session (it records readings of
   one mode and ends with a verdict on the first and last) and a refinement
   mapping from `MonitorLoop`, checked by TLC and proved by TLAPS.
5. **`GCLogScan`** (done) — `parse_gc_log` over abstracted lines.
6. **`WrapperLog`** (done) — candidate-path priority and tail-5.
7. **`Diagnose`** (done) — two fetches, absent fields, recommendation tiers.
8. **`PoScanner`** (done) — the PO state machine of `extract_untranslated`.

Theorems still worth proving: `ScanMatchesEntries` of `PoScanner`,
`CountsMatchLinesRead` of `GCLogScan` and `ResultIsTailOfFirstReadable` of
`WrapperLog` (all three are stated with sequence operators whose facts need
induction over the lines read).

## 3. The model of the monitoring path (`MonitorLoop.tla`)

State. The router: `alive`, `jstatUp`, `heap`, `rss`, `oldgc`. The tool:
`pc` (`main` → `probe` → `loop` → `done`, or `aborted` after a write
error), `i` (the `range(count)` index), `useProc`, `snapshots`, `file`,
`verdict`, `oldWarn`.

Actions and code:

| Action | Code |
|---|---|
| `WriteHeader` | `main` 591-595: `open(..., 'w')`, nine-column header |
| `Probe` | `monitor_memory` 256-262: one trial `get_jstat_memory()` sets `use_proc` |
| `SampleOK` | 273-305: acquire with the mode's adapter, append, CSV append |
| `SampleMissed` | 273-305 when the adapter returns None |
| `SampleWriteFails` | 285-287 / 297-302: the uncaught `OSError` after the in-memory append |
| `Finish` | 307-308 and `analyze_trend` 311-360 |
| `TargetAllocates`, `TargetOldGC`, `JstatFlaps`, `TargetExits` | the router process (not code of this repository) |

Abstractions. Readings are whole MB from `MemVals`; the growth percentage is
compared exactly (`(last - first) * 100 > t * first`), which is the code's
float comparison without rounding. A CSV line is its column count and the
sample it encodes; printing is omitted; `time.sleep` has no state effect
(the router's steps interleave everywhere). In /proc mode a sample's
`oldgc` is 0 (the dict has no such field and the analyzer never reads it).

Fairness. `WF_vars(ToolNext)`: the tool is one thread whose every external
call carries a timeout, so it always takes its next step. The router gets
no fairness: it may stop changing or exit at any time.

### The abstract session (`MonitorSession.tla`) and the refinement

`MonitorSession` says what a session promises, with no adapters, file or
target: a `setup` phase settles one mode (`Begin`); `Record` appends a
reading of that mode, at most `Count` of them; `Abort` records one and dies
(the write error); `Conclude` gives `Classify` (spec 4.4 on the first and
last readings, `none` below two) and the old-generation warning. Its `Spec`
adds `WF_vars(Next)`: a session does not stall.

`MonitorLoop` implements it under the mapping `phase <- SessionPhase`
(`main` and `probe` are `setup`, `loop` is `sampling`, `done` and `aborted`
stay), `mode <- SessionMode` (the probe's `useProc`), `taken <- snapshots`.
`WriteHeader` and the router's steps are stutters, `Probe` is `Begin`,
`SampleOK` is `Record`, `SampleMissed` a stutter, `SampleWriteFails` is
`Abort`, `Finish` is `Conclude`. TLC checks `ImplementsSession ==
Session!Spec` (fairness included) in `monitor_safety`; TLAPS proves the
safety part, `Spec => Session!SafeSpec`.

## 4. Runs

| Run | Checks | Shows |
|---|---|---|
| `monitor_safety` (`MonitorLoop.cfg`) | `TypeOK`, `ModeNeverMixed`, `FileMirrorsSamples`, `AnalysisMatchesSpec`, `Terminates`, `ImplementsSession` | pass: ~82 000 states |
| `csv_header_mismatch` | `CsvHeaderMatchesRows` | violation: /proc-mode rows under the jstat header |
| `csv_never_overwrites` (`MonitorLoop_NeverOverwrites.cfg`) | `NeverOverwrites` | violation: `open('w')` at line 593 truncates the earlier run's line (spec 4.3: appended, never overwritten) |

Bounds: `Count = 3` (room for a missed sample between two good ones, so the
analyzer compares non-adjacent samples, and for runs with 0, 1, 2, 3
samples); `MemVals = {0, 10, 12, 13}` (10→12 is exactly 20 %, the strict
threshold boundary; 10→13 is significant; 12→13 is stable; 0 is the
first-reading-zero edge); `MaxGC = 1` (the warning needs one collection); one
line of prior file content, so that keeping or destroying it is visible.
`FileMirrorsSamples` speaks only of the file's tail: it ends with this
run's header and one line per collected sample, whatever precedes them, so
it holds under the code's `'w'` and under the spec's append alike; its
mutant `WriteHeaderIfNew` (append, and write the header only to an empty
file) leaves the run's rows without a header and is caught.
`NeverOverwrites` (the earlier lines are still the file's first lines) is
the spec's word on line 593, and `csv_never_overwrites` finds it broken by
the first step, `WriteHeader`. Every property of `monitor_safety` has a
mutant (see `PROJECT.json`) that TLC catches under the same configuration.

## 5. The model of the jstat adapter (`JstatParse.tla`)

`get_jstat_memory()` (lines 98-152) is a pure function of what `jstat -gc`
prints, modelled as the operator `GetJstatMemory(report)` and one action
`Call` that applies it to a report chosen in `Init`. A report is the
subprocess outcome (`ok`, non-zero exit, timeout, jstat missing), the number
of stdout lines, and the `dict(zip(headers, values))` as a function from the
column names present to lexemes. A lexeme keeps what the conversions tell
apart: its lexical kind (`int` digits or `dec` decimal) and its value.
`float()` accepts both kinds, `int()` only digits, and `s * 1000` on a
string repeats it: `GcTimeMs` records a non-zero repetition as such rather
than as a number of milliseconds. Region sizes are whole MB in KB, so the
`/ 1024` is exact.

`MC_JstatParse` enumerates the JDK 6 (PC/PU), JDK 8 (metaspace) and JDK 11
(CGC/CGCT) layouts and a value row cut after eden, memory and time columns
as digits or as decimals, every size 0 or 1024 KB for used and capacity of
each of the four regions, every GC count and time 0 or 1024, and the four
failure shapes: 49 288 reports.

| Run | Checks | Shows |
|---|---|---|
| `jstat_parse` (`JstatParse.cfg`) | `TypeOK`, `UsedWithinCommitted` | pass: a snapshot or None, and used ≤ committed whenever each region's used ≤ its capacity |
| `jstat_real_report_rejected` | `RealJdkReportAccepted` | violation: every real JDK report gives None (`int()` of the decimal `YGCT`) |

Consequence for the monitoring path: on a real JVM the probe of
`monitor_memory` always sees None, so `MonitorLoop`'s `jstatUp = FALSE`
branch is the one that happens; and since `old_gc_count` is always 0 the
old-generation warning of `analyze_trend` cannot fire in detailed mode
either. The wrong count columns (`YGCT`, a time, for `young_gc_count`;
`OGCT`, which no layout prints, for `old_gc_count`, lines 131-132) are a
hazard in `PROJECT.json` with no run of its own: only integer-valued
reports, which jstat does not print, get past line 131 to show them.

## 6. The GC log scanner (`GCLogScan.tla`)

`parse_gc_log()` (lines 192-233) as a machine over one file: `Missing`
(no file, `{}`), `Open`, `OpenFails` (the `except` of 230-233 before any
line), `ScanLine` (lines 208-228: the four independent substring tests,
the first `[t.t]` timestamp, the heap regex), `ReadError` (a line whose
reading raises: the partly filled dict is returned) and `Return`. A line is
abstracted to the four substrings it contains, its timestamp (or none), its
heap-transition shape (`none`, `plain` = `512K->128K(1024K)` as the spec
and the JDK print it, `chained` = `->512K->128K(1024K)`, which is what the
code's regex needs) and whether it can be read. `MC_GCLogScan` enumerates
every file of up to four lines from five line kinds (a full GC with a
promotion failure, an allocation failure with a chained transition, a full
GC with a concurrent mode failure, a blank line, an unreadable line), plus a
missing and an unopenable file.

| Run | Checks | Shows |
|---|---|---|
| `gc_log_scan` | `TypeOK`, `CountsMatchLinesRead` | pass: at every point each counter is the number of lines read so far that contain its substring (a line raises several), and the timestamps are those lines' in order; after a read error that is the prefix, returned as the result |
| `gc_heap_transition` | `HeapTransitionsParsed` | violation: a `512K->128K(1024K)` line gives no triple (line 222) |

## 7. The wrapper-log scanner (`WrapperLog.tla`)

`analyze_wrapper_log()` (lines 384-416): the `for` over the three candidate
paths is `SkipMissing` (394), `ReadFails` (an exception of `open`/`read`,
swallowed at 414-415, and the loop goes on), `ReadOK` (395-402), then
`ScanLine` for each line (403-407) and `ReturnInfo` (409-413, the last five
of each list); `ReturnNone` is line 416. A line is its two tests (OOM,
memory warning); collected entries are line positions, since the 100-char
cut is formatting. `MC_WrapperLog` lets the first path be missing,
unreadable or a one-OOM log, the second missing or that log, and the third
missing or any log of up to seven lines from three line kinds (so a list of
more than five entries, cut to five, occurs).

| Run | Checks | Shows |
|---|---|---|
| `wrapper_log` | `TypeOK`, `ResultIsTailOfFirstReadable` | pass: the result is the most recent five OOM lines and five warning lines of the first path that exists *and can be read*, or None |

Spec 4.4 says "the first path that exists": an existing but unreadable
first path is skipped by the code (hazard at line 394).

## 8. The diagnostic client (`Diagnose.tla`)

`diagnose_memory_issues()` (lines 419-491) as three steps: `FetchHome`
(426-439: a fetch error records `error`; a matched RAM pattern records used,
max and `int(used / max * 100)` when max > 0), `FetchTunnels` (441-460: each
of three patterns that matches records its fields; any exception is
swallowed), `Report` (462-491: nothing is recommended once `error` is set,
else the transit tiers, critical before warning, the floodfill note and the
RAM checklist). Pages are what the regexes find in them. `MC_Diagnose`
takes RAM figures that put the percentage at 40, 80.5 and 161 % and a zero
max, and transit counts at and across the 2000 and 5000 tiers.

| Run | Checks | Shows |
|---|---|---|
| `diagnose` | `TypeOK`, `TunnelsIndependentOfHome`, `RecommendationsFollowFigures` | pass: the tunnel fields come from `/tunnels` whatever `/home` did; the recommendations follow the tiers; the RAM checklist starts at 81 % (the `int()` truncation, so 80.5 % is not "above 80" as spec 4.5 says) |
| `diagnose_home_error` | `TunnelFindingsReported` | violation: after a `/home` error the critical transit finding of `/tunnels` is never recommended (line 466) |

## 9. The PO extractor (`PoScanner.tla`)

`extract_untranslated()` (`extract_untranslated.py` 10-45) as one action per
branch of its loop: `MsgidLine` (23-30), `MsgstrLine` (31-39),
`ContinuationLine` (40-41) and `OtherLine` (42-43). A line is its kind and
its string. `MC_PoScanner` enumerates every file of up to five lines over
the strings `""` and `"a"`, which is 219 345 states: entries with 0, 1 and 2
continuation lines, msgids interrupted by other lines, msgstr lines without
a msgid, and two entries in a row.

| Run | Checks | Shows |
|---|---|---|
| `po_scan` | `TypeOK`, `ScanMatchesEntries` | pass: at every point the reports are exactly the entries read so far whose msgstr line is `msgstr ""`, once each, in file order, each with its 0-based line number and all its msgid lines |
| `po_multiline_msgstr` | `UntranslatedMeansEmptyMsgstr` | violation: an entry translated on continuation lines after `msgstr ""` is reported (line 33) |

`EmptyStr` is the `""` the code compares a stripped line with (line 33).
The printed content `msgid_lines[1:-1]` (line 37) loses the last
continuation line; `Content` models it, no run reads it.

## 10. Proofs

In `MonitorLoopProofs.tla`, for every value of the constants that satisfies
their assumptions:

* `TypeCorrect`: `Spec => []TypeOK` from `InitTypeOK` and `NextTypeOK`
  (one step per action), under the named assumptions `CountAssumption`,
  `MemAssumption`, `MaxGCAssumption`, `OutputAssumption`,
  `PriorAssumption`.
* `FileMirrorsSamplesHolds`: `Spec => [](FileMirrorsSamples /\
  ModeNeverMixed)`. The invariant is not inductive alone: the header write
  must find no samples, and a suffix condition says nothing of where the
  next line lands, so the inductive invariant `IInv` adds
  `NoSampleBeforeLoop` (no sample before the loop), `TypeOK`, and
  `FileIsThisRun` (because `WriteHeader` truncates, the run's lines are the
  whole file), from which `WholeFileIsSuffix` gives `FileMirrorsSamples`. Lemmas
  `AcquireType` (an acquisition is a sample of the session's mode or
  NoSample), `AppendMirror` and `AppendLost` (what appending does to the
  mirror) carry the sequence reasoning.
* `AnalysisMatchesSpecHolds`: `Spec => []AnalysisMatchesSpec`. The lemma
  `VerdictAgrees` shows that the code's test on `growth / first * 100`
  (`TrendVerdict`) and the spec's classification give the same verdict for
  all naturals. The inductive invariant `RInv` adds `LoopBound` and
  `NoVerdictBeforeEnd` (no verdict is printed before the loop ends, so
  the verdict is set once, by `Finish`, on the final samples).
* `ImplementsSessionSafety`: `Spec => Session!SafeSpec`. Every initial
  state maps to an initial session state. Each action maps to a session
  step or a stutter, as listed in section 3. `SampleIsReading` shows that a
  collected sample is a session reading of the mapped mode.

In `DiagnoseProofs.tla`, for every `RamVals`, `TunnelVals` and page sets:

* `TypeCorrect`, `TunnelsIndependentOfHomeHolds`, `RecommendationsHold`
  (the latter two state `TunnelsIndependentOfHome` and
  `RecommendationsFollowFigures`). The inductive invariant `DInv` gives,
  phase by phase, what each fetch delivered and that `diagnosis` is
  `HomeBlock` and then `TunnelsBlock` applied to those pages, and `printed`
  is `Recommendations(diagnosis)` once done. `HomeBlockFacts`,
  `TunnelsBlockFacts` and `DiagnosisFacts` read the keys and values off
  the dict. `RecommendationsOfPages` turns the tiers into conditions on the
  page figures, and `PercentAbove80` turns `used * 100 \div max > 80` into
  `used * 100 >= 81 * max`.

In `JstatParseProofs.tla`, for every `Vals` and every set of reports
satisfying `ValsAssumption` and `ReportsAssumption`:

* `TypeCorrect`: `Spec => []TypeOK`, from `ResultType` (the adapter returns
  None or a snapshot of naturals), which rests on `KBNat` (a present or
  defaulted column is a natural).
* `UsedWithinCommittedHolds`: `Spec => []UsedWithinCommitted`. The
  invariant speaks of `result`, so the inductive invariant adds
  `ResultOfReport` (the result is Unset or the adapter's value on the
  unchanged report); `RegionWithin` (a used column, present or defaulted
  to 0, is at most its capacity) and `DivMonotone` give
  `SnapshotWithinCommitted`.

* `ModeNeverMixedHolds`: `Spec => []ModeNeverMixed`, a corollary of
  `FileMirrorsSamplesHolds`.

The scanners' properties compare what a loop has collected with "the
positions of the matching lines, in file order". `Positions.tla` states
that list without recursion: `Ordered(K)` sorts a finite set of naturals by
rank (`Rank(K, k)` = how many members are at most k). A filter written with
`SelectSeq` would need induction over the sequence, which the provers
cannot do (see below). TLC checks the scanner runs with these definitions,
so they are what the properties mean. In `PositionsProofs.tla`:
`OrderedEmpty`; `OrderedLen`; `OrderedExtend` (adding a number above every
member appends it); and `PrefixStep`, which says how the matching positions
among the first n lines change when line n + 1 is read. `PrefixStep` is
the step every scanner proof uses.

In `GCLogScanProofs.tla`, for every set of logs: `TypeCorrect` and
`CountsMatchLinesReadHolds`. The inductive invariant `GInv` bounds the
line index by the phase, keeps the result unset until the return, and
records the dict's field types (`PatternsOK`). `LineEffect` shows what
`CountLine`, `TimeOf` and `HeapOf` do to the dict. `TimesStep` (from
`PrefixStep`) shows what one line does to `TimesIn`.

In `WrapperLogProofs.tla`, for every `FileSystems`: `TypeCorrect` and
`ResultIsTailOfFirstReadableHolds`. The inductive invariant `WInv` says
three things:

* the paths before `p` cannot be read;
* while a file is scanned, `ooms` and `warnings` are the ordered matching
  positions among the lines read so far;
* a result from a file holds `LastFive` of its complete lists.

`ListsStep` does one line. `LastFiveIsRecent` shows that `lst[-5:]`
(`LastFive`, with `SubSeq`) is the spec's "most recent five" (`Recent`).
The first readable path is identified with the `CHOOSE` of the property.

In `PoScannerProofs.tla`, for every `Texts` and `MaxLines`: `TypeCorrect`
and `ScanMatchesEntriesHolds`. `ScanMatchesEntries` is not inductive alone.
When a `msgstr ""` line is reached, the proof must know which entry it
closes and that the entry comes after every one reported. So `PInv` adds:

* `InMsgidInv`: while `in_msgid` is set, line `current_line + 1` is a msgid
  line followed only by continuation lines up to the last line read
  (`Pending`), and `msgid_lines` is exactly those lines;
* `IdleInv`: while `in_msgid` is clear, no entry is pending.

`PendingUnique` shows that at most one entry is pending. `NewEntry` and
`NoNewEntry` show how the set of empty-msgstr entries grows by one line.
`ReportedBefore` gives the file order. There is one lemma per branch of
the loop (`MsgidLinePInv`, `MsgstrLinePInv`, `ContinuationLinePInv`,
`OtherLinePInv`). TLC checked each of `GInv`, `WInv` and `PInv` as an
invariant of the module's run before it was proved.

Three limits of the prover shaped these modules:

* the SMT backend rejects any obligation that holds the empty string
  literal, so `PoScanner` names it `EmptyStr`;
* `x \in BOOLEAN` goals about Boolean variables go to Zenon;
* a prime is written around a whole formula (`Readable(p)'`, not
  `Readable(p')`), because the operators read the state.

Only model-checked: `Terminates` and the fairness part of
`ImplementsSession` (liveness and `ENABLED` are beyond TLAPS here). The
violation runs' properties are also only model-checked: they are false.

## 11. Not modelled

Process discovery (`find_java_process`), heap dumps, the jmap adapter, the
console adapter, `find_gc_logs` and the printing branches of `main()` call
external tools, list a directory, apply one regex or print; they are listed
in `PROJECT.json` with the reason. The /proc adapter appears in
`MonitorLoop` as the answer it gives (a reading or None). The byte format of
console HTML and of log lines is external: the scanner modules abstract a
line to what the code's tests see in it.
