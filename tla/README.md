# TLA+ models of the esp-open-rtos hardware test runner

The repository's only concurrent, stateful Python program is
`src/sdk/esp-open-rtos-rsf/tests/test_runner.py`. It drives one or two ESP8266
boards over serial ports. It resets each board, reads the list of on-device
test cases, starts the cases one at a time, watches each board's output in a
thread of its own, and sums the results into an exit status. This directory
holds TLA+ models of that program and the TLC configurations that check them.

It also models three stand-alone tools of the repository:
* `utils/filteroutput.py` of esp-open-rtos, the log filter that resolves
  addresses with addr2line;
* `extras/fonts/tools/create_font.py`, the bitmap font converter;
* `external_libs/wifi_config/tools/embed.py`, which turns the wifi_config
  HTML template into C strings.

## 1. Inventory

### Components and their state

| Component | Code | State it keeps | Operations |
|---|---|---|---|
| Result and case model | `TestResult`, `TestCase` (l. 72-163) | immutable values: a status (Cancelled 0 < Skipped 1 < Passed 2 < Failed 3 < Error 4) and a message; a case's index, name and type | `is_failure`, `__lt__` (used by `max`), `TestCase.__eq__` |
| Line transport | `TestSerialPort` (l. 350-375) | the pyserial port: its receive buffer and its `timeout` attribute, which every reader shares | `wait_line(callback)`, `readline`, `write`, `flushInput`, DTR/RTS |
| Device environment | `TestEnvironment` (l. 219-274) | the port and the tag `A`/`B` | `reset` (pulse, wait for the banner, up to `RESET_RETRIES` = 10 tries), `get_testlist`, `start_testcase` |
| Test monitor | `TestMonitor` (l. 166-216) | `_result` (None until set), `_cancelled`, `output`, its thread | thread body `_monitorThread`, `cancel`, `get_result` |
| Per-case orchestration | `TestCase.run` (l. 86-126) | `mon_a`, `mon_b` | start monitors, poll every 0.1s, cross-cancel, `max` of results |
| Runner | `run`, `main` (l. 18-69) | `counts`, `failures`, the case list | flash, enumerate A (and B, compare), filter, run every case, exit 0/1/2 |
| Device firmware | not in the Python sources | where the test-runner firmware is | boot output (banner, `CASE` lines, `>`), log lines, `:PASS` / `:FAIL:`, crash and reboot |
| Output filter | `filteroutput.py` | the terminal's ECHO flag and the saved `old_attr`, the port | find the ELF file, open the port or turn echo off, read lines, scan for addresses, call addr2line, restore echo in `finally` |
| Font converter | `create_font.py` | `chars`, and in `gen_char` the row, byte and bit loops with the byte in work | range check, draw each glyph, pack its rows into bytes |
| Page embedder | `embed.py` | `content`, `part_headers`, `result` | substitute the template tags, find the part headers, one C declaration per part |
| Not modelled | `flash_image`, `parse_args`, `server.py`, the PBKDF scripts | — | one-shot I/O or crypto (see section 6 and PROJECT.json) |

### How they interact

The main thread calls the environments. Each `start_testcase` returns a
`TestMonitor`, and its thread then reads the same serial port object the
environment owns. The main thread and the monitor threads share three things:
the monitor's `_result` and `_cancelled` fields, and the port, meaning both its
receive buffer and its `timeout` attribute. Nothing is locked; CPython's GIL
makes each attribute store atomic, but every read of `get_result()` in the
polling loop is a separate moment.

### What is hard

* **Interleavings of the polling loop and the monitor threads.** One iteration
  reads `mon_a`'s and `mon_b`'s result slots up to four times, and the
  monitors may set them between any two reads (l. 95-112).
* **Python semantics at the edges.** `max(x, y)` with one operand still None
  uses the reflected `__lt__`: it answers for `max(result, None)` and raises
  TypeError for `max(None, result)`. AttributeError is swallowed to mean "no
  peer" or "no result yet".
* **Timeouts.** Readline uses the port's timeout (0.25s), the monitor has a
  60s deadline, and `reset` retries 10 times. Time is not counted in the
  models: a deadline may pass at any moment after it starts, and an empty
  read happens whenever the buffer is empty and the timeout is short.
  The model does not force that empty read, so a short readline may wait
  as long as the model likes. pyserial's `readline` gives up 0.25s after it
  starts, whatever arrives, so a trace in which a cancelled monitor outlives
  its last read has to be checked against real timing. The model reaches a
  hang of the next case's `wait_line` (see Shared port below), and a monitor
  that takes the next case's `:PASS` or `:FAIL:`. Both traces keep one
  readline of the cancelled monitor pending through the next case's pulse,
  boot and handshake on the other port. That takes far longer than 0.25s,
  so neither is kept as a run.
* **Shared port after a case.** The cancelled peer monitor is not waited for.
  Its thread goes on reading the port and finally sets `port.timeout = None`
  under the feet of the next case's `wait_line` on that port. This is the
  one hazard of the runner that no run checks; see the Timeouts bullet for
  why the untimed model over-approximates it.
* **Partial lines.** `readline` returns what it has when its timeout expires,
  so a device that stalls inside a line is read as two fragments.
* **Retries.** The `reset` retry loop and the dead `raise` after it.

### Properties that make each component correct

* Monitor: it ends (deadline or cancel); its result reflects the first
  verdict line it read; a reboot banner gives Error.
* Per-case orchestration: the polling loop amounts to one atomic decision.
  The verdict is the worse of the results as reported, taken once all have
  reported or one has failed. A case whose devices all passed is never a
  failure, no exception escapes, and the case ends.
* Environment: `reset` returns only after the banner, or fails; the command is
  written only at the prompt; every operation ends.
* Runner: no wait blocks without a timeout (so the run ends); the exit
  status is 0 iff every case ran and none Failed or Errored.
* Output filter: the terminal is left as it was on every way out.
* Font converter: every glyph's bytes are its bitmap, and the offsets tile
  the table.
* Page embedder: the declarations are the parts, in order, and each C
  literal reads back as its line.

## 2. Plan

Modules, each EXTENDing the one before where it composes it:

1. `TestResult`: statuses, `IsFailure`, `PyMax`/`PyMaxRaises` (CPython `max`). **Done.**
2. `TestDevice`: the device firmware and the receive buffer of each port
   (modelled from the spec's line protocol). **Done.**
3. `TestMonitor`: the monitor thread. **Done.**
4. `TestCaseRun` + `MCTestCaseRun`: `TestCase.run` with one or two
   monitors. **Done.**
5. `TestEnvironment` + `MCTestEnvironment`: `wait_line`, `reset` with its
   retries, `get_testlist`, and the `start_testcase` handshake. **Done.**
6. `Runner` + `MCRunner`: `run` over two cases on shared ports with
   lingering monitor threads, composing 3-5. **Done** for the exit status.
   Still open:
   * a liveness check of the whole program under device fairness (the
     liveness search is too slow at the current bounds);
   * the lingering monitor (l. 103, 216): a readline that gives up 0.25s
     after it starts needs time in the model (a tick per empty read, with
     the device's output bounded in ticks) before a property about it says
     anything about the code.
7. `FontBitmap` + `FontTable` + `MCFontBitmap`: the font converter step by
   step, and the abstract table it is shown to implement. **Done.**
8. `FilterOutput` + `MCFilterOutput`: the log filter. **Done.**
9. `Embed` + `MCEmbed`: the page embedder. **Done.**
10. `CaseVerdict`: the abstract case (start, then one atomic verdict, the
   worst participating result). `TestCaseRun` is shown to refine it under a
   mapping of `orch` and the monitors' slots. The `max()` TypeError is the
   abstract `Raise`. **Done.**
11. Partial lines (`MaySplit`): a `:PASS` that arrives without its
   terminator is read as a non-verdict line, and the case times out as
   Cancelled. `PassingCaseNeverFails` shows this never turns into a
   failure. **Done.**

## 3. Modules and how they map to the code

* **TestResult.tla**: `Results` are records `[status, message]`, and the
  message is a tag naming the constructor call. `PyMaxRaises(x, y)` is
  `x = None`. `PyMax` keeps `x` unless `y` is a result with a higher status
  (l. 159-163 with l. 116).
* **TestDevice.tla**: `dev[e]` is where the firmware is (`boot`, `listing`,
  `idle` at the prompt, `running`, `passed`, `failed`). `logs[e]` counts the
  log lines of the running case. `port[e]` is the receive buffer, a sequence
  of `[body, eol]` lines, and `portTimeout[e]` is the port's shared `timeout`
  attribute.
  * `DevLog`, `DevVerdict` and `DevCrash` are the steps of a running case.
  * `DevBanner` and `DevList` are the boot output. A device that never boots
    simply never takes them.
  * `DevResetPulse` is the DTR/RTS pulse together with `flushInput`.
  * `DevCommand` is what the device does with a written command: it runs
    the case if it sits at its prompt, and loses the command otherwise.
  * With `MaySplit`, a line may arrive as its text without a terminator and
    then a bare terminator. This is what `readline` returns when the device
    stalls 0.25s before the end of the line.
* **TestMonitor.tla**: `mon[m]` is the monitor object together with its
  thread's program counter.
  * The thread's steps:
    * `MonStart` (l. 190-193);
    * `MonLoop`, the `while` test (l. 195);
    * `MonRead`, readline and classification (l. 196-209);
    * `MonFinal` (l. 210-213);
    * `MonFinally` (l. 215-216).
  * `Tick` is the 60s deadline passing, and `Cancel` is l. 181-182.
  * `stop` is a history field: why the `while` loop ended. `MonFinal`
    decides the result from a second read of `_cancelled`, and `stop`
    records what the first read saw.
  * With a `None` timeout, `MonRead` on an empty buffer blocks.
  * `Classify` tests the line before stripping. `EndsWithPass` needs the
    `\r\n`, and `IsBanner` needs it absent, as `line == TESTRUNNER_BANNER`
    does.
* **TestCaseRun.tla**: `orch` is the main thread inside `TestCase.run` for
  case `orch.case`. `Mon(e)` is `mon_a`/`mon_b`, the monitor
  `<<orch.case, e>>`.
  * `RunStartA`/`RunStartB` take the net effect of `start_testcase`. The
    handshake itself is in `TestEnvironment` and is composed in `Runner`.
  * `RunCheckA`/`RunCheckB` are the break test (l. 96).
  * `RunFailA`/`RunFailB` are the two `try` blocks (l. 100-111).
  * `RunMaxA`/`RunMaxB` read the two operands of `max` (l. 116).
  * `paired` is chosen in `CaseInit`, so one run covers solo and dual cases.
  * `Poll` groups the actions that come after the monitors are started, so
    that `Runner` can reuse them.
  * `Verdict` maps the case onto **CaseVerdict.tla**, the abstract
    specification of a case. It has two parts:
    * The abstract case: the monitors start, each reports one result at
      most once, and one step takes the verdict. That step comes once all
      have reported or one has failed. The verdict is the worse result, A's
      on a tie.
    * The mapping: `started` is the monitors not `idle`, and `result` is
      their slots. The decision is the step that records `res`.
    The abstract spec has one other way out, `Raise`: a decision taken
    while A has not reported, where `max()` raises. In the detailed model
    that is `RunMaxA` reading None as the first operand.
* **TestEnvironment.tla**: `host` is the main thread inside one call of
  `get_testlist` or `start_testcase`.
  * `ResetPulse` is one iteration of `reset`'s loop (l. 231-236).
  * `WaitLineStart`, `WaitLineRead` and `WaitLineEnd` are `wait_line`
    (l. 354-375): set the timeout, read and match, then the `finally`.
  * `WaitLineEnd` also holds the caller's branch on the result. For `reset`
    that is return, retry or give up (l. 237-243). For `get_testlist` it is
    return or raise (l. 259-260). For `start_testcase` it is write or raise
    (l. 270-271).
  * `WriteCommand` is l. 272-273.
  * `EnvSpec` is `main` on one environment: `get_testlist`, then the first
    `start_testcase`. The device may start out running or at its prompt,
    with stale output in the buffer.
* **Runner.tla**: `rpc`, `caseIdx`, `counts`, `failures`, `envB` and
  `exitCode` are the state of `run` and `main`.
  * `SkipCase` and `EnterRun` are the loop body's branches (l. 21-27).
  * `CallStart`, `Handshake`, `StartReturns` and `StartRaises` are a
    `start_testcase` call, made of `TestEnvironment`'s steps.
  * `CasePoll` is `TestCaseRun`'s `Poll`.
  * `RecordResult` and `Tally` are l. 28-30.
  * `CaseRaises` is the uncaught TypeError (exit 1).
  * `RunReturns` is `return failures == 0` with `sys.exit` (l. 37, 69).
  * `ProcessExited` is the interpreter waiting for its non-daemon monitor
    threads.
  * Monitors are indexed by (case, environment) and never reset, so the
    monitors of case 1 keep running during case 2.
  * The model starts after `get_testlist` has returned. Both devices are at
    their prompts and the buffers are empty.
* **FontBitmap.tla** (`create_font.py`): `pc` is the program counter of
  `main` and `gen_char`.
  * `CheckRange` is l. 53-54, `DrawGlyph` l. 57-60 (any 1-bit image of the
    font's size), `GlyphDone` the result record and `chars.append`, and
    `Render` the template.
  * `RowStart`/`RowEnd`, `ByteStart`/`ByteEnd` and `BitStep` are the three
    loops of `gen_char`, one step per pixel (l. 22-41). Bitwise `|` and
    `shiftR` are `byte |= 1` and `byte >> 1`.
  * `Table` is the refinement mapping onto **FontTable.tla**. There a glyph
    is drawn, converted into `Bitmap(image)` in one step, and entered in
    the table at the offset where the earlier glyphs' bytes end. The
    bitmap format is stated there directly (`PackMSB`): pixel x is bit
    7 - x % 8 of byte x div 8. In the mapping, the drawn image exists while
    `gen_char` runs, and its bitmap exists once the last row is appended.
* **FilterOutput.tla** (`filteroutput.py`): `pc` is `main`'s position.
  `echo` is the terminal's ECHO flag and `oldAttr` is `old_attr`, or
  `Unbound` when the assignment never ran.
  * `FindElfFile`/`FindElf` are l. 23-35 and 58-62.
  * `OpenSerial` is l. 64-71, and `DisableEcho` l. 73-83, including the
    swallowed `termios.error`.
  * `ReadLine` and `EndOfInput` are l. 86-90. `FindAddrs` is
    `re.finditer(RE_EXECADDR, line, re.IGNORECASE)` over a line of
    one-character strings: leftmost match, the `(0x)?` group tried first,
    then the scan resumes after the match.
  * `LookUp` and `LineDone` are the `for` loop over the matches; addr2line
    may answer or fail with CalledProcessError. `Interrupt` is Ctrl-C.
  * `Finally` is l. 99-102.
* **Embed.tla** (`embed.py`): a file is a sequence of tokens: characters, a
  one-line template tag, or a part header.
  * `Substitute` and `HeaderPositions` are l. 8-10.
  * `NoParts` is the error return (l. 11-13).
  * `PairStep` is one iteration of the `zip` loop, `LastPart` the last part
    (l. 22-35), and `PrintResult` is `main`'s print.
  * `ProcessPart` is `process_part`: split on new lines, drop blank lines,
    escape `"` and quote.
  * `Sections` (the parts stated by a recursive scan) and `CString` (how a
    C compiler reads a literal) are the references the properties use.

## 4. Runs

| Run | Config | Expect | What it shows |
|---|---|---|---|
| `case_run` | `MCTestCaseRun.cfg` | pass | `CaseTypeOK`, `PassingCaseNeverFails`, `CaseTermination` and `CaseVerdictRefined` over about 620k states. It covers every device outcome (pass, fail, crash, hang, log line, verdict line split by a readline timeout) and every interleaving. The polling loop implements `CaseVerdict`'s atomic decision, so no failure is masked and no stale read decides. A case whose devices all printed PASS is never a failure. The main thread and every monitor thread end. |
| `case_run_typeerror` | `MCTestCaseRun_NoUncaughtTypeError.cfg` | violation | B fails while A runs, and `max(None, result_b)` raises TypeError. |
| `case_run_crash` | `MCTestCaseRun_CrashedCaseFails.cfg` | violation | The device reboots mid-test. The monitor reads the banner with its `\r\n`, misses it, times out and reports Cancelled, which is not a failure. |
| `case_run_timeout_race` | `MCTestCaseRun_TimeoutResultMatchesCause.cfg` | violation | B's loop ends on its deadline. A fails, and the polling loop cancels B before B reads `_cancelled` again. B then reports Error("Test timed out"), and the case becomes Error, not Failed. |
| `env_session` | `MCTestEnvironment.cfg` | pass | `EnvTypeOK`, `CommandAtPrompt` and `EnvTermination`. The device may boot late or never, and stale output may sit in the buffer. The command is still only ever written to a device at its prompt, and `get_testlist`/`start_testcase` always return or raise. |
| `env_reset_gives_up` | `MCTestEnvironment_ResetReturnsOnlyAfterBanner.cfg` | violation | After 10 resets without a banner, `reset` returns normally and the caller goes on waiting for a list or prompt. |
| `runner` | `MCRunner.cfg` | pass | `RunnerTypeOK` and `ExitStatusSound` over 1.7M states. A dual case then a solo case run in solo or dual mode, with monitors left running from the previous case. The exit status is 0 exactly when every case ran and none was tallied Failed or Errored. A failure is never overwritten by a later pass, and an exception never exits 0. |
| `font_bitmap` | `MCFontBitmap.cfg` | pass | `FontTypeOK` and `FontTableRefined` over 290k states. Every glyph image of a 9x1 font (two bytes a row, seven padding bits) and a 3x2 font (two rows) goes through the pixel loop. The converter implements `FontTable`: each glyph's bytes and picture are its bitmap, and the offsets tile the table. Every byte fits a `uint8_t`. |
| `filter_output` | `MCFilterOutput.cfg` | pass | `FilterTypeOK` and `EchoRestored`. This covers every `--elf`/`--port` choice, stdin a terminal or not, and up to three of six sample lines. However the filter ends (end of input, Ctrl-C, addr2line failing, a bad ELF), the terminal's echo is as it was at start. |
| `embed` | `MCEmbed.cfg` | pass | `EmbedTypeOK` and `PartsPartition` over every file of up to five tokens (316k states). The declarations are exactly the parts, in order, lower-cased, with their non-blank lines. |
| `embed_escape` | `MCEmbed_EscapeRoundTrip.cfg` | violation | A part line ending in a backslash: its literal's closing quote is escaped, so the C literal never ends. |

**Bounds.**
* Two environments: the program supports at most two.
* `MaxLog = 1` log line per device in `case_run` and `env_session`. That is
  enough for a non-verdict line to be read before the verdict and for an
  empty read to happen in between.
* `RESET_RETRIES = 10` in `env_session`, as in the code. The retry loop
  is cheap because there is a single environment.
* The Runner runs use two cases, `MaxLog = 0`, whole lines and one reset
  attempt per call, which keeps the composition near 1.7M states. Two cases
  are the fewest in which a monitor can outlive its case. Every exit path
  (normal, TestRunnerError, TypeError) and the Skipped branch are reached.
* The font run has two glyphs (`--first` 1 or 2, `--last` 2; `--first` 2
  is the rejected one-character range) of every image of two sizes. Width
  9 gives two bytes a row and seven padding bits, and 3x2 gives two rows.
  The offsets depend on `--first` only through the index, so two glyphs
  and two values of `--first` show a tiling error.
  The padding bits are where the guard `idx < im.size[0]` (l. 31) matters:
  with `<=`, the 3x2 font would read the next row's first pixel, and the
  last row of either would be read past its end. TLC stops on that
  out-of-range read, the counterpart of Python's IndexError.
* The filter's sample lines are an SDK exception address, an upper-case
  `0X` address, a bare address, a word of non-hex letters, two addresses
  back to back, and a line with near misses. The scan is exact; the lines
  are what it is run on.
* The embed run enumerates every file of up to five tokens over six
  characters, two tags and two part names, one of them upper-case.
* The violation runs use the smallest settings that already fail.

**Fairness.**
* Weak fairness on the main thread, on each monitor thread and on each
  monitor's deadline (`Clock`): threads get scheduled, and wall-clock time
  passes.
* No fairness on the devices: a hung test case may print nothing forever,
  a device may never boot, and the program has to cope with both.
* The three tools are sequential programs that end, so their runs have no
  fairness and disable deadlock checking: the final state is their exit.
* The Runner run disables deadlock checking: the process exit is a final
  state, and a `wait_line` whose timeout a lingering monitor cleared blocks
  for good in the model (see Timeouts).

## 5. Findings

See `findings` in PROJECT.json. In short:
1. TypeError from `max(None, result)` when B fails first (l. 116). The
   traceback exits with status 1, not 2.
2. A crash and reboot during a test is not detected (l. 207), and the case
   is counted as a success.
3. The `raise` after `continue` in `reset` is dead (l. 243). Ten failed
   resets are silently accepted.
4. `_cancelled` is read twice (l. 195, l. 207). A cancel() between the
   reads turns a timeout (Cancelled) into Error, against spec 4.4.
5. `embed.py` escapes `"` but not `\` (l. 17). A trailing backslash
   breaks the C literal, and a `\n` in the page's script becomes a new
   line.

Defects seen while modelling that no run keeps, because one plain run of
the tool shows them:
* `filteroutput.py` on a stdin that is not a terminal (a piped log) ends
  in UnboundLocalError at l. 102. `old_attr` is never assigned when
  `tcgetattr` fails (l. 78-83). The model reaches this as `Finally` with
  `oldAttr = Unbound`.
* Its `RE_EXECADDR` (l. 21) matches non-hex letters (`[a-z]`), and under
  `re.IGNORECASE` it matches a `0X` prefix, to which l. 93 adds another
  `0x`. addr2line then gets arguments that are not hex.
* `embed.py` with no part header prints an error and then `None`, and exits
  0 (l. 12-13, 41).
* A `:PASS` line read in two pieces (the device stalls before `\r\n`) is
  not recognised (l. 201). The case waits out its 60s and is tallied
  Cancelled instead of Passed. The exit status is unchanged, as
  `PassingCaseNeverFails` shows, so only the tally is wrong.
* A test case that hangs, or whose verdict is missed, ends Cancelled, and
  Cancelled is not a failure. The exit status is then 0, although spec 6
  says 0 means every executed case passed or was skipped. `ExitStatusSound`
  states the code's rule, that Failed and Error make the exit status 1.
* `server.py` uses `request` without importing it, so every POST
  `/settings` raises NameError.

## 6. Not modelled

* Flashing (`make flash` in a subprocess) and argument parsing.
* The A/B list comparison (`TestCase.__eq__`), `--list` and the test-case
  filter. These work on immutable lists before any thread starts. In the
  runs both environments have the same list, so the comparison would always
  pass, and the filter only picks which cases `run` is given. The Runner
  runs already range over those case lists.
* Verbose printing, the text of messages, and the transcript (`output`).
* `server.py`, a Flask mock of the wifi_config page. It has three
  stateless handlers that render a template, with no state or ordering to
  check.
* The PBKDF examples (`pbkdf_pkcs12.py`). They are straight-line calls into
  wolfSSL's key derivation: cryptography in C, with no control to check.
* In `create_font.py`: the PIL font and drawing (a glyph is any 1-bit
  image), the jinja2 rendering, and `clean_str`, which only shapes names in
  the output text.
* In `filteroutput.py`: the printing, and addr2line's own parsing (it may
  answer or fail).
* In `embed.py`: a template tag spanning lines. `.*?` without DOTALL
  leaves such a tag in place, and a tag is one token in the model.

None of these changes state that the runner's threads share, or that the
tools' properties are about.
