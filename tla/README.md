# Verification of the Aspera API examples

TLA+ modules, TLC configurations and TLAPS proofs about the programs of this repository: the
`TransferClient` classes that drive a transfer daemon in eight languages, the `ascmd` helpers that
manage files on a server, the `Rest` classes that hold the credentials of the API calls, the example
programs that send packages, the search of the last line of a log, and the web application.

    cd tla
    tlc -workers 2 -config TransferClient_one.cfg MCTransferClient     # any run of the table below
    tlapm TransferClient_proofs.tla                # the proofs; likewise the other *_proofs modules

`PROJECT.json` lists components, runs, mutants, hazards and theorems, and for every definition the
lines of source it models.

## 1. The system

The repository teaches the IBM Aspera APIs by examples. Its logic is in a few helpers, written once
for each language; the examples are short sequences of calls to them.

| Part | State | Operations | What is hard |
|---|---|---|---|
| `TransferClient` (8 languages, `app/*/src/utils`) | port, daemon process, gRPC service | start the daemon, find its port in the log, connect, start a transfer, wait for it, shut down | a second process that is slow, exits, dies or is not one's own; a log shared with earlier daemons; failures in the middle of a startup; waits that must end |
| `transferd` (external) | process, port, log, transfers | bind, log, run transfers | it is what the classes assume, so `Transferd.tla` states it |
| `AsCmd` (Rust, Go; placeholder in JavaScript) | two pipes to `ascmd` | one method for each command | answers carry no number; an agent that dies; two sets of hand-written tables; quoting |
| Web client (`web/src/client/client.ts`) | chosen client, drop area, selection, displayed status | handlers of clicks, drops, SDK events, timers | state tested before an `await` and changed after it; page reloads |
| Web server (`web/src/server/server.ts`) | none, but for its shutdown | `/api/config`, `/api/tspec`, `/api/shutdown` | stopping with requests under way |
| `Rest` (8 languages) | authentication data, authorization header | set credentials, bearer data or a scope; ask for a token; create, read, update, delete | a token that expires, two clocks, credentials set a second time, answers that are lost or cannot be read |
| `Configuration` (8 languages) | the YAML file, read once | look up, files to send, last line of the log | reading a log that is being written; settings found missing when something was already done |
| API examples (AoC, Faspex 5, server; Node, Shares, COS) | packages and folders on the servers; a session that is kept open | sequences of HTTP calls and a transfer; files added to a session by a timer | a failure between two calls, a program that is run again; recipients told too early; a lock that never comes |
| OpenAPI files, documentation site, build files, FASP Manager helper | – | – | no state of a running program |

How they interact. An example makes a `Configuration` and a `TransferClient`. The client writes
`transferd.conf`, spawns `transferd`, sleeps a second or two, looks whether the process has exited,
reads the port in the last line of the log when it had asked for port 0, and opens a gRPC channel.
The daemon, its log and its port outlive the object when nobody stops it, so programs that follow
one another, or run side by side, meet each other's daemons: this is the shared state of the system.
`AsCmd` spawns `ascmd` (or runs it over SSH) and exchanges lines and TLVs with it. The web page
asks its server for a transfer specification and hands it to the SDK.

What makes each part correct:

* TransferClient: a wait tells what happened to the transfer; a transfer runs on the daemon the
  program started; no daemon is started twice or left behind; every call comes back.
* AsCmd: the answer that is decoded belongs to the command; what `ascmd` did is what is reported;
  the two decoders agree; a path of one line arrives as it is displayed; no caller and no `ascmd` waits for ever.
* Rest: a call acts for whom the program said last; a refused call can be helped by a new token; no
  token mixes two accounts; what the server did is not reported as failed.
* Examples: a program that ends well has delivered its files, once, to the place that is configured; no
  recipient is told of a package that stays empty.
* Persistent upload: a session that completes has sent every file, whole; the lock that lets it complete comes.
* `last_file_line`: the line that is found was the last one of the log at one moment, whole.
* Web: what is shown is what is the case once nothing is under way; what the user chose is what is
  used; the server stops when told to.

## 2. Modules

| Module | Models | Composed with |
|---|---|---|
| `Transferd` | environment: processes, ports, the last line of the log, transfers | extended by the two below |
| `TransferClient` | the Rust class, several programs at a time | `Transferd` |
| `MCTransferClient` | instance for TLC, symmetry | `TransferClient` |
| `TransferJobs` | abstract promise: a verdict is the daemon's | implemented by `TransferClient`, and by C++ and JavaScript in `ClientLibrary` |
| `TransferClient_proofs` | theorems | `TransferClient`, `TLAPS` |
| `ClientLibrary`, `ClientLibrary_proofs` | the classes of Go, Python, Ruby, C#, C++, Java and JavaScript | `Transferd` |
| `AscmdSession`, `AscmdSession_proofs` | the session: both helpers, the example, `ascmd` | – |
| `AscmdResults` | the TLV decoders of both helpers, all results | – |
| `AscmdArguments` | quoting in both helpers, reading in `ascmd` | – |
| `LastLine` | `last_file_line` of Rust, Python, Go, Java and C++, and the log that grows | – |
| `ByteStreams`, `ByteStreams_proofs` | the three above, one per behaviour | `AscmdArguments`, `AscmdResults`, `LastLine` |
| `ApiSession`, `ApiSession_proofs` | the `Rest` class of the eight languages, the server, two clocks | – |
| `PackageExamples`, `PackageExamples_proofs` | thirteen programs that send files through AoC, Faspex 5 or SSH | `TransferJobs` |
| `PersistentUpload`, `PersistentUpload_proofs` | the upload of Java that adds files to an open session: main thread, timer, session | – |
| `ExamplePrograms` | the two above for TLC, symmetry | `PackageExamples`, `PersistentUpload` |
| `WebApp`, `WebApp_proofs` | page, SDK, server | – |

**Transferd.** A process is `none`, `starting`, `listening` or `dead`. Binding a port and dying are
steps of their own, so a client may look before or after them. `last_line` is the port that the last
line of the log shows, if it shows one: it survives processes and is written by all of them. One
daemon may be there from the start, left by an earlier program or started by hand.

**TransferClient.** `pc` cuts each method where the daemon, or another program, can act: between
spawn, sleep and `try_wait`, reading the log, connecting, `get_info`, the request, its answer, the
rounds of the wait. The fields of the struct are variables of the same names; a gRPC channel is the
port it leads to, because it reconnects to whoever listens there. A client that fails keeps exactly
the fields the code has set by then. `Killed` is a program that ends without `Drop`. Two variables
are history, to say under which circumstances a property is promised: `unclean` (a startup failed or
the program was killed) and `late` (a daemon had not bound its port when the sleep was over).

**ClientLibrary.** The other classes follow one procedure and differ in small decisions, so one record
per class names the decisions (is startup guarded by a test, which errors are noticed, when is the
process remembered, which answers end a wait and how, what does shutdown forget) and the steps of the
procedure read it. Each decision is one a property depends on. Under Ruby, a shutdown after the process
was reaped raises; the model lets it forget that process, which changes nothing the properties see. A port
that Ruby reads from the log stays a text (`as_text`), so a second startup of the object raises at `zero?`, with
its new process remembered.
For Python `shell=True` leaves open whether the signal reaches the daemon or the shell. The methods of
JavaScript take callbacks: the procedure is the order in which these are called, an error that is thrown in
one is not caught by anybody and ends the program with its daemon left behind (`Uncaught`), and Ctrl-C
is handled (`Interrupt`).

**AscmdSession** keeps whether `ascmd` was greeted, the lines and answers under way and the last result
handed to the caller. A result is its tag. A path is one line, or (`MultiLine`) two, since neither
helper does anything about a newline. **AscmdResults** transcribes both sets of tables, the values an object has
before its first field (`RustPreset`, `GoPreset`: the protocol of an `Info` is 1 in Rust and 0 in Go) and the
decoding loops, and compares the results on every short stream of TLVs, whole or cut, with fields that
have the expected width or another one. `SameMeaning` names four answers that do not mean the same to both.
**AscmdArguments** has the two orders of the replacements and the reading of a line by `ascmd`, as the protocol
description at the top of `server.rs` gives it. Six kinds of characters are told apart: quote, backslash, blank,
newline (which ends a command wherever it is), bytes that are not UTF-8 (`Path::display` replaces them), and the
others. **LastLine** reads a
log byte by byte from its end, as five of the classes do (the others read the whole file), and the log grows by
any piece between any two bytes read. In `TransferClient` and `ClientLibrary` this reading is one step; that
it may be is what `ReadsLastLine` says. **ByteStreams** puts the three side by side, one per behaviour, because
each is about one stream.

In `AscmdSession`, a client that has sent `exit` waits for the process with its pipes open (`WaitProcess`); one
that gives up closes them (`Close`), as both examples do when a command fails. A session over SSH sends
the end of its input first (`SendEof`), one with a local `ascmd` does not.

**ApiSession** has, like `ClientLibrary`, one record per class for what its `Rest` decides by itself: whether
a second `Authorization` header replaces the first (`HashMap` and dictionary assignment), is refused (C#:
`Add`) or is dropped (C++: `insert`); whether bearer data are forgotten with basic authentication, or
added to earlier ones (Java: `putAll`); whether the organisation is sent (C#: only for some client ids; Go:
never); whether the request of a token carries the client's credentials (not in JavaScript, whose
HTTP library has no option `auth`); whether the program ends when no token is had (Go: `log.Fatalf`); which
answers a call cannot read. `auth` and `header` are the two fields; Rust keeps a password in
`auth` and writes the header for each call. `wanted` and `done` are history: the credentials the program
believes it uses, and those the server took. A token names its account and the minute at which it
ends. Time is counted in minutes because the two constants of the claims are one and ten of them. The
data given to an object are complete, as in the examples; that some classes check this is left out.

**PackageExamples.** A program is the list of its steps (`Steps`), taken from its source in order; `todo` is what is
left of it. Any step may fail, by an error or by an answer that lacks what is looked for, and ends the run; but Go
does not look at the error of its transfer, and goes on when that cannot be started (`NotStarted`).
`Create` makes a package, or an upload to a folder, on the server; `CreateLost` makes it and the program does
not learn it. What one program announces at once and another one later, and which files are checked where
(`Checked`), differ by program. The transfer is that of `TransferJobs`, with the verdicts that the class of its
language gives (`Satisfied`). The settings `trsdk.level` and `trsdk.ascp_level`, as one (`ascp_level`), are looked up
when the daemon is started: with the transfer, after the package was created, but in Python and `ruby_aoc`, which
start it first (`StartAtOnce`). The search for a workspace may find several, because what the parameter `q` of
the API matches is not for the code to say: a program takes the first answer and looks for its inbox in it
(`named`, `inboxes`). `Rerun` is a user who runs a program that failed again. The number of times a
specification lists the files (`files`) is all that is kept of it.

**PersistentUpload** has two threads and a daemon. The task of the timer goes from one call, or one write, to the
next (`timer`), while the daemon sends what was added so far. An `IOException` is caught and ends one task only;
whatever else a call throws ends the thread of the timer, of which the main thread learns nothing. `unwritten`
is history. That thread is a daemon thread, so it ends with the main thread (`Runs`). **ExamplePrograms** has the
programs that send packages and this one side by side, one per behaviour.

**WebApp.** An action runs from one suspension to the next. `waiting` counts the suspended activities by the
place where they wait; they resume in any order. `Reload` is `window.location.reload`, which ends all
of them and keeps only the session storage.

## 3. Runs

| Run | Instance | Shows |
|---|---|---|
| `rust_one` | 1 program, 2 daemons, 2 ports, port 0 or fixed, crashes, fair | types; a clean program uses its own daemon, starts one only and leaves none; calls return |
| `rust_two` | 2 programs, 2 daemons, 2 ports, crashes | verdicts are honest with another daemon on the port; refinement of `TransferJobs` |
| `rust_stale` (violation) | 1 program, no crash | with port 0 and a slow daemon, the client connects to an earlier daemon |
| `classes` | seven classes, 2 daemons, 2 ports, crashes, fair | each promise for the classes that keep it |
| `cpp_probe` (violation) | C++, fixed port, no crash | the exit of the daemon is not noticed: `kill(pid, 0)` finds the zombie |
| `ascmd_rust` | 4 commands, 2 paths, protocol 2, ascmd may die, fair | answers in step; results reported as they are; no one waits for ever |
| `ascmd_go_info` (violation) | protocol 1, ascmd works | `Info()` of Go refuses every answer |
| `byte_streams` | 2 paths of up to 3 characters of any of the six kinds; all results, up to 2 fields of any tag from 0 to 18; logs of up to 6 bytes | paths of one line arrive as they are displayed with the Rust order of replacements, and a path of two lines leaves a second command; Rust and Go decode alike, but for four named answers; Go refuses an answer that was cut; the last line is read while the log grows |
| `ascmd_go_arguments` (violation) | 1 path | a path of one line does not arrive with the Go order |
| `web` | 3 clients, 1 file, 1 transfer, 3 status changes, 2 loads | status, drop area, choice and transfer are right when all is quiet; the server exits |
| `api` | eight classes, 2 accounts (one has an organisation), 4 minutes, clocks 10 behind to 2 ahead | calls act with the credentials set last; asking for another token helps; claims name one account; they are valid for a clock that is off by no more than the code allows; what was done is not reported as failed |
| `packages` | thirteen programs, 2 workspaces, 2 deliveries, one setting missing or none; the persistent session, up to 3 files | who succeeds has delivered, to the right place; failing and running again delivers once; nobody is told of a package without files, but by C# and, if the list of files is missing, Java; what a missing setting leaves behind; a session that completes has sent every file, and its lock comes |

Which class keeps which promise (`classes`, and the Rust runs). "no" marks what the code does not
promise or does wrong; a property leaves these classes out by name.

| | Rust | Go | Python | Ruby | C# | C++ | Java | JavaScript |
|---|---|---|---|---|---|---|---|---|
| success means completed | yes | yes | no: or the stream ended | no: same | or failed | yes | no: or failed, or ended | yes |
| an error means failed or dead | yes | no: or the stream ended | yes | yes | yes | yes | yes | yes |
| runs on its own daemon (*) | yes | no: an exit is never noticed | yes | yes | yes | no: same | yes | no: does not look |
| no daemon forgotten (*) | yes | yes | no: may kill the shell | yes, but a second startup may fail | yes | yes | yes, but a second startup fails | no: spawns each time |
| no request after a shutdown without a new startup | no | no | no | yes | yes | yes | no | no |
| calls return | yes | yes | yes | yes | no: unknown transfers | yes | no: same | no: the stream may end |

(*) unless a startup failed; the first of the two, unless a daemon was slower than the sleep.

What the `Rest` classes promise (`api`); "no" as above.

| | Python, Ruby | JavaScript | Go | Java | C# | C++ | Rust |
|---|---|---|---|---|---|---|---|
| acts with the credentials set last | yes | yes | yes | yes | yes: or raises | no: the first | no: two headers |
| a new token helps | yes | yes | yes | yes | yes: in a new object | no: the first stays | no: two headers |
| claims of one account | yes | yes | yes | no: keeps the organisation | yes | yes | yes |
| a token is granted within the offsets | yes | no: may lack credentials | yes | yes | yes | yes | yes |
| what was done is not reported as failed | yes | yes | no: lists | no: empty answers | yes | yes | yes |

What the programs of `packages` promise, but for these: C# announces before it sends and takes the first contact
for the recipient; Go does not look at the result of the transfer, Python and Ruby take the end of the stream,
C# and Java also a failed transfer, for success; the Rust program for Aspera on Cloud looks for its inbox in
no workspace; JavaScript, Java and C# leave a package behind when the list of files is missing, Java and Python
when the shared folder is, and all but Python and `ruby_aoc` when a level of the logs is. Each exception is named in the
property it is taken out of.

**Bounds.** Two daemons are the least with which a client can meet one that is not its own, a restart can happen
and a port can be taken; two ports let a daemon choose, or be elsewhere than the log says. One transfer is
enough for verdicts: what is told of a transfer depends on it and its host only. Two programs share the log, the
ports and the daemons in every way two can; the theorems remove the bound. Four commands suffice in a session
for one to be answered for another, and the theorem removes that bound. Two fields per answer show what a field
does to the next one. Three characters hold every pair of special ones and its successor. `MaxChanges = 3`
allows a status to be left and come back, `MaxLoads = 2` a change of client, `MaxWaiting = 2` two refreshes that
overtake each other. In `api`, two accounts of which one has an organisation show every mixture of two; a token
that lasts one minute expires, is renewed and expires again in four; the clock is off by nothing, by the offset
of the claims, by one minute more (refused), and by their whole validity (granted at once, refused a minute
later). In `packages`, two workspaces let a name belong to none, one or several, and an inbox lie in another
one; two deliveries are what a second run needs, and the programs with two parts. Settings are missing one at a
time, since the first that is missing ends the run. In `byte_streams`, six bytes (`MaxLog`) hold a line, its end
and another line that is written while the first is read. `EveryPathArrives`, `HelpersAgree`, `CutIsRefused` and
`LastLineIsRead` remove the bounds on paths, fields and logs, `OneDelivery` and its neighbours those on
workspaces and deliveries. Three files (`MaxFiles`) are a first, a middle and a last one; `EveryFileSent`
removes that bound. The largest runs have 1,077,175 (`byte_streams`), 852,293 (`packages`) and 597,285 (`classes`)
distinct states.

**Deadlock** is checked where the system goes on: there is always a program to be run again. It is not in
`AscmdSession` (a session ends), `ByteStreams` and `AscmdArguments` (the input ends), `ExamplePrograms` (a program
that succeeds is not run again) and `WebApp` (the page may be broken, the bounds used up).

**Fairness.** `EnvFairness`: a process that was spawned binds its port or exits, and the transfers of a live
daemon end, as `ascp` finishes or its retries run out. `WF(Step)` of a client: threads are scheduled and
sleeps end; nothing is assumed about what the program calls, and crashes are never forced.
`AscmdSession`: the client reads what it waits for, and waits for the process; nothing obliges it to send the end
of its input, which a local session does not do; `ascmd` answers unless it dies. `WebApp`: promises
settle and timers fire (an event loop runs what is due), the Node API answers or fails, and a server
that is stopping goes on with it; users are under no obligation.

## 4. Proofs

Assumptions: the named `ASSUME`s of the modules (`None` and `AnyPort` are not ports, daemons or transfers, and
`None` no workspace, delivery, setting or package; `MultiLine` paths are paths; a page is loaded at least once;
offsets and `MaxFiles` are numbers), which TLC evaluates in the runs. The constants are otherwise arbitrary: any
number of programs, daemons, ports, transfers, commands, accounts, clients, clicks, workspaces, deliveries,
fields, files, bytes. Every theorem is listed in `PROJECT.json` with the property it proves.

**`TransferClient_proofs`**

* `Typing`: `TypeOK` is inductive. The one step that needs a thought is connecting: a port that
  somebody serves is a real one.
* `HonestVerdicts` (and `FailuresHonest`, its second half): a verdict is about `host[t]`, what the client sees comes
  from whoever listens on its port. `VerdictInv` ties them: a transfer that was accepted has a host that bound a
  port, and while that host lives it is at the end of the channel of every client that holds the transfer.
  Hence an answer that is not an error comes from the host, or the host is dead (`AnswerFromHost`).
  Neither verdict property is inductive without it.
* `NoDaemonLost` (and `NoneLeftRunning`): a program with clean startups owns no daemon before its first spawn, then
  the one in `child`, then the one in `daemon_process`; and as `transfer_service` is never taken back, it never
  spawns another. (That is also why a program cannot start one again after `daemon_shutdown`.)
* `OwnDaemon`: of a program that is alone on the machine. When its sleep is over and no daemon is still starting, its
  own one is dead or listens on the port asked for, or on the one in the last line of the log (`StartedInv`); a port
  that was taken made it exit, which `try_wait` sees. From there on whoever serves the port the program goes to is
  its own daemon (`ReachInv`). With a second program this is false, and TLC finds the other one's line in the log;
  the theorem assumes `Clients = {me}`, and daemons of earlier runs may be anything.
* `PromiseKept`: each step of `TransferClient` is a step of `TransferJobs` or leaves its variables
  alone, with `up` mapped to the transfers whose host listens. It needs `VerdictInv`.

**`ClientLibrary_proofs`**. The proofs are about the fields of the records; which class has which is read off in one
lemma (`Classes`).

* `LibraryTyping`: types, and that a wait has a transfer (`WaitsInv`), since the wait of a stream opens it at the
  host of the transfer.
* `LibrarySuccess`, `LibraryFailure`: within a run an object knows one port (`PortInv`), the host of the transfer it
  holds keeps that port while it lives, and no two daemons listen on one (`JobInv`, `PortsApart`). So the one asked, or
  heard on the stream, is the host or the host is dead, as in `AnswerFromHost` of the Rust class.
* `LibraryRequests`, `LibraryForgetsNone`: what an object remembers (`ProcessInv`), and where in the procedure a live
  daemon of a clean run may be (`MineInv`: none without a service, the child, the process).
* `LibraryKeepsPromise`: the classes of C++ and JavaScript implement `TransferJobs` too. Most steps change nothing
  it speaks of (`QuietStep`), a process that dies takes its transfers with it (`DiesLosesTransfers`), and a verdict
  is one the promise allows (`VerdictStep`), by the invariant of `LibrarySuccess` and `LibraryFailure`. For the other
  classes it is false: the table of section 3 says why.
* `LibraryOwnDaemon`: the same argument as `OwnDaemon`, for the classes that look whether the child has exited. (One
  program at a time runs in this module.)

**`AscmdSession_proofs`**

* `AnswersInStep`: at most one line or answer is under way, that of the last command, and none
  when the next is written. Assumes that no path has a newline: with one, the property is false.
* `ResultsReported`: for the Rust helper. Needs that the tags a method accepts are those `ascmd` answers its command
  with, for each of the nine; `MultiLine` paths included, since it speaks of the answer that was decoded.
* `SessionTyping`: pipes hold lines and answers of the types that `Write` and `AgentAnswers` put there.

**`ApiSession_proofs`**

* `CallsActAsLastSet`: `ActsAsLastSet` compares the credentials the server took with those set last,
  and is not inductive: a call under way carries the header of the moment it was sent. `CredentialsInv` says that
  the header holds what was set last and nothing else (`HeaderInv`), and that the call under way, and the one
  that was answered, carry no more than that (`CallInv`). That a password is never beside a header is needed
  for the classes that keep it elsewhere. From the class records the proof takes only which of them keep
  a first header (`Traits`).
* `ClaimsAreOfOneAccount`: the bearer data name the account's own organisation or none, because they are
  replaced as a whole; Java, which merges them, is left out by name.
* `ApiTyping`; and `RefusedOnlyWhenExpired`, `MarginsSuffice`, `AnswersAreRead`, which share an invariant: what was
  sent (`SentInv`: with the claims of the minute it was sent in, by the program's clock), what the server can have
  answered to that (`ReplyInv`), and what a method has made of it. Time goes on between the three, so that none of the
  properties follows from the step that returns.

**`WebApp_proofs`**

* `WebTyping`: needs that a counter is above zero when an activity leaves its place (`Counters`).
* `ChosenClientUsed`: a reload takes the choice through the session storage; `ChoiceInv` says for each stage of
  loading where the choice is.
* `AskedIsTransferred`: nothing is handed over for a click that has not happened (`HandedInv`).
* `StatusIsCurrent`, `DropAreaThere`: both properties speak of a quiet page. `StatusInv` and `DropInv` say of a busy
  one that while what is shown is not right, an activity waits that will put it right.

**`ByteStreams_proofs`**. What is proved here is about sequences of any length that are built or read from element to
element. The induction theorems of the library take an operator as a parameter, which no installed prover can
instantiate; `SetInduction` says the same of a set of numbers (a set with 0 that has `n + 1` with `n` has them all),
and follows from the well-foundedness of `<` alone. The replacements and the decoding loops are unfolded by it into
"one element more" (`FlattenOneMore`, `ReplaceGrows`, `LoopRuns`).

* `EveryPathArrives`: although `path_to_arg` makes two passes over a path, what it writes of a path is what it writes
  of each character, one after the other (`EscapeOneMore`); so the front of what is left of the line is what the next
  character of the path has become (`EscapeHead`). A newline is written as it is and ends the command: of a path that
  has one, something is left in the line. The invariant says where `ascmd` is: before path `k + 1`, at its
  quote, within it with `t` of it read and `u` to come, or behind a backslash in it (`Before`, `AtQuote`, `Within`,
  `Escaped`). `PathsArrive` speaks of the end of the line only, and says nothing before it. With the order
  of Go a quote becomes two backslashes and a quote, and this quote ends the argument.
* `HelpersAgree`: both loops are in the same state after each TLV (`SameObject`, for the files of a directory
  `SameFiles`). It needs that the two sets of tables agree entry by entry (`Tables`) and decode the same values
  (`SameDecoding`), and that a mount has begun once a field was taken, since the two loops meet a field without
  a mount at different points. The values an object starts with differ in the protocol of an `Info` only.
* `CutIsRefused`: the loop of Go ends well at a tag 0 only (`NeverOk`).
* `LastLineIsRead`: what was read is, byte by byte, the part of the log between the byte looked at and the end that
  was sought (`ScanInv`), or, for the classes that go forward again, between the start of the line they found and the
  byte looked at (`BackInv`, `ForwardInv`). A log that grows keeps the bytes it had (`GrowsAtTheEnd`).

**`PackageExamples_proofs`**. The lists of steps are looked at once, in `Scripts`: what comes before the creation, what
after it, that the transfer is last. The invariants speak of the position a program has reached in its list (`Pos`,
tied to what is left of it by `TodoInv`), so that no case is made for each suffix of each list.

* `NoPackageIsEmpty`: a program does not get past the step at which what it lacks is noticed (`MissingInv`), and all
  but C# announce a package once its transfer has come (`ExpectedInv`). That this transfer carried files is another
  matter: `FilledInv` says of each position whether the files are listed by then, and that no transfer of a package
  is started without them, but in Java and C# when the list is missing.
* `OneDelivery`: the deliveries of earlier runs, and those of a run that has failed, will never be complete, because their
  transfer was not started or has failed (`RunInv`). `DeliveredOnce` counts complete deliveries, and says nothing of
  one whose transfer still runs when its program fails; the invariant does.
* `ASuccessDelivers`: promises a whole delivery for the programs of Rust and JavaScript and for `cpp_aoc`, whose
  classes take nothing else for the success of a transfer, and the right place for all but `rust_aoc` and
  `csharp_aoc`. Behind each position, what has been announced, added and completed by then (`VerifiedInv`), and that
  what was found and what was made bear the configured name (`FoundInv`).

**`PersistentUpload_proofs`**

* `EveryFileSent`: a file is behind the task or still before it (`Passed`); those behind it were added, and then are
  complete on the disk, or given up (`FilesInv`). The lock is made when none is left before it (`LockInv`), and only a
  locked session completes (`SentInv`); so all files of a completed session are settled. For the second half: when
  the last file is among those that were added, the lock was made, is the next call, or the task has thrown.

Model-checked only: liveness (`CallsReturn`, `CommandsReturn`, `AgentEnds`, `ServerExits`), out of reach of the
prover, as is `ENABLED`. Every other property of the passing runs is stated by a theorem.

## 5. What was found

Four runs end in a violation of something the repository says of itself (`ConnectsToItsDaemon`,
`CppRunsOnOwnDaemon`, `SuccessReported`, `QuotedPathsArrive`); `findings` in `PROJECT.json` quotes each line. Met while
modelling, and documented here and as hazards only:

* a newline in a path makes two commands of one, and every later answer belongs to another command;
* an `Info` that names no protocol has protocol 1 in Rust and 0 in Go;
* Ruby keeps the port it reads from the log as a text: a second startup of the object raises;
* the levels of the logs are looked up when the daemon is started, for most programs after the package was created;
* the Rust `ascmd` decoder accepts an answer that was cut within a field, Go refuses it;
* both `Mounts` decoders panic when a field comes before the first mount;
* Go never notices that its daemon has exited (`ProcessState` is only set by `Wait`), and starts it
  with an old configuration file when writing the new one fails;
* Python's `shutdown` keeps the service; Java starts a second daemon and then refuses the connection;
* C++ goes on with the first credentials it was given, Rust sends a password beside an earlier token, C# raises when
  credentials are set a second time, Java adds bearer data to earlier ones;
* Go reads no answer that is a list, Java none that is empty: the call fails although it was carried out;
* after `daemon_shutdown`, `transfer_start` of Rust asks the dead daemon, although its comment says that it starts one
  if needed: `transfer_service` is never taken back;
* C# announces a package before its files are there, under a comment that says the contrary;
* the Rust program for Aspera on Cloud sends the identifier of the workspace with the quotes of its JSON form;
* JavaScript looks at the list of files after the package was created, Java and C# never do; Java and Python
  look up the shared folder when the remote package is already there;
* the Go program for Faspex 5 ignores the error of its transfer;
* the JavaScript class ends its wait by an event only: a stream that ends leaves the program waiting, and one that
  breaks ends it with its daemon left behind;
* the persistent upload of Java waits for ever when its last file cannot be written, when a call of its timer
  throws, or when `persist_max` is 0: in none of these cases the session is locked (`LockIsComing` names them);
* the streaming upload of Java closes its stream after the first file (`TransferClient.java:315` is inside the loop over
  the files), so that a second one cannot be written;
* C# and Java ask for ever for a transfer that the daemon does not know;
* the web page can create two drop zones, loses files selected while a transfer is being started, and
  loses its launch link when it refreshes.

## 6. Not modelled

The environment is kinder than it may be in two respects, on which the verdicts rest. A transfer is never CANCELED,
PAUSED or ORPHANED: no program here cancels or pauses one, and the loops that ask for a status would not end on
these. And a call that reaches a live daemon is answered: in a wait, an error of gRPC comes from a dead daemon
only, so a passing failure of the connection, which most classes take for the failure of the transfer, is left out.

Several hazards are bounded by the properties rather than caught: a property leaves out, by name, the classes or the
circumstances in which the code does the wrong thing, and says that nothing else does. The notes of these hazards in
`PROJECT.json` say so, and the tables of section 3 and the list of section 5 have the same exceptions.

The encoding of HTTP requests; the examples of Node, Shares and COS, which are one or two calls and a transfer; the
parsing of YAML, the paths of tools and the levels of logs; the Java streaming upload
(`session_start_streaming`, `writeStreamData`), whose promise depends on what `transferd` does with a stream that is
closed, of which the code says nothing; the JavaScript `AsCmd`, a
placeholder; what a transfer specification says beyond its files and direction; logging; encryption; Windows.
`PROJECT.json` gives the reason for each component.

Left to a reader of the code, because a property of them would restate a line: the first field of `Mounts`
(`server.rs:142`, a panic), the `ProcessState` of Go (`transfer_client.go:119`, nil for ever; its effect is in
`ClientLibrary`, where Go does not look), the launch link of `client.ts:294`.

## 7. Plan

Done, in this order: `Transferd`, `TransferClient`, `TransferJobs`; `AscmdSession`, `AscmdResults`, `AscmdArguments`;
`ClientLibrary`, JavaScript last; `WebApp`; `ApiSession`; `LastLine`; `PackageExamples`; `PersistentUpload`; the proofs of
section 4.

Next, to model: the streaming upload (`session_start_streaming` and `writeStreamData` with their observers, two latches
and a timeout), once the behaviour of the daemon is known. Next, to prove: that reading the log
byte by byte, as in `LastLine`, implements the one step of `Transferd` that reads its last line.
