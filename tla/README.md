# A TLA+ model of the S.M.A.R.T. monitor

This directory models the S.M.A.R.T. values monitor (`../src`): a service that
reads the S.M.A.R.T. attributes of the drives of a computer and sends them to
clients, and the client (wxWidgets user interface) that rates and shows them.
The modules are checked with TLC on small instances; what matters most is
proved for all instances with TLAPS. `PROJECT.json` lists for every definition
the lines of code it stands for, for every run its properties, and for every
property a change of the code (a mutant) that the property finds.

Paths below are relative to `src/src/` unless they start with `src/`.

## 1. The system

| part | state it keeps | operations | with whom |
|---|---|---|---|
| service (`service/`) | set of client descriptors, listening socket, flag `s_updateSMARTvalues`, critical section | accept and greet a client, register it, send a round of values, drop broken connections, signal, shut down | update thread, clients, kernel (descriptor numbers) |
| update thread (`SMARTmonitorBase.cpp`) | the flag, a condition with a timeout | read values (directly or from a service), `BeforeWait`, wait, after the loop close the socket | in the service *and* in the client |
| direct access (`libATA_SMART/`, `Windows/SMARTaccess.h`, `SMARTaccessBase.cpp`) | set of drives and their values | open, read, store, close every drive; supported IDs | attribute values, units |
| attribute values (`attributes/SMARTattrVal.cpp`, `SMARTuniqueIDandValues.cpp`) | raw value (up to 16 bytes), time with a check sum, flag "read", normalized values | `setRawVal`, `getRawVal`, `SetRetrievalTime`, `GetRetrievalTime` | storing thread and user interface thread |
| unit detection (`attributes/SMARTuniqueID.hpp`) | per attribute: state, last metric and raw value, estimate and bounds | `guessUnit` | direct access; sent to the client |
| protocol (`tinyxml2/ProcessSMARTdata.cpp`, `service/`, `client/InterProcComm`) | bytes on a connection | a 16 bit length and an XML text: supported IDs, then values | service and client |
| client connection (`client/`, `wxWidgets/ConnectToServerDialog.cpp`, `wxWidgets/wxSMARTmonitorDialog.cpp`) | one socket descriptor, connection state, the guard `GetSMARTvalsAndUpd8UIthreadID`, timers | connect (in a thread), greet, read in a loop, count down and try again, disconnect | event loop, connect threads, update threads |
| rating (`SMARTvalueRater.hpp`) | none | a number from 1 (best) to -1 (worst) for the value of an attribute | status |
| status and icon (`client/SMARTmonitorClient.cpp`, `wxWidgets/wxSMARTmonitorApp.cpp`) | `s_entireSMARTstatus`, the icon | a pass over all attributes, reset at a disconnect | storing thread, event loop |
| selection of attributes (`attributes/SMARTuniqueID.hpp`, `SMARTaccessBase.cpp`, `libATA_SMART/`) | lists of IDs: supported, to observe, to read; lines of the table | intersection, copies of the lists, retrieval with a cursor | configuration, update thread, service and client |
| start (`SMARTmonitorBase.cpp`, `tinyxml2/ConfigLoader.cpp`, `service/service_main.cpp`, `wxWidgets/wxSMARTmonitorApp.cpp`) | options, definitions of attributes, units, connection settings, the message shown | command line, log file, four files in two directories, first access, then serve, connect or read | all of the above, which it sets up |
| formatting, curses user interface, test programs | none of their own | | |

What is hard here: two threads and a signal handler in one process that share
sockets and a critical section, with blocking calls inside it; descriptor
numbers that are given out again; a client whose event loop, connect threads
and update threads share one descriptor without a lock; values stored and read
field by field by two threads; a stream of messages in which position decides
meaning; 16 bit lengths, unsigned differences and percentages at their limits;
lists that end at a 0 and are walked through side by side; files of which a
half is taken before the other half is found to be missing.
`PROJECT.json` lists these hazards with the line where each one bites and the
properties that are about it.

What makes the parts correct: no live client is forgotten and no value goes
anywhere but to a client; a signal ends the service; one thread at a time reads
a connection, and disconnecting and retrying come to an end; a value that is
shown was read, whole; messages arrive whole, in order, and every drive's values
arrive; a value in alarm is rated and shown as a warning; an estimated unit is as
near to the real one as readings allow; what is read is what is both wanted and
supported; the program serves, connects or reads with settings of one file.

## 2. Modules

| module | models | proofs |
|---|---|---|
| `SMARTmonitorService` | main thread, update thread, signal, descriptor table, clients of the service | `SMARTmonitorServiceProofs` |
| `SMARTmonitorClient` | UI thread, connect threads, update threads, dialog and timers, network | `SMARTmonitorClientProofs` |
| `SMARTmonitorProtocol` | one connection by its messages, from the drives to what the client has | `SMARTmonitorProtocolProofs` |
| `SMARTattr` | attribute values between a storing and a reading thread, store by store | `SMARTattrProofs` |
| `SMARTvalueRater` | the ratings, as operators over fractions | |
| `SMARTrating` | one attribute over time and its rating (extends `SMARTvalueRater`) | `SMARTmonitorStatusProofs` |
| `SMARTmonitorStatus` | from stored fields over a pass of ratings to the icon (extends `SMARTvalueRater`) | `SMARTmonitorStatusProofs` |
| `SMARTunit` | unit detection against a drive with a real unit, transmission, what is shown | `SMARTunitProofs` |
| `SMARTids` | the lists of IDs of one drive, their copies, retrieval, lines of the table, service and client | `SMARTidsProofs` |
| `SMARTselection` | what the selection promises; `SMARTids` implements it (`ImplementsSelection`) | `SMARTidsProofs` |
| `SMARTmonitorStart` | start of the service and of the window | `SMARTmonitorStartProofs` |

`MCService`, `MCClient`, ... give TLC the values and symmetries for the runs.

### Service (`SMARTmonitorService`)

`main` and `upd` hold where each thread is and its locals; `fdTable` is the
descriptor table of the process: `open`, `accept` take the lowest free number,
`close` frees it. A step of the model ends where another thread can interfere
with effect: at each system call and each entry or exit of
`m_clientsCriticalSection`. A message is abstracted to its kind and the number
of XML documents in it (the output stream is not emptied between two drives).
A `write` blocks while the buffers of a connection are full and its client is
there, and fails once the client has closed; the descriptor of a broken
connection is forgotten without being closed, so that the table can run full
and `accept` and `open` fail. `main` returns without joining the update thread,
which therefore goes on in the model until the process has ended.

### Client (`SMARTmonitorClient`)

Actions are those of the event loop (handling of posted events, input, timer),
of the connect threads (connected, failed, the second `close` of a failed one),
of the update threads (read, fail, wait, after the loop) and of the network.
`rd` is what each thread that is in `read` reads from. A `close` by another
thread does not end a blocking `read`: it goes on, on a connection that no
number stands for any more (`Orphan`), and a thread that evaluates
`m_socketFileDesc` anew may then read from another connection. A server can close
a connection, or be lost without the client noticing: a comment
(`client/InterProcComm/BSDskt/SMARTmonUI_BSDskt.cpp` 52) reports of a PC that was
shut down and of a service killed with SIGKILL that the read does not return and
that "Disconnecting via "Disconnect" button was impossible". A thread in such a
read is `Stuck`. Closing the connect dialog (`OnCloseWindow`) and an attempt whose
`prepCnnctToSrv` fails, as the host name is not found, stop the timers like a
cancellation: `timer` is "stopped" then.
`PostedFirst` says whether the event loop handles posted events before input and
timers (MS Windows) or only when it is idle (GTK). The debug build is modelled,
in which the greeting is done by the UI thread. External, since their bodies are
not in the repository: the handler of the connect button
(`OnCnnctToSrvOrDiscnnct`), `AfterConnectToServer`, `OnTimer` and
`StartSrvCnnctnAttmptCntDown` of the application, `prepCnnctToSrv`, and the
construction of the connect dialog; they are modelled by how the other code uses
them.

### Attribute values (`SMARTattr`)

A raw value has a lower and an upper part; each remembers the reading it is
from, so that a torn value is one with two different readings. `Wide` and
`rdWide` (any, as it is never assigned) say for which attributes `setRawVal` and `getRawVal` take the critical
section: `setRawVal` by the width it is told, `getRawVal` by the member
`m_numSMARTattrRawValBytes`, which nothing assigns. `Leave()` is called in any
case; by a thread that is not inside, it lets the other one's exclusion go. The
time of retrieval is two longs (a `long` has 4 bytes under MS Windows) and their
exclusive or. The `for` header in `GetRetrievalTime` has a misplaced statement
at this commit and does not parse; the model copies the low long after the read
for the check sum and before the loop, which is what the statement says.
`isConsistent` in `upd8rawAndH_andTime` is taken to be true, and the integers are
Boost's `cpp_int`, which are not stored in one instruction.

### Rating (`SMARTvalueRater`, `SMARTrating`)

Floating point numbers are exact fractions; unsigned differences wrap at
`UintRange`. The divisor of `Get1ToMns1Rng` is the unsigned difference converted
to a `long int` (`SMARTvalueRater.hpp` 55): below the threshold it is negative
again unless a `long` is wider than a `faststUint` (`Wraps`), whose type is in a
library that is not part of the repository. Percentages are bytes, so that more
than 100 % can be used. Cases of `ATA_SMART_own_Rtg` other than the temperature cannot be
reached. `InAlarm` and `Worse` are the reference definitions the ratings are
compared with: a value at or below its threshold, a critical temperature, a
spare at its threshold, a used-up drive, a media error. `RatedGood` and
`OffScale` are the values for which the code does not do what one expects, and the
properties say that these are the only ones.

### Status (`SMARTmonitorStatus`)

One thread stores the fields of each attribute, in the order of the source the
values come from (`Fields`), the other rates attribute after attribute and
compares the summary with the last one. The service sends raw values, times and
units only; normalized values and thresholds of a client then are what memory
held (`Garbage`). The client's bus type, which is not transmitted either, is
taken to be the drive's. A negative raw value from the service resets the flag
"read" and stores nothing else (`Refused`). The run has direct access as its
source: what a client of a service shows depends on memory that was never written.

### Protocol (`SMARTmonitorProtocol`)

The documents in a message are those of the drives in the order of the
service's set, each with the number of the reading it is from. The length is
taken modulo `LenRange`; a message whose length wraps loses its last bytes, is
empty, or (wrapping of the length plus 2 only) makes `memcpy` fail. The client
takes the first message for supported IDs whatever it is, and of each message
parses the first document only. Of the drives any set is read in an interval.
`RetCodes` is what the fold of the return codes over all device files gives: the
last device that was read or denied decides, so reading can end as "access
denied" although drives were read. The update loop then ends for good ("ended"),
while the connection stays open.

### Units (`SMARTunit`)

The drive's raw value grows by one whenever another `realUnit` of the metric
(uptime, bytes written, bytes read) is complete, from any starting point between
two increases (`phase`); readings come after any growth up to `MaxStep`. The
most significant bit of `units[]`, which stands for "at least", is a field of
its own; differences are taken to stay below it.

### Selection (`SMARTids`, `SMARTselection`)

An array of IDs has `N` elements and ends at its first 0; it is modelled by the
sequence before that 0. `toObs` is what `GetSMARTattributesToObserve` makes of
the text in the configuration, `table` is the drive's own list of attributes,
in any order. The update thread makes the list of IDs to read anew in each
interval (`SetSMART_IDsToRead`), stores it in the set of drives at the first
time only (`InsertDrive`), and then gets a callback per attribute, in which a
cursor moves along that list. `cl` is a
client of the service: supported IDs, lines from the first values, values from
later ones; a message is delivered as soon as it is sent (its way is modelled in
`SMARTmonitorProtocol`). With NVMe under MS Windows the list that is passed is a
new, empty one. A list in the file is shorter than `N`.

`copyArr` copies as many IDs as the uninitialized `m_numDiffrntSMARTattrIDs` says
(`CopyCounts`): any number cuts a list there, and what follows is what the array
held (`Tails`), a 0 in the first place if nothing was copied. An element of the
`std::set` of drives is the copy of a copy, with a number each; the smaller one
counts. A number of `N` or more copies everything. IDs beyond the range of IDs in
memory that was never written are not modelled.

The update thread is started only if the list in the file has an item
(`ThreadStarts`, `SMARTmonitorBase.cpp` 774); without one `InitializeSMART`
retrieves once, and then nobody does (`NoThread`), although an empty list makes
`SetSMART_IDsToRead` take everything that is supported. A list whose first ID is 0
is an empty list with a thread. The dialog of supported IDs
does not retrieve anything: that part of `FillGUI`
(`wxWidgets/SupportedSMARTIDsDialog.cpp` 138, 168) is compiled with
`TU_Bln361095SMARTmonDrctSMARTaccss_` only, which no file of the repository
defines (the macro of the build files has no underscore at its end).

`SMARTselection` is the promise: the lines are fixed when the drive is found, to
all that is selected or, if the drive did not tell what it supports, to none, or,
if copies can be cut (`Cuts`), to any attributes; values come one by one, and only a retrieval that does not know what to read
takes one away. The mapping (`Promised`) takes the lines and the flags from the
stored element; `selected` is the intersection where the list in the file is
ascending, and what the cursor makes of it where it is not.

### Start (`SMARTmonitorStart`)

One behaviour per member of `Starts`: program (service or window), build (with
or without direct access), command line, and the contents of both directories.
A file is the list of its elements, or has no root element; a missing XML
attribute is `None`. `ProcessArg` is one pass of the loop over the arguments; an
option at the end that lacks its value makes `getArg` (external) read behind the
last argument: the program crashes or takes any text. `tryCfgFilePaths` is the
end of each attempt at a file; tables and settings that an attempt has changed
stay changed. The loader is the one for tinyxml2, the only one the build files
compile. The option `configfilepath` is left out. The update thread is started
iff the connection file that was read has an ID to observe (`AttrToObs`); else the
service accepts clients with the message "No S.M.A.R.T. attributes to observe".
`SMARTmonitorService` takes the thread as started (`UpdStarted`) in its runs.

## 3. Runs

"Violation" runs check what a comment, a document or a message of the program
says and the code does not do; the findings in `PROJECT.json` quote the lines.

| run | shows |
|---|---|
| `Service` | 2 clients, 2 drives, a descriptor table that can run full: no values to a device, no live client forgotten, no set modified under an iterator, messages in order; the inductive invariant of the proofs; a signal ends the service, and a client that connects is registered as long as descriptors are left |
| `ServiceNonBlocking` (violation) | a client that does not read stops the update thread inside the critical section |
| `Client` | posted events first, servers may be lost at any time: one reader, "unconnected" stays; disconnecting ends unless a thread reads from a server that was lost, so the case the comment reports is the only one; after a failure there is another attempt unless the user cancels or closes the dialog, the host name is not found, or a thread is stuck |
| `Attr` (violation) | a wide and a narrow attribute, a reader with any widths: a value is read whose halves are of two readings of the drive. The critical section is entered by width and left in any case, and the width the reader goes by is never assigned |
| `Rating` | what is in alarm is rated as a warning, but for a spare of 75 % and more; ratings are in range exactly as long as percentages are; worse is not better above the threshold |
| `Status` | summary and icon agree on a warning; an alarm comes to be shown and stays |
| `Protocol` | three drives: while lengths fit, messages are whole, nothing is skipped, the first drive's values arrive as long as the service's loop has not ended, and no drive is invented; with lengths that wrap, still no value is replaced by an older one |
| `ProtocolDrives` (violation) | two drives: the values of the second never arrive |
| `Unit` | error of the estimate, the minimum before the first increase, how far what the client shows may be off |
| `Ids` | every order of three attributes, lists of all kinds in the file, copies that are cut to nothing, to two or not, a drive that once does not tell what it supports: the intersection is what is read, cursors stay in the lists, a retrieval gives values to just those attributes of its list that no higher ID precedes in the drive's table, the client's lines are the attributes it has values of; `SMARTselection` is implemented; in the end exactly those lines have a value, for good, whose attribute is wanted and found |
| `Start` | every command line of up to three arguments (and two options with separate values), every combination of usable, incomplete, empty and missing files: options are the last ones given, tables hold what the first usable file says, default names stay where there is none, nothing is done with settings of two files, drives are read iff the file has an ID to observe, the error of the configuration is the message that stays, the start ends |
| `StartNames` (violation) | with all files of the repository in place no (S)ATA attribute has a name after the start |

### Bounds

* Service: two clients let one be registered while the other is greeted, closed
  or broken; with 3 descriptors (the listener, and two for connections and
  devices) the table runs full as soon as one descriptor is leaked; two drives
  make a message with more than one document; one buffered message is enough to
  block.
* Client: two descriptors and two update threads are an old and a new
  connection; what goes wrong needs no third one.
* Attributes: two attributes, one wide and one narrow to the writer, anything to
  the reader, and three readings: values before, during and after a copy; one bit
  per long.
* Rating: all normalized values and thresholds around the points where the code
  branches (0, 1, 10, 55, 100, 140, 200, 255), all temperatures from -10 to 100,
  all percentages used up to 255 and spares around 75 %, 100 % and 200 % with
  thresholds on both sides of them. `UintRange` = `LongRange`: both have 8 bytes
  on the usual 64 bit systems; where a `long` is wider is left to the proofs.
* Status: two attributes, each good or at its threshold; memory that was never
  initialized holds a value that is good or one that is not.
* Protocol: `LenRange` = 16 and documents of 4, 5, 6 and 8 bytes stand for 2^16
  and real documents: the three documents of length 4 fit, those of 5 crash
  `memcpy`, those of 6 are cut, two of 8 give an empty message; `MaxRounds`
  bounds the readings that give a new value, after which readings repeat the
  last one; 2 buffered messages.
* Units: real units 1, 3 and 6 with readings up to 4 apart cover several
  increases per reading and several readings per increase; a metric of 24 is
  enough for the third state to see several samples.
* Selection: `N` = 4, so three IDs: a first, a middle and a last one to be
  skipped, found or cut; a list of all kinds has up to three items; one blind
  retrieval, before or after the drive was inserted; an array that held nothing or
  the IDs of another list.
* Start: three arguments are an option, its value and what follows; the files
  cover each branch of the loader, the second directory what can be left of the
  first. All files are combined with an empty command line (service) and with
  the option that names a file (window), all command lines with the files of the
  repository.

Deadlock is not checked where the system may stop: in the client (nothing to do
until the user acts), in `SMARTattr` (both threads wait for a critical section
that an unbalanced `Leave()` has spoilt), and in the
protocol (a client without anything to observe, or a crash of the service).

### Differences met while modelling that have no run

The code paths are in the models, or were read for them; these are what they do,
next to what a comment or a message says.

* When reading the drives fails, `AfterGetSMARTvaluesLoop` logs "signalling the
  main thread to end" and shuts the listening socket down, but `s_updateSMARTvalues`
  stays set: the accept loop goes on with `accept` calls that fail.
* When `StartAsyncUpdateThread` finds no attribute to observe, nobody shuts the
  listening socket down after a signal (`UpdStarted` = FALSE): `accept` waits on.
* Where posted events can wait behind input (`PostedFirst` = FALSE), an
  "unconnected" event of an old update thread resets the guard of a new one, and
  a second reader can start.
* "The (wxWidgets) client is stuck ... when the host/computer of the server
  hangs/is shut down" (`src/info/features_and_limitations.txt` 11) and the comment
  on "Disconnect" quoted above: `EndUpdateUIthread` joins, in the user interface's
  thread, an update thread that is in a blocking `read`; if the server was lost
  without closing the connection neither comes back. `DisconnectEndsUnlessLost`
  has this as its exception, and shows that it is the only one.
* When the host name is not found at an attempt that the timer makes, there is no
  further one, although "Try to connect again after timeout elapses".
* `setRawVal` sets "successfully read" before the value is stored, and
  `GetRetrievalTime` reads the low long once for the check sum and once for its
  result.
* Below its threshold a normalized value is rated better than at it, and the
  rating jumps where the assumed maximum does ("the higher the less critical",
  `SMARTvalueRater.hpp` 492); a spare at its threshold does not get the worst
  rating, as a `return` is missing (290), and from 75 % on is not even rated as a
  warning, whatever its threshold; more than 100 % used is rated below -1 (251).
* With the service as the source, ratings use normalized values that were never
  sent; `upd8rawAndH_andTime` can return a rating it has not assigned; the summary
  of a pass never becomes "OK".
* `numOverallBytes` is a `uint16_t`: a message of 64 KiB and more is cut.
* ">=" can be shown with up to one reading interval more than the real unit; and
  "as long as we did't regard a 2nd S.M.A.R.T. value increase we only know the
  unit is >" (`attributes/SMARTuniqueID.hpp` 387), but with the first increase the
  unit is stored without that bit, so that until the next reading it is shown as
  if it were known.
* If the first values name no attribute, no update thread is started while the
  guard says that there is one.
* "S.M.A.R.T. IDs to read" (`src/config/SMARTsrvCnnctn.xml`): an item of the list is
  taken when a comma follows it (`tinyxml2/ConfigLoader.cpp` 117). The list of the
  repository ends without one, and its last ID, 254, is never observed. The
  client's list of supported IDs takes its last item.
* Without the element of that list `m_SMARTattrIDsToObs` is not initialized.
* Unsorted lists lose IDs: the cursor of `SetSMART_IDsToRead` only moves forward.
* `copyArr` copies as many IDs as `m_numDiffrntSMARTattrIDs` says, which nothing
  initializes ("TODO initialize with appropriate number",
  `attributes/SMARTuniqueID.hpp` 62): lines of a drive can be missing, or be of
  attributes that are not wanted.
* The retrieval relies on the drive listing its attributes in ascending order:
  behind a higher ID a lower one is not found.
* A drive that does not tell its supported IDs at the first retrieval is stored
  with empty lists, and these stay empty. Later blind retrievals take the flags of
  its values away until the next interval.
* Under MS Windows the list in the configuration is not used.
* `CheckSMARTidRange` (`tinyxml2/ProcessSMARTdata.cpp` 50) lets an ID through that
  equals the number of elements; this service sends none.
* A bare option that is not known takes the next argument with it; an option
  without value at the end is read beyond the arguments.
* When `networkConnection` or its port is missing in both directories the message
  about the configuration names no reason ("configBlank"). A port that was read
  before the host name is found to be missing stays set, also if the second file
  gives none.
* A definition without a name gets that of the definition before.
* The file of `svcConnConfFile` without a host name makes `ReadSrvCnnctnCfg`
  dereference a null pointer for its message; if it can not be read at all the
  window connects nevertheless, with the settings of the configuration directory.
* The last drive decides: if it denies access the service does not start, and the
  update loop ends, although other drives were read; clients stay connected and
  get nothing any more.
* A list without IDs to observe means "all" to `SetSMART_IDsToRead`, but then no
  update thread is started: a service with such a file greets clients and never
  sends them a value.

### Fairness

* Service: threads run (weak fairness of each thread's steps) and who waits for
  the critical section gets it (strong fairness): the update thread is out of it
  for a whole interval between two rounds. That clients read is assumed in
  `FairSpec` only; `ServerFairSpec` shows what happens without it.
* Client: the UI thread runs whenever its event loop has something to do (one weak
  fairness for all its steps, in the order the loop takes them), so does each update
  thread, connects end (the code uses a timeout), and servers that are up send
  values, as the service does in every interval. Nothing is assumed of the user, or
  of servers that are lost.
* Status: both threads go on while connected. `AlarmShown` leaves out an
  attribute that is always rated just while its time is stored.
* Protocol: threads that can run do, intervals end. That the service's loop goes on
  is not assumed.
* Selection: the update thread goes on; that a client connects is not assumed.
* Start: one thread, which runs.

## 4. Proofs

All for every value of the constants, under the named assumptions of the
modules and the hypotheses named here; checked by TLAPS without omitted steps.
The inductive invariants that are not themselves properties of a run were checked
with TLC on the instances of the runs before they were proved.

* **Service** - `ServiceInvariance`: `ServiceInv` is inductive. That values never
  reach a device (`NoDeviceWrite`) or a live client is never lost
  (`LiveClientsKept`) is not inductive: the number a thread is about to write to
  may have been closed and reused. It needs who owns each descriptor
  (`OwnerInv`), who is in the critical section (`LockInv`), that registered
  numbers are connections until they are closed and that broken ones belong to
  clients that have gone (`RegisteredInv`), and the counts of drives
  (`CountInv`). `IteratorsStayValid` is the action property that follows from the
  lock. `StreamInOrder`: although two threads write, a client first gets the
  supported IDs, one document more in each message, then the values of drive after
  drive without a gap or a repetition. It needs that a client has one descriptor number
  (`SingleInv`), that a client is greeted before it is in the set, with as many
  documents as main has in its stream (`GreetInv`), and which drive's values each
  registered client got last (`RoundInv`).
* **Client** - where posted events are handled first (`PostedFirst`):
  `AtMostOneReader`, one thread at a time reads from the connection, and
  `LateValuesKeepState`, values that are handled late do not turn the state of a
  client that shows "unconnected". The guard alone does not keep a second reader
  away: the event of a failed thread resets it, and may be handled after the
  connection it is about has been replaced. What saves the client is that the
  failed thread closes the socket when it ends, and that nobody dials as long as
  its event waits; a greeting in between fails, so no reader is there when the
  guard is reset. The inductive invariant says so of every place of the threads
  and of the queue of events.
* **Attributes** - `ShownNotNewer`: what a row shows is not newer than the time
  next to it (`TimeNotOlder`), for any widths, also of torn values, after an
  unbalanced `Leave()` and where check sums agree by chance: the critical section
  is not needed for it, only that one thread stores the time before the value and
  the other copies the value before the time. The invariant says at each point of
  both that the time is not older than the parts of the value (`TimeInv`,
  `CopyInv`). It is stated for constants that are what they should be
  (`AttrConstants`).
* **Rating** - without hypotheses, for any widths of the integers:
  `AlarmsAreWarnings`: a value in alarm is rated as a warning iff it is not one of
  `RatedGood` (spares the missing `return` lets through, differences that wrap);
  `RatingsStayInRange`: a rating leaves its range iff the percentage does.
  `WorseIsNotBetter`: a value that gets worse above its threshold is not
  rated better, if numbers of errors are not negative. Case by case over the kinds
  of attributes, with lemmas about the scaled quotient.
* **Status** - `WarningsAreShown`: `StatusInv`, the types and that the summary and
  the icon agree on a warning, is inductive; the types say that a summary has only
  two values, so that "different from the last one" means that the other one is
  shown.
* **Protocol** - `MessagesAreWhole`: if the documents of all drives together fit
  into the length (`Fits`), no message is cut. The stream of each thread holds
  fewer documents than the number of its next drive. `NoValueSkipped`: then
  the newest value of the first drive is shown or on its way, and no drive is listed
  that the service does not have. `ValuesNeverOlder`: a value is never replaced by
  an older one, also when lengths wrap, messages are cut or taken for others, or
  the service crashes: readings are in order along the way from the drive over the
  stream, the message and the channel to the client.
* **Units** - `UnitErrorBounded`: once determined, the estimate and its bounds
  are at most `MaxStep` from the real unit. When the raw value is *seen* to have
  grown, the metric is at most `MaxStep` past the point where it grew; both ends
  of the interval that is divided are such points, so its length is off by less
  than `MaxStep`, and a quotient of it is not off by more. `MinimumUnit`: before
  the first increase the metric has grown by less than a unit. `UnitShownBounded`:
  however late the client is and whatever it has kept, what it shows exceeds the
  real unit by no more than `MaxStep`, and with an upper bound is not more than that
  below it.
* **Selection** - for any number of IDs that `copyArr` takes:
  `ListsFitArrays`, the types, among them that the lists that are read from the
  drive stay shorter than the arrays, the cursor inside them, and copies not
  longer than the array; `ReadsWhatIsWanted`, `FoundInOrder`, `LinesAreValues`
  (the properties `ReadsIntersection`, `ReadsWhatIsInOrder`, `ClientLinesMatch`); and
  `SelectionImplemented`, the refinement of `SMARTselection`, step by step: each
  action of `SMARTids` is a `Find`, `Retrieve`, `Get` or `Lose` of it. Lists that
  are walked through are ascending, whatever the order in the file is. The cursor
  stands at the first ID that is not below the highest attribute the drive has
  reported so far (`CursorInv`), so the callback finds just those attributes of
  the list that are above all before them in the drive's table (`Found`). These
  depend on the drive only: what one retrieval has found, a later one does not
  take away, unless its list is empty (`FlagInv`); and of the list as it was
  copied the service sends all it can find or nothing (`ClientInv`). What the loops of
  `SetSMART_IDsToRead` and of the list in the file give is proved with a least
  counterexample, as below.
* **Start** - for any set of directories and command lines: `ServesOneFile`,
  `ConfigErrorStays` and `WindowConnectsOrReads` from an invariant on the outcome
  at each step of the start, and one on the list of IDs (`IDsInv`, `ThreadInv`): it
  is that of the first complete file whenever a thread may be started;
  `DefaultNamesStay` from what each attempt at a file
  does to the names; `TablesAsWritten`: the tables hold what the first usable file
  says. A file is folded over, element by element; what a fold gives is proved by
  taking the least element at which it would be different (a set of naturals that
  is not empty has a least element), in place of an induction. `OptionsAsGiven`:
  the walk through the command line ends with the last value given for each
  option.

Checked by TLC only: all liveness properties (fairness and `ENABLED` are beyond
the prover) and what a violation run shows.

## 5. What is not modelled

* The text of XML, of formatted values and of the log; layout.
* Drives that are plugged in while the set of drives is traversed.
* The panels per drive of the main window: `ReBuildUserInterface` reuses panels by
  position while values are looked up by drive (`wxWidgets/wxSMARTmonitorApp.cpp`
  489); the author's comment there reports a crash after a change of the server.
* Switching between direct access and a service while the window is open.
* Raw values that fall and metrics that wrap in the detection of units.
* The curses user interface (a second front end of the same client class), the
  tray icon, the drawing of tables, test programs; the loaders for libConfig and
  .ini files, which are not built.
* The commit is work in progress: parts of it use an older interface
  (`SetRawValue`, `SMARTvalue`) than the classes offer (`setRawVal`,
  `SMARTattr`). The models follow what each function does with the members both
  interfaces stand for.

## 6. Plan

Done, in this order: service, client connection, attribute values, rating,
status, protocol, units; then selection of attributes with its abstract
specification, and start; theorems about all of them. Next:

1. `SMARTmonitorWindow`: panels per drive over servers with different drives, and
   switching between direct access and a service (`OnDrctSMARTaccss`,
   `EndAllThreads`), composed with the guard of `SMARTmonitorClient`.
2. Falling raw values and wrapping metrics in `SMARTunit`.
