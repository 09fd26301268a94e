# CellView, specified

CellView is a Windows program (MFC, gloox, GDI+) that sits on a student's machine. Its user logs in to an XMPP server with an ID and a password, or as a guest; from then on a teacher's console sends it IQs that make it download documents, open one, or save a picture of the screen, and it answers them. This directory holds a TLA+ model of what the program does between its threads, its messages, its files and its server, configurations that check the model with TLC, and proofs that TLAPS checks.

Paths below are relative to `src/`.

## Inventory

| Component | Source | State it keeps | Operations |
|---|---|---|---|
| Task manager | `CellView/TaskManager.*`, `TaskBase.*` | list of tasks, critical section, auto-reset event, `m_Active`, worker thread | `Run`, `Stop`, `AddTask`, `_run` |
| Login session | `CellView/XmppInstance.*`, `addition/CellConnection.cpp` | the client, the four managers, the address, the last thread's `CWinThread*` | `LoadConfig`, `SetJidResource`, `Connect`, `DisConnect`, `runConnect`, the connection listener |
| JID | `CellView/XmppInstance.*` (`X_JID`) | user, server, prefix, ID, password | `Parse`, `Resource`, `JID`, the setters |
| Dialog | `CellView/CellViewDlg.*` | current page's list of controls, text of the information label, the queue of posted messages | `InitCtrl`; click, init, xmpp and task messages; mouse, paint, move, activate |
| Controls | `components/*` | status, status last painted, text | the mouse's five operations, `ReqRePaint`, `NeedPaint`, `OnPaint`, `SetText` |
| IQ manager and motion | `addition/CellIqManager.*`, `addition/x_motion.h`, `CellView/ViewMotion.*` | none of their own | `handleIq`, `Send` of an answer, `Send` to a list, one handler per message |
| Stanza extensions | `addition/Ext*.{h,cpp}` | payload of an IQ | constructors, setters, getters, `tag`, `clone` |
| Tasks | `CellView/DocDownTask.*`, `DocPlayTask.*`, `ScreenCapTask.*` | the message they were made from, status per document; the local files | `Work`, `WorkEnd` |
| HTTP download | `worker/XHttpGet.*` | socket, receive buffer, file | `XUrl`, `httpGetFile` |
| Screen capture | `worker/XCaptureScreen.*` | GDI, GDI+ and memory objects of one call | capture, save to a stream or a file |
| Character codes | `chartool/*` | none | conversions that allocate their result |
| Application | `CellView/CellView.*` | the dialog, the `CXmppInstance`, GDI+ | `InitInstance` |
| Presence manager | `addition/CellPresenceMgr.*` | roster | never created |
| Client library | `Include/*` (headers of gloox) | connection state, session | external |

### How they interact

- **UI thread.** Runs the dialog. Buttons call `SetJidResource`, `Connect` and `DisConnect` directly. Everything else reaches it by `PostMessage`. When the dialog ends, `InitInstance` shuts GDI+ down.
- **`EnvStartUp` thread.** Loads `config.ini`, posts `WM_INITEND`, ends.
- **One xmpp thread per login** (`runConnect`). Creates the client (the first one does) and the managers, then stays in the client's `connect()`, from which it calls the connection listener and `handleIq`. It posts `WM_XMPPMSG` to the dialog and calls `AddTask`. MFC deletes its `CWinThread` when it ends; the dialog keeps the pointer.
- **One worker thread** (`CTaskManager::_run`). Does one task after another: downloads, starts programs, captures the screen. It posts `WM_TASKMSG` and sends answers through the same client. Nobody stops it.

Shared without a lock: `m_client` and its state, the managers, the address, `m_XmppThread`, GDI+. Shared under the critical section: the list of tasks. Shared with other processes: the document files, which `fopen_s` opens for itself alone.

### What is hard, and what makes each part correct

- *Task manager*: the mutex is given up and retaken in the middle of a loop, and an event merges signals. Correct if no task is lost, repeated or reordered, the worker never sleeps over work, and Stop stops.
- *Login session*: an impatient user against a slow server. Correct if the session that comes up is the one asked for, the dialog tells the truth about it and never hangs or forgets, and nothing is registered twice.
- *Address*: written with separators the user may type, read again by the client and by other programs. Correct if everybody understands the login that was meant.
- *IQs and tasks*: answers leave in another thread, and possibly in another session, than their IQs came in. Correct if each answer is its task's and its request's, in order, and none is forgotten.
- *Downloads*: files that outlive the process, a transfer cut anywhere, a server that sends an error or nothing, a server that publishes meanwhile. Correct if what is reported of a document is true of its file, a file that is up to date is kept, and the worker comes back.
- *Screen capture*: seven objects of four owners and as many calls that may fail. Correct if each is given back, and the answer says whether there is a picture.
- *Controls*: what is painted depends on the order of mouse, posted, activation and paint messages. Correct if the screen shows the controls' status and clicks belong to who was pressed.
- *Send to a list*: ownership handed from clone to clone. Correct if each extension is deleted once and each member online gets the message.

`PROJECT.json` lists every hazard at its line, with the properties that are there to catch it, or the reason why none is.

## Modules

| Module | Models | Composition |
|---|---|---|
| `TaskQueue` | what the task manager promises: a first-in first-out queue, worked one at a time | abstract |
| `TaskManager` | `CTaskManager`, with its mutex and event, n producers, a worker, Stop | implements `TaskQueue` (`QueueSpec`) |
| `XmppSession` | dialog, `CXmppInstance`, xmpp threads, motion's login handlers, gloox client and server | |
| `XJid` | `X_JID` and, as the program uses it, gloox's `JID`, as functions on sequences over the constant `Letters` | |
| `SessionAddress` | the address from `config.ini` and the dialog to the client's login and the command lines of programs | extends `XJid`; one login at a time, whose threads are `XmppSession` |
| `AnswerService` | what the program promises whoever sends it IQs: one answer each, in order, or a lost one | abstract |
| `IqService` | `handleIq` → motion → task → answer, over sessions that come and go | uses `TaskQueue` for the manager; implements `AnswerService` (`ServiceSpec`) |
| `Payload` | what a payload says: tag ↔ extension ↔ message ↔ task ↔ answer, with code page and field sizes | the contents of what `IqService` orders |
| `Broadcast` | `Send` to a member list and `clone()` of the extensions | |
| `XUrl` | splitting of a document's URL, and what the parts are by definition (`PartsAreTaken`) | extends `XJid` for `find` |
| `HttpGet` | `httpGetFile` over a stream, byte by byte | |
| `HttpTransfer` | what `httpGetFile` is to the task that calls it | maps `HttpGet` to `DocDownload` (`TransferIsAsAssumed`) |
| `DocDownload` | `CDocDownTask` over files, handles, versions, requests, publications and restarts | takes a transfer as `HttpGet` allows it to end, which `HttpTransfer` shows |
| `BitmapLayout` | arithmetic of the captured region and of a BMP file | |
| `ScreenCapture` | a screenshot, call by call, with who owns what | extends `BitmapLayout` |
| `Layout` | `InitCtrl`'s rectangles, and what lies in whose | |
| `XControls` | controls, mouse handlers, pages, text and WM_PAINT | extends `Layout`; the pages are those of `XmppSession`, with every control |
| `MC...` | what the configurations need | extend their module |
| `...Proofs` | theorems | extend their module; `IqServiceProofs` extends three, `IqService`, `Payload` and `Broadcast`, which is why the last two have `PayloadInit`, `PayloadNext`, `BroadcastInit` and so on; `AddressProofs` extends `MCSessionAddress`, whose specification also grows URLs |

`IqService` takes the task manager as its specification, which `ImplementsQueue` justifies and which it leaves intact (`KeepsTheQueue`), and one registered manager. `RegisteredOnce` of `XmppSession` says when there are two: after the user has left a login that had not come as far as its managers. What the program then does twice is not in `IqService`.

### Correspondence

**TaskManager.** `m_Tasks`, `m_Event`, `m_Active` are the members; `owner` is the critical section's owner. A producer goes `AddTaskClone` (clone of the caller's task) → `AddTaskLock` → `AddTaskPush` (push_back and Unlock) → `AddTaskSignal`. The worker goes `LoopTest` → `WorkerLock` → either `WaitBegin`, `WaitWake`, `WaitRelock` (the inside of `XEvent::Wait`) or `ResetEvent` → `Take`, or `TakeFromEmpty` when begin() is end() → `WorkTask`. `added`, `ended` and `late` are history. After undefined behaviour the model is over, here as elsewhere: nothing is said of what follows.

**XmppSession.** The n-th login has ID n and password n, so that mixed halves show. `ui` says in which of the long operations the UI thread is: between the two halves of the resource, before the thread is started, in `DisConnect` waiting for the thread, crashed. `tpc[i]` is the xmpp thread of login i: created, reading the resource, managers checked, managers made, in `connect()`, connecting, connected, at the message box of `handleConnected`, online, leaving, ended; between the ID and the password of the resource it reads, the UI thread may set another. `makers` are the logins whose thread has registered managers: two threads may both find none. `state` is the client's `state()`, "null" before there is a client. `queue` holds posted messages in order; `Click` needs an empty queue, since Windows hands out mouse messages behind posted ones. `ReadThreadHandle` makes the read of a `CWinThread` that may have been deleted a choice of outcomes. Logins overlap as the program permits: `leftAt[i]` is history, what the thread of login i still had to get (its resource, its managers, its connection) when the user left it, and stale messages stay in the queue; the properties name these cases as their exceptions. A torn read is one of the two fields; what two threads do to the characters of one `std::string` is not modelled.

**SessionAddress.** `env` is the thread that reads the configuration; `m_JID` the instance's address; `client` what the client logs in with, set at its creation by the whole address and later part by part. `due` is the login that no thread has taken up yet. `HandleDocPlay` copies the address into a task, `Work` puts it into a command line. Strings are short sequences of letters, of which "@", "/" and "_" separate.

**IqService.** `HandleLogin`, `HandleTask` and `HandleNothing` are `handleIq` with the motion's handler. `WorkBegin`, `WorkDownload`, `WorkPlay`, `WorkCapture`, `WorkEnd` are a task's `Work` and `WorkEnd` with what they post and send; a picture that was not written succeeds all the same. A download may hang (`WorkHangs`), a download or a screenshot may end the process (`WorkAstray`): `DocDownload` and `ScreenCapture` tell when. `OnMessage` is the dialog's handler for the posted message. `done` (what was really done) and `lost` are history.

**Payload.** A tag, an extension and a message are records of their kind with the fields that this kind has; a text is one of a few classes (empty, short, lossy in the code page, foreign to it, too long for a message's short fields, too long for all). `NewInstance` is the constructor from a tag, `ToMessage` the branch of `handleIq`, `Fill` and `ToTag` the way back. `Receive`, `TaskEnd` (the tasks' `WorkEnd`) and `Send` take a request to its answer; `Compose` starts from a message instead, so that two programs of this kind face each other.

**Broadcast.** `lpc` says where the loop is; `heap` is the set of allocated extensions. `SendIq` gives the current one to an IQ, `Clone` makes the next, `DeleteIq` ends the IQ and its extension, `Return` deletes the last. A clone may never end, or be undefined. `copies` says who was sent what.

**HttpGet.** The response is the numbers 1 to `hdr + body`, of which `ends` are line ends: two in a row are a blank line, and the first is the header's, at `hdr - 1`, while the body may have others anywhere. A line end counts as one byte; the field with the length and a blank line are two bytes each, so that a read may end inside them. What `recvbuf` holds at first is anything, a line end included. `Recv` hands out any positive number of bytes up to what is asked for, 0 at the end, an error, or nothing for ever (`silent`). `RecvHeader` copies a whole chunk whatever was received, as the code does; `short` records that a read of the header was not full. `BlankLines` is `strstr`: the first two line ends that meet, of the header, of the body, or put together by a short read; `HeaderFound` says that it is the header's. `page` says that the response is an error's, which changes nothing in this function.

**HttpTransfer.** The worker of `DocDownload` is at the only document of its only task, over an older file. It is at `open` and `connect` as long as `httpGetFile` is; its `header` lasts until some of the body is written or there is none to come, since only then is a cut in the header told from a cut in the body. What a server sends is the document or an error's page (`Served`). A file with some bytes in it is a part, without a version of its own, until the function has returned with all of it.

**DocDownload.** `files` survives `Restart`, `leaked` handles and the `queue` do not. `WorkBegin`, `Check` (the version's comparison), `Open`, `Connect`, `Header`, `Body`, `WorkEnd` are one document's way through `Work` and `httpGetFile`. At `Header` the server sends the document it has or an error's page (`serving`), or falls silent; a transfer that hangs is `stuck`. `cut` are the documents of which a part may pass for the whole. `Play` opens a file in another program, so that `fopen_s` fails. `last` is what the latest answer said of each document next to what was true then; `left` counts what the environment may still do. A version is as the server spells it: `Odd` is a version spelt otherwise than `GetFileVersion` does.

**ScreenCapture.** `live[k]` counts the objects of kind k that were handed out and not given back; `spoilt[x]` how often the call x failed; `failed` those of the current screenshot; `taken` is the depth that `SaveBitmapToStream` has read: 0 when `CreateDC` failed, which makes it write a palette like a screen of few colours. `pc` is the call that comes next. `CloseDialog` is the main thread, which shuts GDI+ down.

**XControls.** `m_Status` and `m_OldStatus` are the members; `shown` is what the screen has of each control and `partly` who waits for WM_PAINT in part. The information's rectangle covers others (`UnderInfo`), as "last" may a label (`UnderLast`): what is under them is `Layout`'s business. A change of page leaves the pointer where it is, which may be another control. `pressed` and `turned` are history.

## Runs

| Run | Asks | Bounds, and why they are enough |
|---|---|---|
| `TaskManager` | is the list exclusive, is a wake-up lost, does Stop stop, is it a queue, is every task worked | 2 producers, 4 tasks: two pushes may meet in one event, before and after the worker's Reset, with a task in hand and another waiting. No symmetry (liveness). 264,000 states |
| `TaskManagerOneTake` | *violated*: one take per add | 1 producer, 2 tasks |
| `XmppSession` | login, session, dialog and threads agree, for every order of clicks and server events; where the UI thread may crash; DisConnect's wait ends | 3 logins, 2 of them under way at a time: one that was left, one that follows, and one after both, with the message of the first; 1 verdict; the dialog is closed from the first page alone (`ClosePages`), since closing it later ends the model by the same steps as "last". 1,393,000 states |
| `XmppLoginIsMade` | *violated*: each login makes a connection | 2 logins, no verdict |
| `IqService` | order and truth of answers, the dialog's text; is every task answered | 3 IQs of 5 kinds, 2 sessions: one task in hand, one behind, one answered in the session after. Ids are interchangeable, so they come in order (`MCIqService`). 844,000 states |
| `HttpGet` | what the file holds, memory safety of the buffer, end, and whether that is what `DocDownload` takes a transfer to be | chunk 2, buffer 3 chunks, header up to 7 (longer than the buffer), body up to 7: the end of the header falls on every place in a chunk and the body spans two buffers, with line ends in every place (`MCHttpGet`). 1,827,000 states |
| `DocDownload` | are reports true, are files kept, does a task end | 2 documents, one version besides "none", "0.0.0.0" and the odd spelling, 2 requests of up to 2 documents of which the last has one (`LastIsShort`: what it finds the first has left), 1 publication, 1 restart: each exception needs one of these once. 758,000 states |
| `ScreenCapture` | what is left behind, what is answered, what the worker depends on | 3 screenshots, screens with and without a palette: a leak adds up from one to the next. 16,500 states |
| `SessionAddress` | what the client and programs are told; how URLs are split | names, IDs and passwords of up to 3 letters with every separator, 2 logins (the first creates the client, the second changes it), 1 play task; and all strings of up to 8 letters out of 4, the shortest with scheme, host, port and path and a letter to spare. The two do not interact: `MCSessionAddress` grows a URL first, and starts the program only with the empty one, so that states add up. 1,560,000 states |
| `Payload` | is the answer about its request, what does a message lose | downloads of up to 2 documents: enough to swap them or to lose one; each text class at each place |
| `Broadcast` | each extension deleted once, which online members are reached | lists up to 3 of 2 members, each online or not, every kind |
| `XControls` | screen and status agree; texts are shown; clicks are real | every page, the pointer on the controls that differ there (the guest label behaves as the ID label does), 1 message posted by threads besides clicks; the layout in a font of 6 by 12 pixels, where the information covers all but the two buttons. 317,000 states |

In `XControls` the model lets the threads post only while the queue is shorter than `MaxPosted`; clicks and the close message come on top.

Deadlock is not checked where the program may stop for good: the dialog is closed, the function returns, the worker sleeps, the server stops sending, a transfer hangs.

### What the properties say

- `QueueSpec`: whatever the threads do, the manager is a queue. It can fail only in one way, with nothing pending. `NoLostWakeup`, `ListExclusive`, `StopTakesAtMostOne`, `AddedIsWorked`: its parts.
- `NeverLeftWaiting`: a user who reads "logging in" has a thread working for him. `SuccessIsTrue`: "login succeeded" is of the last login, or, once the user has left one under way, of no login before that one: the message does not say whose it is. `SessionIsTheOneAsked`: the session is of the last login unless its thread was left, and never with the ID of one and the password of another unless a login was left before it had read its resource. `RegisteredOnce`: two sets of managers only if the first one's login was left before it had them. `WaitEnds`: the UI thread does not wait for ever for a thread that cannot end, unless a login was left. TLC finds each exception: without it the property is violated. `CrashIsInDisConnect`: two ways, and no third, in which the UI thread uses a client or a thread object that is not there.
- `UnitKeepsLogin`, `LoginIsOwn`: whatever the user types reaches the server and the programs as he typed it, but for an ID that ends in its only "_" and has no password behind it.
- `ServiceSpec`: one answer to each request, in order, or none for want of a session. `AnswersTrue`: of its own task; no "error" for what was done, and no "result" for what was not, but for a picture whose writing failed. It is not about downloads, whose "result" says nothing of the documents: each carries a status of its own, which is the subject of `FalseReportsAreKnown`. `LabelNotStuck`, `TasksAreAnswered`: from an IQ to its end; what may keep an answer away is a download that hangs, with all that wait behind it, a task that ends the process, and the manager's failure.
- `ReplyIsAboutRequest`, `MessageSurvives`: what is lost of a payload is named: what the code page lacks, the action of a play, the type of a download, a download of nothing.
- `BodyIsKept`, `SuccessIsWhole`, `StaysDefined`, `WholeResponseEnds` (`HttpGet`): the conditions in them are the faults of the code: a header read in short pieces is copied with what lay in the buffer, which may spoil its blank line or make one before it, so that another is found, maybe in the body, and what comes before that is lost (`BodyIsKept`); a header longer than 4096 bytes runs past it; one without a length, or a reset, goes through the `catch` block, which deletes the buffer twice; a response cut in its body, or a server that stays silent, never ends. `TransferIsAsAssumed` (`HttpTransfer`): each step is a step of `DocDownload`'s worker, or none to it: which files are emptied, filled or left open, and what is reported, agree. `PartsAreFound`: a well-formed URL is split right whatever its path holds.
- `FalseReportsAreKnown`: a document reported as there is there, whole and of its version, but for four cases, each with its condition: announced as 0.0.0.0; part of it, after a short header or the end of the process; an error's page, when it has just come; published anew or spelt otherwise. `UpToDateIsKept`: a file is given up only for another version. `LeakedIsEmpty`: a connect that fails leaves the file open and empty, once. `TasksEnd`: the worker comes back unless a server falls silent or closes early, or the process ends.
- `OnlyFailuresLeak`, `ResultIsTrue`, `StaysDefined` (`ScreenCapture`): which failures leave an object behind, which is answered as a success, and what the worker must not meet: the end of the dialog, no memory, and a picture with a palette, which is one of a screen of few colours or one whose depth could not be asked.
- `NoUseAfterDelete`, `NothingIsLeaked`, `OnlineServedInTurn`: of `Send` to a list. The members passed that are online have one IQ each at every point of the loop; the loop comes to the end for every message whose extension can be cloned, and with a download that names documents or with a sence it stops at the first.
- `ScreenIsCurrent`, `ErasesOnlyTurned`, `ClickIsOnPage`, `NoPhantomClick`: of the controls. `ErasesOnlyTurned` names what a user may see vanish until the mouse comes by: a control that has changed and changed back between two WM_PAINT, one that lies under the information label when a text is set, and a label that "last" reaches into, which happens in low windows.

Each property of a passing run has a mutant, a wrong version of a definition that stands in the module before the right one, under which the run finds it violated.

### Findings

1. **A signal that comes late wakes the worker over an empty list** (`TaskManagerOneTake`). `AddTask` signals after it has left the critical section. If the worker takes the task in between, it resets the event before the signal comes; the next `Wait` returns at once and `_run` erases `begin()` of an empty list.
2. **A login that is asked for while the last is connecting is not made** (`XmppLoginIsMade`). `DisConnect` does nothing before the client is connected.

Other places where code and words part, seen while modelling. The modules have the code's behaviour; no run is kept for them:

- `handleIq` says TRUE for every IQ, and some requests never have an answer, which gloox asks for (`Include/iqhandler.h:42`).
- A clone of a forced download is a normal one, and with documents its copy does not even end; `Include/stanzaextension.h:262` wants an identical copy.
- Nobody looks at the status line of a response: an error's page with a length is saved as the document and reported as one (`worker/XHttpGet.cpp:131`). No read has a timeout (`worker/XHttpGet.cpp:124`).
- `Save`'s result is not looked at (`worker/XCaptureScreen.cpp:443`); a `CreateDC` that fails makes every screenshot one with a palette, which is written behind a local variable (`worker/XCaptureScreen.cpp:261`, 307).
- The screenshot's file name is given back with `delete[]` (`CellView/ScreenCapTask.cpp:35`), where `chartool/char_code_change.h:5` asks for `free`.
- A resource is said to be "like Ctrl_ID_PASS" (`CellView/XmppInstance.h:48`); this program never uses that prefix.
- The command line of a program has sender, password, server, port and address, not "exename fromjid loginjid loginpass loginserverIP" (`CellView/DocPlayTask.cpp:42`).

## Fairness

- `TaskManager`: weak fairness of the worker and, once inside `AddTask`, of each producer. Windows schedules both; a task's `Work` and `WorkEnd` are assumed to return. Nothing makes anybody call `AddTask`, `Run` or `Stop`.
- `XmppSession`: the UI thread handles its messages, each xmpp thread goes on where it does not wait for the server, and the user dismisses the message box. Nothing is assumed of the server, nor of the user's clicks. Weak fairness is enough: what a thread can do stays possible until it does it.
- `IqService`: worker and dialog run. The server and the session may do anything. `WorkHangs` and `WorkAstray` are possible wherever `WorkDownload` or `WorkCapture` is, and nothing keeps them away: fairness is on the worker's ordinary steps only.
- `HttpGet`: the function runs. `recv` returns as long as the server has something to send or has closed; of a silent one it does not, and `WholeResponseEnds` does not need it to.
- `DocDownload`: the worker runs. The assumption of `TaskManager` that `Work` returns is examined here: it does, unless a server falls silent or closes early, or the process dies. `ShellExecute` is assumed to return.

## Proofs

Each module below extends the one it is about; the constants are any that satisfy the assumption of that module, which TLC evaluates in its run.

| Module | Theorems | Argument |
|---|---|---|
| `TaskManagerProofs` | `TypeCorrect`, `ListIsExclusive`, `NoWakeupIsLost`, `TasksAreFifo`, `StopIsPrompt`, `ImplementsQueue` (`Spec => QueueSpec`) | the critical section is owned by exactly the thread whose program counter says so (`MutexInv`); who is about to push or to work has a task (`InHandInv`); a late task is the last (`LateInv`). The refinement maps `pending` to the task in hand and the list: `AddTaskPush` is `Put`, `WorkTask` is `Finish`, `TakeFromEmpty` is `Break` |
| `IqServiceProofs` | of `IqService`: `TypeCorrect`, `AnswersAreTrue`, `LabelIsNotStuck`, `ImplementsService` (`Spec => ServiceSpec`) | an id is used once, so a task that waits has an id that no answer has (`IdsInv`), and what is done to one is not told of another: only the current task's outcome is open (`DoneInv`); each "begin" the dialog has yet to read has an end behind it or a download under way (`LabelInv`) |
| | of `Broadcast`: `LoopTypeCorrect`, `NothingUsedAfterDelete`, `NoneLeaked`, `OnlineServed` | at most two extensions are allocated at any time, the loop's own and the one the current IQ deletes (`HeapInv`); the loop's says what the message says until the first is sent, and what a clone says afterwards (`ExtInv`); the copies so far went to the online ones of the members passed, in their order (`CopiesInv`) |
| | of `Payload`: `PayloadTypeCorrect`, `RepliesAreAboutRequests`, `MessagesSurvive` | one lemma for each kind of message follows it to the tag and back (`DocDownSurvives` and its like), one does so for tags (`Receives`); `PayloadInv` says at which point which of them applies |
| `XmppSessionProofs` | `TypeCorrect`, `NotForgotten`, `CrashesInDisConnect`, `OneRegistration`, `SessionAsAsked`, `SuccessTold` | at most one click waits, at the head of the queue (`QueueInv`); what xmpp threads post comes after the managers that post it (`ClientInv`); the page, the label and what the UI thread is in agree with how far the logins are (`PageInv`); an open connection has a thread, and whoever ends it tells the dialog (`PendingInv`); who is under way and was not left is the last login (`LeftInv`), so of two threads that make managers the first was left (`MakersInv`); what a thread has read, given to the client or got from the server is of its own login or a later one, and of a single one if nobody was left before reading (`ResourceInv`); a verdict on its way or on the screen is of no login before the first that was left (`SuccessInv`) |
| `HttpGetProofs` | `TypeCorrect`, `BodyKept`, `WholeSuccess`, `Defined`, `TransferAsAssumed` | what is in the receive buffer and the header's has been received or lay there before (`BytesInv`); a header whose last byte has come and has not been found never is (`MissedInv`); so if the blank line found is the header's, it is found in the `recv` that ends the header, and what follows it is the beginning of the body (`KeptInv`); while reads are full the buffer is the response so far, whose first blank line is the header's (`FullInv`) and holds whole chunks (`ChunksInv`). To the caller the file is open when it must be, and what it holds is a beginning of what `readCount` says (`TransferInv`): one lemma per action names the step of `DocDownload` it is |
| `AddressProofs` | of `SessionAddress`: `TypeCorrect`, `UnitLogin`, `OwnLogin` | what is joined with a separator is cut in the same place if what stands before has none (`Cut`, `Joined`); so `Split` undoes `Resource` (`SplitResource`) and `Parse` undoes `JID` as far as writing the address again can tell (`ParseKeeps`); the client logs in with the instance's address once no change is due (`ClientInv`) |
| | of `XUrl`: `PartsFound` (`MCSpec => []PartsAreFound`) | the first "//" ends the scheme, for a scheme has no "/" (`FirstSlashes`); the first "/" and ":" behind it end what the reference definition says (`UrlTaken`); for every URL over any letters, not only those of `MaxLength` |
| `DocDownloadProofs` | `TypeCorrect`, `LeaksAreEmpty`, `LeaksStay`, `UpToDateFilesAreKept`, `FalseReportsKnown` | the worker's task is the first of the queue (`PlaceInv`); a file being written was opened without a handle left over (`OpenInv`); until a publication what is sent is what was asked for, or an error's page (`ServedInv`); a part is on its way, or was taken for the whole or left by a restart (`PartInv`) |
| `ScreenCaptureProofs` | of `ScreenCapture`: `TypeCorrect`, `LeaksAreFailures`, `ResultIsRight`, `AstrayOnlyThen` | what lives is what `pc` says is in hand and one object per failure; what was taken for the screen's depth is 0 only after the failure that makes it so; until the picture is written `Work` is going to return FALSE (`ResultInv`) |
| | of `BitmapLayout`: `RegionIsVisiblePart`, `RowsFit`, `DepthIsKept`, `PartsAreLaidOut` | arithmetic, for every size |
| `XControlsProofs` | of `XControls`: `TypeCorrect`, `ScreenCurrent`, `ClicksOnPage`, `ErasesTurned`, `NoPhantom` | who changes on the page waits for WM_PAINT as a whole, and who waits in part is drawn as he is or blank (`PaintInv`); who waits and has not turned is going to be drawn (`TurnInv`); a pressed control is under the pointer and no click waits (`DownInv`); one click waits at the most, on a page that has its control, and page 0 is left once (`QueueInv`) |
| | of `Layout`: `PointsAreControls`, `ChangesSpareOthers` | arithmetic, for every client area of at least 208 by 200 pixels, which is what allows `XControls` to name a point by its control |

None of the invariants is inductive on its own; in each module `IInv` is their conjunction with what they need, one lemma per action (or per part) says that it is kept, and the theorems follow from it.

Every safety property of the passing runs is a theorem, for any values of the constants. Only model-checked are the liveness properties (`AddedIsWorked`, `WaitEnds`, `TasksAreAnswered`, `WholeResponseEnds`, `TasksEnd`), since liveness under fairness is out of this prover's reach, and the two violations.

`OnlineServedInTurn` and `BodyIsKept` do not filter a sequence, which would be a recursion: they say which member each copy went to, and that the body's bytes stand in the file once and in order. Each module's type invariant is proved (`TypeCorrect`, `LoopTypeCorrect`, `PayloadTypeCorrect`). Only that of `SessionAddress` is also in a run: the runs check what is worth more.

## Not modelled

- *Drawing*: GDI+ calls, images and fonts, which are loaded once. `XControls` keeps who is drawn and when, `Layout` where.
- *`SaveBitmapToFile`* has no caller; its layout is in `BitmapLayout`, its calls are not modelled.
- *Conversions between code pages* are the system's; `Payload` has what they lose, `ScreenCapture` who frees their result.
- *Text of the HTTP request*, cut off by `sprintf_s` if it does not fit 256 bytes; `WSAStartup`; *DDX* of the dialog; `ShellExecute`, which is an outcome.
- *The presence manager*: the two lines that would create it are commented out. *`DrawString`*, *`XControlBase::Show`*: no callers.
- *The client library*: only the headers of gloox are in the repository (27,000 of its 32,000 lines of code), no implementation. It is an external state machine as far as the program uses it, so that most of the repository's lines cannot be modelled from a source. The program's own code is 4,700 lines, of which the rest is MFC boilerplate, declarations and drawing.
- *Windows that repaint without activation* (no desktop composition): what they expose would be erased like the exceptions of `ErasesOnlyTurned`.

## Plan

All modules of the plan are written, and every safety property is proved. What is left is to prove more about how the modules fit:

1. That the sessions of `XmppSession`, as long as the user leaves no login under way, are the `Online` and `Offline` of `IqService`: one at a time, with one manager registered.
2. That the payloads whose answers `Payload` follows are those whose tasks `IqService` orders.
