# A TLA+ model of AgriSmartMonitor

AgriSmartMonitor runs on an Exynos 4412 board in a greenhouse. A web page (boa + CGI programs in C) shows
sensor readings and switches LEDs, a buzzer and a fan; a multithreaded process, `monitor_obj`
(`stage_storage/`), sits between the CGI programs and the character devices whose drivers are in `drivers/`.
This directory models the parts of it that run concurrently and the library that reads the forms, checks them with
TLC on small instances, and proves most of their safety properties with TLAPS for every instance.

## 1. The system

### Components, their state and their operations

| component | source | state | operations |
|---|---|---|---|
| control CGIs | `html-monitor-stage/cgi_proj/{a9_led,a9_beep,a9_seg,zigbee_fan,setEnv,set_sms}.c` | none between requests | encode the form, `msgsnd` (blocks on a full queue), answer "send sucess" |
| cgic library | `cgi_proj/cgic.c`, with the programs that use all of it, `cgictest.c` and `capture.c` | list of form entries, putback ring and offset of the body, temporary files, saved request | parse GET, POST and multipart forms; read entries, cookies, uploads; escape; save and restore a request; free |
| status CGI | `cgi_proj/env1.c`, `sem.h` | none | take the semaphore, print the shared page, release it |
| request thread | `stage_storage/pthread_client_request.c` | `msgbuf`, the thresholds | `msgrcv`, store a command byte under the worker's mutex, signal its condition |
| led, buzzer, fan threads | `pthread_{led,buzzer,fan}.c` | `led_cmd`, `seg_cmd`, `buzzer_cmd`, `fan_cmd` | wait, look at the byte, drive the device, reset one-shot bytes |
| alarm thread | `pthread_dh_mon.c` | none of its own | wait, compare the readings with the thresholds, beep three seconds |
| music thread | `pthread_music.c` | `music_flag` | created by buzzer, plays, closes the buzzer's file, may be cancelled |
| refresh thread | `pthread_refresh.c` | semaphore, shared page | create or attach IPC objects; every second copy the record into the page; signal transfer and dh_mon |
| transfer thread | `pthread_transfer.c`, `linuxuart.c` | `sm_all_env_info`, `dh_temp`, `dh_humidity` | ask the ZigBee node, read ADC and MPU6050, fill the record field by field |
| main, teardown | `main.c`, `data_global.c` | ids of threads and IPC objects | initialise, create threads, on SIGINT destroy everything and exit |
| LED driver | `drivers/fsled/demoarm.c` | GPIO CON/DAT registers | on, off (read-modify-write) |
| PWM beeper driver | `drivers/fsbeeper/fspwmbeeper.c` | timer registers | on, off, frequency; open and close switch it off |
| driver load and unload | init, probe, exit and remove of all four drivers, `drivers/drv/run.sh` | device number, structure, cdev, class, node, mappings, interrupt | insmod, rmmod, roll-back |
| ADC driver | `drivers/fsadc/adc.c` | `have_data`, wait queue | read (start conversion, sleep), interrupt |
| MPU6050 driver | `drivers/fsmpu6050/mpu6050_drv.c` | I2C client | wake the sensor; read two bytes per axis |

How they interact: the CGIs and `monitor_obj` share one System V message queue (requests in), one shared page and
one semaphore (readings out). Inside `monitor_obj` threads meet through command bytes and thresholds in globals,
one mutex and one condition variable per worker, `music_flag`/`id_music` between buzzer and dh_mon, and
`sm_all_env_info` between transfer and refresh. Two threads (fan, transfer) open the same serial line, two
(buzzer, dh_mon) the same beeper.

### What is hard here, and what correct means

* Conditions are waited for **without a predicate**: whether a request is performed depends on where the worker is
  when the signal comes. Correct: requests are delivered in order and performed atomically, none is lost.
* A worker holds its mutex for seconds while the device works; the request thread blocks behind it and the queue
  fills. Correct: the queue drains again, nobody waits for ever.
* State without a lock: thresholds, `music_flag`, `id_music`, `sm_all_env_info`. Correct: readers see values of one
  moment.
* IPC objects outlive the process; CGIs run at any time. Correct: a crash, a restart or a killed CGI at any step
  leaves the page readable.
* Drivers share registers and flags between callers. Correct: one caller's operation does not undo another's.
* A driver acquires six things from the kernel one after the other while programs may already open its node. Correct:
  an open file keeps its code and structure; after unloading nothing of the driver's own memory, cdev or mappings is
  left. (Device numbers, classes and a node may be: see the findings.)
* A form arrives in pieces that may end anywhere, and an upload may contain almost the boundary. Correct: `cgiMain`
  sees the form that was filled in, or its first fields, and what it saves comes back; every process ends and leaves no
  temporary file. Where the disk is full or a file cannot be opened the code does not keep to this: the properties name
  each such case, and the findings list them.

## 2. Modules and plan

### Written

| module | what it models | runs |
|---|---|---|
| `CgiForms` | the message each form of the page composes, byte by byte: what `sprintf`, `<<` and `|` make of the chosen values | used by `CommandDispatch` and `LedPanel` |
| `CommandDispatch` | queue, request thread, four workers, mutexes, condition variables, command bytes, thresholds, failed opens, exit | `dispatch_*` |
| `CommandMailbox` | the abstract specification of the command path: FIFO into atomic one-byte registers | property `MailboxSpec` |
| `CommandDispatchProofs`, `LedPanelProofs`, `BeeperProofs`, `EnvPublishProofs`, `SensorReadProofs`, `DriverProofs`, `CgicProofs` | TLAPS proofs about the module of that name; `DriverProofs` about `DriverLifecycle` and `Mpu6050`, `CgicProofs` about `CgicRequest` and `CgicMultipart` | |
| `CgicTextProofs` | lemmas about the operators of `CgicText`, for texts of any length | used by `CgicProofs` |
| `LedPanel` | the led thread's programs ioctl by ioctl, and the driver's register writes | `panel_*` |
| `Beeper` | buzzer, dh_mon, music threads, the beeper's driver, `id_music`, `music_flag`, cancel and join | `beeper_*` |
| `SensorRead` | how transfer fills the record: the ZigBee poll with its timeout, the fan thread's flush of the same line, the ADC driver and its interrupt | `sensor_all` |
| `CgicText` | the pure part of cgic: decoding, look-up of entries, cookies, escaping | used by the next three |
| `CgicMultipart` | the multipart reader letter by letter: putback, boundary search, header lines, temporary files | |
| `CgicPage` | the page `cgictest.c` makes of a form, one operator per handler | |
| `CgicRequest` | the life of a CGI process: parse, show, save, restore, free; what it leaves for the next | `cgic_all` |
| `DriverLifecycle` | load, unload and use of one of the four drivers, with kernel calls that fail | |
| `Mpu6050` | that, composed with the MPU6050's ioctls register by register in 16-bit arithmetic | `drivers_all` |
| `EnvPublish` | refresh, transfer, the status CGI, System V semaphore and page, kill, exit, SIGINT, restart | `publish_*` |
| `MCDispatch`, `MCPanel`, `MCBeeper`, `MCPublish`, `MCSensor`, `MCCgic`, `MCDrivers` | values of the constants for TLC | |

`CommandDispatch` and `LedPanel` both EXTEND `CgiForms`, so that the bytes they receive are those the forms really
send. `LedPanel` and `Beeper` look inside the single step `Act` or `Alarm` of `CommandDispatch`; what they take from
it is that nobody stores into a worker's byte while the worker holds its mutex, which is the theorem `MutexCorrect`.

### Order of work and what is left

1. Command path (done): the part all of the user's actions go through, with its abstract specification.
2. Display and sound (done): what the workers do with the devices, and with each other.
3. Publication of readings (done).
4. Acquisition (done): what `EnvPublish` numbers as one fill, step by step, over the serial line and the ADC.
5. Driver load and unload, and the MPU6050 (done): what stays when calls fail, and what a reading is worth.
6. The cgic library (done): every form reaches the programs above through it.
7. Proofs (done but for what follows): every safety property of every run outside cgic, and of cgic its order of letters,
   its temporary files, its types, what the saved file gives back, the space a field needs and the agreement of the look-ups.
   Left: `WithinDeclared`, which needs to say how what is left of a whole message continues; `FormRead` and `TypedIsShown`,
   which need the encoding of a form inverted for texts of any length; an abstract specification of the way of the readings,
   like `CommandMailbox` for that of the commands.

## 3. How the models correspond to the code

**CommandDispatch.** One action per step between two points where another thread can see a difference. The request
thread: `MsgRcv` (`pthread_client_request.c:76-89`, the case is chosen by the message's type), `LockSlot`,
`StoreAndUnlock` (one step: nobody can look while the mutex is held), `SetLimit` for each of the four unprotected
assignments, `Signal`. A worker: `Open`, `Lock`, `CondWait`, `Reacquire`, `Read` (the value an `if` tests), `Act`
(the device call and the reset), `Unlock`; dh_mon: `Judge` (one comparison), `Alarm`. `SpuriousWake` is POSIX's
freedom. `Open` of a broken device is `return` in fan and `exit(1)`, the end of all threads, in the others.
`client`, `queue` are the kernel's; `unserved`, `judged` and `device` only record what happened.

**LedPanel.** `Tests` is the list of `if`s in `pthread_led.c:41-59` with the program each runs and whether it resets its
byte; the programs are sequences of ioctls. `myled_ioctl` computes the bank's data register from the **control**
register, as the driver does. Assumption: before the driver loads, the control registers hold `Boot`, which the runs
take as 0, the reset value.

**Beeper.** A song is a thread with a descriptor out of `Songs`; `BeepOn`, `Flag`, `SongOver`, `Over`, `Close` are the
lines of `fsmusic`; `CancelAt` is the cancellation points: `usleep`, `close`, and `printf`, which may be one. Closing the device silences it
(`fspwmbeeper.c:216-222`). Using a descriptor that was joined or never created is undefined: the model lets it fail
or end the process. Frequencies are not modelled.

**EnvPublish.** `refresh`, `transfer`, `handler` and `env1[r]` are program counters named for the call that comes
next. The record's two parts carry the number of the fill they come from. Semaphores and pages have identities, and
`sem`, `val`, `adj` are the kernel's state and value of a semaphore and each process's SEM_UNDO adjustment. `Abort` is
the `exit(1)` of a thread that cannot open its device; `Interrupt`, `RemoveShm`, `RemoveSem`, `Exit` are
`release_pthread_resource`, running beside the threads. An id that is not set yet is 0, which may name a real object:
removal then takes any or no object. `Kill` of a CGI is what the server or SIGPIPE may do.

**SensorRead.** `pc` is transfer's place in `file_env_info_a9_zigbee` and inside the driver's `read`. Characters carry the
number of the poll they answer and their position, so that a property can say where a number on the page comes from;
`Arrive` delivers any part of what is under way. `Filled` is `read` followed by `dh11_data[read_len] = '\0'`, and
`Digits` is `strncpy` and `atof`, which stop at the terminator; a read of five characters writes the terminator one
past the array, where nothing is kept that is used again. `Failure` is `select` returning -1 or `read` returning nothing, after which the
record keeps what it has. The line has no framing: a read takes up to five characters wherever it is, so that the end of a late
answer and the start of the next can stand side by side in the buffer (`Splice`). `FanFlush` is the `tcflush` in `set_com_config` of the fan
thread. `Kill` in `wait` is a signal that ends `wait_event_interruptible`: the driver goes on, resets `have_data` and
leaves the interrupt to come. The node's answer of four characters and its delays are external.

**CgicText, CgicMultipart, CgicPage, CgicRequest.** A text is a sequence of letters; letters that the library treats
alike are one number, and a number from 256 up stands for a whole word it only compares (`form-data`, the name of a
field). `CgicText` is one operator per function of `cgic.c`, with the buffer size a parameter where a program passes
one. `CgicMultipart` is `cgiParsePostMultipartInput`: `mp` is `mpStream`, with the ring and the offset as the code keeps
them (letters that come from the ring alone do not move the offset); `pc` names the loop it is in: `search`
(`afterNextBoundary`), `eol` and `part` (the two letters behind a boundary), `header` and `cr` (`readHeaderLine`), `body`
(opening its destination), `store`. `FalseMatch` puts back what looked like a boundary. `CgicRequest` is `main`, with `cgictest.c`
and `capture.c` as `cgiMain`: `Main`, `HandleSubmit`, `Save`, `Load` and `FreeResources`. The saved request is the
sequence of strings and integers the library writes, one letter per byte and four letters for an `int`; three of the
twenty-one strings of the environment stand for all. Faults: memory runs out, `mkstemp`, `fopen` or a write fails, the
server kills the process; a kill while saving leaves any beginning of the file, and so does a failed `fclose`,
whose result nobody tests. An upload may be written short when it comes in (`StoreShort`) and when it is restored (`LoadCut`);
when it is saved it may not open (`SaveLost`) or be read in part (`SavePart`); a restoring process may run out of memory where
that is taken for the end of the list (`LoadStops`) and elsewhere (`LoadFails`), and find a file it has just made
impossible to open (`LoadUnopened`), which then stays. `capture.c` saves to one file and `cgictest.c` restores from another; they are
one here, as where what the first takes down is played back by the second. `mkstemp` also fails, without a fault, when every name is taken: `TempFiles` is the set of names,
and `orphans` records the files of processes that were killed or crashed, which nobody will remove. The server passes
on no more of a body than it declared (`RequestAssumption`). An entry restored without a file keeps a name that was never set (`Junk`).

**DriverLifecycle, Mpu6050.** `LoadPlan` and `UnloadPlan` are the calls of each driver's init or probe and exit or remove
functions in the order of the source; `Acquire` and `Release` perform the next one. `held` is the set of pairs of a
resource and the load that took it, so that what an earlier load left behind is told apart. The kernel's part is
external and as in Linux 3: `class_create` and `device_create` report failure by an error pointer, which the drivers
compare with NULL; a class, a node or an interrupt that is still registered is refused; `unregister_chrdev_region` of one minor
does not find what `register_chrdev` took; `device_destroy` on the class that the MPU6050 freed just before may find the device,
or not find it and leave the node, and in either case crash. `Open`, `Close`, `Use` and `Interrupt` are programs and the ADC's interrupt
at any time the module's owner allows; `oops` is the kernel using what is not there, after which nothing is modelled;
`early` records an open before init was over. In `Mpu6050` an ioctl is a sequence of `ReadByte` steps, between which
`Measure` changes the sensor's registers; `seen` records what they held. A value is of type `short`: `Short16` is its
range, and `Readings` any set of triples in it. `ReadByteFails` hands on the error number as
the byte, as the code does, and `InitMpu6050` may leave the sensor asleep, as nobody looks at the result.

## 4. What is checked

| run | instance | shows |
|---|---|---|
| `dispatch_all` | 2 users, queue of 2, led with spurious wake-ups, fan and buzzer without device | types; a mutex is held by exactly the thread between its lock and unlock; a worker executes the byte its global holds; a finished round leaves nothing unseen; the path implements `CommandMailbox` |
| `dispatch_live` | 2 users, queue of 1, led present, fan missing | a command whose signal finds the worker waiting is looked at; no CGI stays blocked, even for a worker that is gone |
| `dispatch_limits` | 1 user, 2 different limit forms, dh_mon | a form's four thresholds reach dh_mon together in the end |
| `dispatch_lost_wakeup` | 1 user, led | **violation**: a signal sent while the led thread is not waiting is lost |
| `panel_show` | all 16 patterns, on, off, any order | no LED stays lit that was not asked for, none after the light show or off; the highest LED of each bank shows |
| `panel_pattern` | same | **violation**: lighting LED5 puts out LED4 |
| `beeper_all` | 2 descriptors, so songs overlap, run out and are joined late | silence at rest (but for a song that starts while it is cancelled); off is served in bounded time; an alarm comes to sound |
| `publish_restart` | 2 CGIs, 2 starts, everything killed or interrupted at every step | the semaphore's value and its holders always add up to one; what a CGI prints is the page of one moment |
| `publish_live` | 1 CGI, 2 starts, exit anywhere but between creating and setting the semaphore | CGIs are served and readings keep flowing, after kills and restarts too |
| `sensor_all` | 3 polls, 2 starts, killed at every step | both digits of a number were neighbours on the line: of one answer, or the end of one and the start of a later one; if the line was quiet they are this poll's own; without interruption the ADC value is this fill's; fills end, answered or not |
| `cgic_all` | GET, POST and multipart forms, uploads of 89 contents made of pieces of a boundary, a body broken at every letter, one fault anywhere, a second request that restores the first | `cgiMain` sees the form that was filled in, or its first fields if the transfer broke off, except that an upload is cut if the disk was full and empty if its file could not be opened; no letter of a body is lost; no read beyond what was sent; fields fit the space the library names; name, address and cookies come out as typed, and name and address without markup (the age and the votes are printed unescaped and not claimed); look-ups agree; no temporary file stays but those of killed or crashed processes and an empty one that could not be opened; a restored form is the saved one or its first fields, with less of an upload only where the disk or a file failed; every request ends |
| `drivers_all` | each of the four drivers, 3 loads, one failed call, one failed transfer | an open file keeps code, structure and cdev; no structure, cdev or mapping of LED, beeper and MPU6050 stays, nor a node of LED and beeper; the kernel survives, but for the cases the property names; an axis handed out is within 255 of a value the sensor had during the ioctl |

Why the bounds are enough. Two users and a queue of two make the queue full with one more message in hand and one
blocked; both globals of the led worker are needed for coalesced wake-ups, and one command that is reset and one that
is not cover both kinds of byte. The safety part of the command path does not rest on the bounds at all: it is
proved. `LedPanel` is checked over every byte the forms can compose. Two song descriptors allow everything the shared
`id_music` can do: overlap, a cancelled song beside a new one, a double join, no room. In `EnvPublish`, two CGIs
compete with each other and with refresh; two starts show what a restart finds; one numbering of fills (0, 1)
suffices to tell a cleared page, a filled and a half-filled one apart. In `SensorRead`, three polls let an answer be
late, be read in pieces with the next one and leave characters for the third; two starts let an interrupt outlive
its process. In `CgicRequest`, typed texts have up to two letters of every kind that any conversion treats in a way of its
own (and a longer burst of line ends), in buffers (3 and 4) that they fill exactly, overflow by one, or leave room in; uploads have up to
three letters of `CR LF - B` and four longer teasers, against the delimiter `CR LF - - B`, so that each false match can begin,
end and overlap another; three names of temporary files let a
process find none left, when its predecessor left some behind; one fault
(`MaxFaults`) at any step, and two requests (`MaxRequests`), since a second one meets all that the first left. In
`DriverLifecycle`, three loads (`MaxLoads`) are one that leaves something, one that meets it and one that meets both; readings
lie on both sides of a change of the high byte and of the sign.

CHECK_DEADLOCK FALSE is set where the system may stop: the process has exited (`dispatch_all`, `beeper_*`), or all
starts, polls, requests or loads are used up (`publish_*`, `sensor_all`, `cgic_all`, `drivers_all`, which also ends with
the kernel's `oops`).

### Fairness

Threads that can take a step take it (weak fairness of each thread's own steps): the scheduler preempts and every
device call returns. Strong fairness is assumed where a waiter competes: `Reacquire` and `MsgSnd` (the kernel wakes
mutex and queue waiters in turn), `RefreshP` and `ReaderP` (System V semaphores keep a FIFO of waiters). A song's
last note is fair only where a property says so in its premise. In `SensorRead` the thread runs, the second of `select` passes
and a conversion ends; no answer need ever come. In `CgicRequest` a process that is not killed runs
on; that its body is all there, or ends, is the server's part. No fairness is assumed of users, of the end of
processes, of signals, or of spurious wake-ups.

### Findings

* A signal sent to a busy worker is lost (`pthread_client_request.c:102`): no predicate is tested before
  `pthread_cond_wait`.
* `led_on` computes from the control register (`demoarm.c:158`): patterns with LED4 and LED5 show one of them.

Seen while modelling, without a run of their own: one judgement of dh_mon may mix the thresholds of two forms
(`pthread_client_request.c:148`); a song closes the buzzer thread's descriptor, so later songs are
silent (`pthread_music.c:68`); the pattern byte is never reset, so off of the Led form is followed by the old pattern
(`pthread_led.c:57`); fan speeds 2 and 3 are bytes the fan thread does not know (`pthread_fan.c:27`); refresh copies
the record while transfer fills it (`pthread_refresh.c:127`); dh_mon and a song can silence each other's sound
(`pthread_music.c:67`); once an answer of the node is late, all later ones are read one question behind, until the
next start (`pthread_transfer.c:102`), and the last digit of one answer and the first of the next may be shown as one number, since nothing
marks where an answer begins (`pthread_transfer.c:113`); an interrupted ADC read can leave `have_data` one conversion ahead from then on
(`adc.c:68`); the fan thread's flush can leave transfer blocked in `read` (`linuxuart.c:116`);
off may leave a song sounding that switches the beeper on while it is cancelled (`pthread_buzzer.c:46`); a process that
ends between `semget` and `SETVAL` blocks its successors for ever (`pthread_refresh.c:80`).

In cgic, `cgiWriteEnvironment` and `cgiReadEnvironment` return success where `cgic.html:1814-1818` promises an error: an upload that cannot
be opened is saved as none (`cgic.c:1988`), one whose reading fails is saved in part (`cgic.c:1332`), `fclose` on a full disk is not
looked at (`cgic.c:1995`, `2186`), and lack of memory for a field's name is taken for the end of the list (`cgic.c:2124`). Two uploads
of one field name are both saved with the file of the first (`cgic.c:1970`), although `cgic.html:1271` and `cgictest.c:470`
promise to play back the same scenario. `RestoredIsSaved` states each of these as an exception, and TLC violates it if one is taken out.

Also in cgic: an upload that a full disk cuts is given to `cgiMain` as if it were whole (`cgic.c:562`); an upload whose file cannot be opened
arrives as an empty file with the content as its value (`cgic.c:523`), and if its boundary is missing too, or the form is being
restored (`cgic.c:2158`), the empty file stays on the disk; `cgictest.c` prints the age (`cgictest.c:201`) and the votes
(`cgictest.c:251`) as they were typed, without escaping; on a transfer that breaks off the reader may ask for more than
the declared length (`cgic.c:355`); a parameter of Content-Disposition that the library does not know is used as a null
pointer (`cgic.c:899`); of a header value each further colon is dropped (`cgic.c:932`); lack of memory after an entry was listed frees it twice (`cgic.c:590`); a restored
form that was saved by the save button saves again (`cgictest.c:51`).

In the drivers: LED and beeper never destroy their class, so a reloaded module gets no node and unloading it uses an
error pointer (`fspwmbeeper.c:294`); the MPU6050 destroys its class before the device in it (`mpu6050_drv.c:278`), so that its node may stay, and
releases one minor number of 256 (`mpu6050_drv.c:277`), so that its number stays registered with operations that are gone;
the node exists before the registers are mapped (`demoarm.c:351`); the ADC gives nothing back and has no owner
(`adc.c:89`); a failed I2C transfer returns its error number as data (`mpu6050_drv.c:98`), and the low byte of
each axis is lost (`mpu6050_drv.c:143`).

## 5. What is proved

`CommandDispatchProofs` holds for any set of CGIs, any requests that the forms can compose, any queue capacity of at
least one, any sets of started, broken and spuriously woken workers, from `ConstantsAssumption` and the assumption of
`CgiForms` alone.

* `TypeCorrect`: `IInv == TypeOK /\ TodoOK` is inductive. `TypeOK` alone is not: that a worker in `act` has something to
  act on, and only globals of its own, is needed for the types of `Head(todo)`.
* `MutexCorrect`: `MutexInv` is inductive relative to `IInv`. Mutual exclusion of a worker's round and a store
  (`Exclusion`) is a consequence of one mutex having one owner.
* `CurrentByteCorrect`: from exclusion, the byte a worker acts on is still in its global when it resets it.
* `RoundCorrect`: `RoundMissesNothing` is strengthened to `RoundInv`: at every point of a round each unseen command of the
  worker is still ahead in `todo`.
* `MailboxCorrect`: refinement of `CommandMailbox`. A message is delivered at `StoreAndUnlock`, a command served at `Act`,
  the process's exit is a `Crash` that may lose the message in hand; every other step stutters. `Act` is a `Serve` only
  because of `CurrentByte`.

`LedPanelProofs` holds for any set of forms the page can send and any control registers `Boot` (`PanelAssumption`).

* The invariant looks ahead instead of back: what an LED will show at the end is decided by the last ioctl still to come
  on its bank, or by its data bit if there is none (`WillBeLit`, `WillBeDark`). An ioctl cannot change that
  (`IoctlDecides`), so all the work is in what each program brings about from any state of the panel: `CloseAllShows`,
  `WaterledShows` and, for every pattern byte, `PatternShows`.
* `HighestCorrect` needs no more. `UnaskedCorrect` has the hypothesis `BootClear`: bits 4 and 5 of the shared bank's
  control register are 0. They belong to the nibble of pin 1, which the driver does not touch, and are 0 after a reset;
  if they were not, `led_on` would copy them to LED4 and LED5.

`BeeperProofs` holds for any finite set of songs (`SongsAssumption`). `SilenceInv` names who will end a sound: dh_mon, which
is not at `wait`, or a song that has sounded, that nobody is cancelling, and whose close of buzzer's descriptor is still to
come while the descriptor is open. `SilentAtRest` alone says nothing of a song that is playing.

`EnvPublishProofs` holds for any number of status CGIs, of starts and of fills, and any sets of steps at which refresh is aborted or
interrupted (`EnvAssumption`; its last conjunct only says that they are steps of refresh).

* `KernelInv` says which objects exist and who knows them: a start creates at most its own semaphore, nobody works with one
  that is not created, and a handler removes the page once, so that there is always an identity for the next page.
* `ExclusionInv`, inductive relative to it: between P and V a process is alone with its semaphore, removed ones included; its
  adjustment is 1 exactly there; a semaphore that was set is 0 exactly if somebody is there, and one that was not set has
  nobody there. `SemCorrect` counts what this says (`CountHolders`); that a value is 0 or 1 rests on it too, so
  `TypeCorrect` does.
* `SnapInv`: what a CGI has printed so far is what the page held when it got the semaphore. Only the first run clears a
  page that no CGI can have read (`SnapshotRead` is about that run), and the page is still zero then.

`SensorReadProofs` holds for any number of polls and starts (`SensorAssumption`). The characters that have been received and
those on their way are one stream. `StreamInv`: it has no gap and ends with the end of an answer. Each step cuts its front
off, moves its middle, or lengthens its end, and `SuffixKeeps`, `ArrivalKeeps` and `AskContinues` say that neither makes a
gap; so whatever a read takes, characters next to each other in the buffer followed each other on the line or have a
terminator between them (`DataInv`, `LineOrder`): they are of one answer, or a splice of the end of one and the start of a later
one. `QuietInv`: on a line that was quiet the stream is a suffix of this poll's answer, which has no splice, so the digits are its own
(`OwnDigits`, the second half of `DigitsCorrect`). `FreshInv` ties `have_data`, the conversion and the place in the driver's `read` together while no wait was
interrupted.

`DriverProofs` holds for any number of loads, of failing calls and transfers, and any readings of 16 bits
(`LifecycleAssumption`, `ReadingAssumption`).

* `OwnedInv`, for the three drivers that give back what they took: of what points into the module everything belongs to the
  last load, and what is held is told by the step of the init or exit function (`LoadingInv`, `UnloadingInv`). `AdcInv`, for
  the driver that gives nothing back: the class of its first load spoils that of each later one, which is why no later
  load has a node. `Mapping` is what the exit functions surely give back, and so what `UnmapCorrect` is about: structure, cdev,
  mappings, and the node of LED and beeper, not that of the MPU6050. `KernelSurvives` is part of the invariant, as an `oops` may only come from there.
* `AxisInv` follows the ioctl: of an axis whose two registers were read without an error, the value is within 255 of
  what the sensor held when the high byte was read. `HighByte`, `LowByte` and `ShortOf` are the 16-bit arithmetic behind it.

`CgicProofs` holds for any requests with a body no longer than declared, any boundary, any number of faults and of
processes (`RequestAssumption`, `MultipartAssumption`).

* `OrderCorrect`: `NothingLost` is an equation between sequences, and `mpPutBack` appends to the ring whatever is in it, so letters
  would be swapped whenever something is put back into a ring that is not empty. `RingInv` says that this does not happen,
  and it differs with the place: before the first boundary the ring may hold letters, but ring and match together are no
  longer than the boundary and nothing is kept, so order does not matter and the ring is empty when the boundary is
  complete; later a boundary begins with CR and has no other, so of the letters put back only the last can begin a match:
  while something is matched the ring is empty (`DelimiterInv`, `RingInv`). Behind a boundary at most two
  letters are in it, and a header line skips spaces only when it is empty. `OrderInv` is then preserved by `ReadFacts`
  (what `mpRead` returns and leaves, joined, is what was there), `BoundaryGrows` and `BoundaryFails`. `OffsetInv` bounds the
  offset, although letters read from the ring do not move it.
* `GoneCorrect`: `EntryInv` says that every entry's file exists and is its own, and that the part being read has a file
  that is no entry's; `FileInv` that each file on the disk is an entry's, the part's, or of a process that is gone. The
  exception of `TempFilesGone`, an empty file that was made and could then not be opened, is one of `FileInv` (`Spare`). That parsed forms have no files is
  `ParsedFacts`: `ParseFormInput` is a recursive function over the positions of its text, and what is claimed of it holds
  because there is no last position where it fails (`LeastNat`).
* `TypeCorrect` takes `mp.offset <= req.length` from `OffsetInv` and unshared files from `EntryInv`.
* `RestoredCorrect`: the saved file is the layout of the form as it was kept, or a beginning of it (`Layout`, `SavedInv`,
  `FileCut`). A process that saves has written a whole number of fields, one that restores has read a whole number of
  them and stands where the next begins (`Progress`); there is a lemma for the first, a middle and the last step of each
  (`SaveOpens`, `SaveGoesOn`, `SaveCloses`, `LoadOpens`, `LoadGoesOn`, `LoadCloses`). What makes this work is that the
  format can be read back at all: `ReadsInt`, `ReadsString`, `ReadsHead` and `ReadsEntry` say that what is all there is read as
  it was written, and that what is cut is seen to be cut. They need entries without a NUL (`PlainInv`; a string read
  back ends there, as in C) and a form whose files are as long as it says, which is the premise `kept.whole` of the property: a full
  disk or a failed read makes it false (`SaveBreaks`), and then nothing is claimed. What is written of an upload
  that cannot be opened is the field without it (`AsWritten`, `SavedWithout`); `OnDisk` says that the file is a beginning of the layout of
  what was written so, and `WrittenStays` that this lasts. With `LoadCut` the field read is one `AsSaved` allows. So a cut inside the head, or inside a field
  behind its name, ends the restoring process, and a cut before or inside the name of a field gives the fields before it. `OnlyOne` is
  why the names must differ: otherwise the second upload is saved with the file of the first. In the model
  an `int` below 2^16 has one letter per byte; a larger one has all that exceeds its lowest byte in the second letter.
* `SpaceCorrect`: `CopyChar` is read as a run over the entry's value (`WholeRun`). A buffer of as many letters as the value has,
  and one more for the zero, cuts nothing, since a burst of CR and LF that is held back becomes no more LFs than the
  letters it consumed (`Roomy`). A smaller buffer goes through the same states until it is full, so what it
  holds is a beginning of the whole (`CutRun`, `Trails`). That asking for the first and asking for all of a name agree is
  `FirstOfAll`.
* `AnswersCorrect`: `cgiFormEntries` takes an entry's name when no earlier entry has it, so each name comes once (`Picked`,
  `EachNameOnce`), and the entries of these names are disjoint sets whose sizes add up to the number of entries
  (`NothingLeft`). A value without a line end comes through `CopyChar` unchanged, and one with a line end keeps an LF and so is no candidate's
  name (`EntryText`): hence the two ways of counting votes agree (`ChosenAgree`).
* `MarkupCorrect`: `HtmlEscape` of any text has no `<` and no `>` (`Escaped`), and everything the page shows of the name and the
  address went through it. `NoMarkup` is that part of `TypedIsShown` and is stated beside its proof.

The last four rest on `RestoreInv`, inductive relative to the invariant `IInv` of the theorems before them. The operators of
`CgicText` walk over a text with recursive functions inside a LET. What one of them returns is beyond the library's
induction theorems, which need an operator as a parameter. `FunctionUp` and `FunctionDown` get it from a least position
instead: where each value depends only on those before it (or only on those behind it), and the step keeps within a set, the
recursive equation has a solution with values in that set. What is to be known of the values is put into the set, position
by position, and `CgicTextProofs` derives what it says of each operator that way.

Only model-checked: liveness (`SleeperServed`, `CgiReturns`, `LimitsReachMonitor`, `StopReturns`, `AlarmSounds`,
`ReaderServed`, `PublishGoesOn`, `FillEnds`, `RequestEnds`), since the prover does not handle ENABLED and fairness; and of cgic
`FormRead`, `TypedIsShown` and `WithinDeclared`. The first two compare what arrives with the form that was filled in, and are true
only of requests whose body really encodes their form. The runs' requests are built that way; `RequestAssumption` does not
demand it, and with it one would still have to invert the encoding letter by letter. `WithinDeclared` depends on the grammar of a whole message.

## 6. What is not modelled, and why

* The commands the fan thread writes to the serial line, and
  whether the node takes them.
* Frequencies and lengths of notes, and the ioctl argument that two callers of the beeper's driver share.
* Values of readings: `EnvPublish` and `SensorRead` number them; the comparison in dh_mon is a free choice in `Beeper` and
  `CommandDispatch`.
* SIGINT's destruction of mutexes and conditions that threads still use (undefined behaviour that ends with the process
  a moment later) and the removal of the message queue.
* In cgic: the wording of pages, the date in a cookie, the branches for Windows, the library's own buffers of 1024
  letters (headers and names longer than that are cut), the strings of the environment beyond three.
* In the drivers' life cycle: failures of `register_chrdev`, `cdev_add` and `ioremap`, whose results the code hardly uses,
  and probing without a device tree node. That transfer goes on after it failed to open a device
  (`pthread_transfer.c:44-47`).
* `login` and `picture1`: one comparison and one directory listing, no state. boa, mjpeg-streamer and the kernel image: third party.
  `stage_storage/obj-proj` and the drivers' `test.c`: older copies and hand tests.
