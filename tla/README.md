# A TLA+ model of the EtherKit EtherCAT slave

This directory holds a specification of the program in `../src`: the EtherCAT
CoE slave of the RZ/N2L EtherKit (RT-Thread), its TLC configurations, and proofs
checked by TLAPS. `PROJECT.json` lists components, runs, mutants, hazards and
theorems, and maps every definition to the source lines it stands for.

## 1. The system

The board runs the Beckhoff slave stack code on one thread, `ec`
(`board/ports/ethercat/ethercat_coe_app.c`), with three sources of interrupts.
The other side of everything is the EtherCAT slave controller (ESC), a chip that
the processor and the bus master both read and write.

| Part | Source | State it keeps | Operations |
|---|---|---|---|
| AL state machine | `beckhoff/Src/ecatslv.c` | `nAlStatus`, `bEcatWaitForAlControlRes`, `EsmTimeoutCounter`, `bEcat…UpdateRunning`, DC flags and counters | `AL_ControlInd`, `AL_ControlRes`, the handlers, `CheckIfEcatError`, `DC_CheckWatchdog`, `ECAT_Main` |
| Main loop, timer, ISRs | `beckhoff/Src/ecatappl.c` | `bEcatFirstOutputsReceived`, Sync0 and SM counters | `MainLoop`, `ECAT_CheckTimer`, `PDI_Isr`, `Sync0_Isr`, `Sync1_Isr` |
| Mailbox | `beckhoff/Src/mailbox.c` | two queues, the buffers to repeat from, flags, counters | `MBX_Main`, `MBX_MailboxReadInd`, `…WriteInd`, `…RepeatReq`, `MBX_CheckAndCopyMailbox`, `MBX_MailboxSendReq`, start and stop |
| CoE | `ecatcoe.c`, `coeappl.c` | `pCoeSendStored`, the SDO service in work | `COE_ServiceInd`, `COE_ContinueInd`, `COE_Main` |
| SDO server | `sdoserv.c` | segment and fragment counters | upload, download, SDO information |
| Object dictionary | `objdef.c`, `coeappl.c` | entries and their data | `OBJ_Read`, `OBJ_Write`, lists |
| CiA 402 profile | `cia402appl.c`, `samplecia402.c` | an axis' state, option codes | state machine, error reaction (built only with `CiA402_SAMPLE_APPLICATION`) |
| Sample application | `sampleappl.c`, `sampleios.c` | process data, active axes, mapped size | mapping, copying, state callbacks |
| CyberGear driver | `board/ports/Cybergear` | shared CAN messages, motor records | threads that send and receive (an option, off by default) |
| ESC port | `rm_ethercat_ssc_port.c` | timer, interrupt mask | register access |

How they meet:

- the **master** writes AL Control, the sync-manager settings and requests into
  the ESC at any moment, and reads AL Status and replies; nothing orders its
  writes with the steps of the slave;
- **thread `ec`** calls `MainLoop`, which polls process data, the timer,
  `ECAT_Main` (registers, AL control, SM change, pending transitions, mailbox),
  `CheckIfEcatError` and `COE_Main`, in this order, for ever;
- **interrupts** (process data, Sync0) write the counters and flags by which the
  thread decides about OP. `ENTER_MBX_CRITICAL` and its like are empty in this
  build: nothing but the order of the statements protects the data. They do not
  interrupt each other: `BSP_CFG_MULTIPLEX_INTERRUPT_SUPPORTED` is 0
  (`rzn_cfg/fsp_cfg/bsp/bsp_cfg.h:29`);
- AL transitions start and stop the mailbox and the process-data handlers;
  mailbox services are called from the mailbox and may answer later through it.

What is hard: the order of master, timer, interrupts and thread around the
entry into OP and its timeout; a register read early in `ECAT_Main` and used
after the state has changed; replies lost and repeated while others wait;
requests sent twice; a send queue at its limit; a heap without a free buffer; a
stop of the mailbox with everything half done. `PROJECT.json` has the hazards
line by line, those no property covers yet included.

What makes each part correct:

- AL state machine: what the master reads is a run of the EtherCAT state
  diagram; outputs are applied in OP only; OP is entered only under the
  conditions of its mode; leaving it shuts the outputs; no transition hangs.
- Mailbox: each request is answered once, replies arrive in order and once,
  every buffer has one owner, nothing blocks for ever.
- SDO server: a transfer of any length ends with the object's bytes, whole and
  of one value, or with an abort; no error, interruption or late answer leaves a
  buffer behind or makes the next transfer fail.
- Object dictionary: the linked list has exactly the objects of the axes that are
  active and can be walked both ways; in SAFEOP and OP the mapping has the size
  the sync manager was checked against; a list of objects is complete.
- CiA 402: only edges of the drive diagram; brakes and power follow the state
  although interrupts change it between any two steps of the main loop; no axis is
  energised but on command; a command to remove the voltage is obeyed.

## 2. The modules

| Module | What it is |
|---|---|
| `ESM` | the abstract EtherCAT state machine: AL Control, AL Status, "in work" |
| `EcatSlave` | `ecatslv.c` and the loop, timer and interrupts of `ecatappl.c`; implements `ESM` |
| `MCEcatSlave` | values of its constants |
| `EcatSlave_proofs` | theorems about `EcatSlave` |
| `EcatSlaveESM_proofs` | theorems about what the master reads: leaving OP, and the refinement of `ESM` |
| `MailQueue` | the abstract mailbox: a queue from slave to master that a stop empties |
| `Mailbox` | `mailbox.c`, the deferred answers of CoE and SDO, the mailbox part of `ECAT_Main`; implements `MailQueue` |
| `Mailbox_proofs` | theorems about `Mailbox`: types, buffers, what waits |
| `MailboxOrder_proofs` | theorems about `Mailbox`: the order of the replies, and the refinement of `MailQueue` |
| `MailboxAnswers_proofs` | theorems about `Mailbox`: one answer to each request, the fragments of a list |
| `DriveDiagram` | the abstract drive: the edges of the state diagram, numbered as in `cia402appl.h` |
| `CiA402` | `cia402appl.c` for all axes: state machine, application, local error; implements `DriveDiagram` |
| `CiA402_proofs` | theorems about `CiA402`, the refinement included |
| `SdoServer` | the sessions of `sdoserv.c` and the service in work of `coeappl.c` |
| `MCSdoServer` | three objects and their lengths |
| `SdoServer_proofs` | theorems about `SdoServer` |
| `ObjDic` | the linked list of objects, PDO assignment, module configuration, object lists |
| `MCObjDic` | a dictionary of three general objects and two of each axis |
| `ObjDic_proofs` | theorems about `ObjDic`: the linked list, the mapping, object lists |

The larger modules are built the same way. The globals of a C file are one
record (`slv`, `mb`, `sdo`), with the C names as fields; **a C function is an operator
from a record to a record**, and calls compose in the order of the source, so
that an action contains everything its handler does. The main loop is cut into
phases (`pc`) where the code reads the ESC anew or finishes with it, and the
master and the interrupts act between any two phases.

### EcatSlave

| Action | Code |
|---|---|
| `PollProcessData` | the poll of SM2 or SM3 in free run (`MainLoop`) |
| `CheckTimer` | `ECAT_CheckTimer` with `DC_CheckWatchdog` when a millisecond has passed |
| `ReadSm1` | the begin of `ECAT_Main`: `sm1Activate` is read |
| `AlControlEvent`, `SmChangeEvent`, `NoEvent` | `ECAT_Main` up to the AL control and SM change events, with `AL_ControlInd` |
| `PendingTransition` | `AL_ControlRes` |
| `CheckSm1` | the test of `sm1Activate`, stale by now (`sm1Off`), with its `AL_ControlInd` |
| `CheckError` | `CheckIfEcatError` |
| `PDI_Isr`, `Sync0_Isr` | the interrupts |
| `Tick`, `WriteAlControl`, `ConfigureSm`, `ProcessData`, `WatchdogExpires` | timer, master, ESC |

Data are abstracted to what the decisions tell apart: `nAlStatus` is a state and
two flags; the settings of sync managers 0/1 are `ok`, `bad`, `off` or
`overlap`, those of 2/3 a fault or an address; sizes and watchdog values are
zero or not; `Sync0WdValue` is a number of ticks and 0 where the supervision is
off. A request may be a value that names no state (`Unknown`), with or without the
bit of OP, which `AL_ControlInd` tests by itself (1948).
`StartInputHandler` takes its result from `StartConfigs` (the many
checks of watchdog, cycle time and buffers each end in one of its codes, the
synchronisation is set by the user or follows the registers) and
`APPL_GenerateMapping` from `Mappings`. The two sets, and `Requests`, are
constants, bounded by assumptions that list all results the code can give, so
the proofs hold for all of them. `SMWATCHDOG`, `SYNCERROR` and the other codes
are the AL status codes.

Left out: `ECAT_StateChange` (nothing in this build calls it; hence no local
error flag), Sync1 and LEDs.

### Mailbox

`Loop` is one pass of `ECAT_Main`: `Serve` (one mail of the loop in `MBX_Main`),
`Main` (the rest of `MBX_Main`, the request that was refused), `ReadActivate` and
`ReadStatus` (the two registers of sync manager 1, read one after the other),
`NoTransition | StartMailbox | StopMailbox` (what `AL_ControlInd` may do),
`Indications` (`MBX_MailboxReadInd`, then `MBX_MailboxRepeatReq`), `WriteEvent`
(the write event; like `Main` it calls `MBX_CheckAndCopyMailbox`), and
`FinishSdo | SdoStillInWork` (`COE_Main`). The master writes a request, writes it
again, reads, loses and asks for a repetition; like the IgH or TwinCAT masters it
counts requests from 1 and drops a reply with the counter of the one before.

A mail is its buffer, its counter, what it is and how many fragments follow. The
kinds of requests differ in how they are answered: at once (`sdo`), by
`COE_Main` (`work`), in fragments (`list`), with an error (`bad`, `long`), or not
at all (`foe`: no such service is built in; `MailboxServiceInd` then returns a
variable it never set, so any FoE mail may also be taken for an error). The heap
is the set of buffers handed out; an allocation fails when it is used up, and
up to `Failures` times besides.

### CiA402

| Action | Code |
|---|---|
| `ReadAxis`, `SkipTransitions` | an axis in the loop of `CiA402_StateMachine`: the control word is copied; in OP transitions 1 and 2 are skipped (`i16State` read at 426, written at 435) |
| `Switch`, then `SetPending` or `Transition` | the switch reads `i16State` (438); a transition with an option code is set pending and ends the pass, any other is written (446 .. 649) |
| `Update`, `Drive` | the second switch reads `i16State` again (664) and chooses the outputs; these and the status word are written |
| `StillPending` | an axis whose option code is pending ends the pass, also for the axes after it |
| `CiA402_Application` | the cyclic application for all axes: a finished ramp completes the transition |
| `CiA402_LocalError` | an error is detected: FAULT_REACTION for all axes |
| `APPL_OutputMapping` | a new control word (in OP) |
| `AlStatus` | OP is entered or left, between two passes: `ECAT_Main` and the state machine are called one after the other by the same loop |
| `WriteOption` | an SDO download to 0x605A .. 0x605E |

An axis is one step for each read and each write of `i16State`, and the
application, which runs in an interrupt, comes between any two of them, as does a
new control word. `CiA402_LocalError` has no caller in the repository: what
calls it is a constant, `ErrorsInterrupt`, a part of the main loop or an interrupt.
The outputs of an axis are one step: brake, power and axis function are asked for
together, and the one that makes the difference is written last on the way in and first
on the way out.

A control word is the command the masks of `cia402appl.h` make of it; all
`MAX_AXES` axes are taken to be active. Positions and velocities are left out: a
ramp (`CiA402_TransitionAction`) ends at once or, for an unknown code, never. Of
the status word only what `CiA402_StateMachine` reads itself is kept: whether it
shows QUICK_STOP.

`DriveDiagram` has two groups of edges that the diagram has not and the code has.
`Overtaken`: a transition that was pending when the error came completes and
replaces the fault reaction (section 5). `Overwritten`, if errors come
in interrupts: the main loop read the state before the error and writes the transition
after it.

### SdoServer

| Action | Code |
|---|---|
| `WriteNow`, `ReadLater`, `WriteLater` | `SDOS_SdoInd` for an object that fits into one mail, answered at once or by `COE_Main` |
| `StartUpload`, `StartUploadLater`, `UploadRefused` | initiate upload of a larger object: at once, `ABORTIDX_WORKING`, no memory or an error of `OBJ_Read` |
| `StartDownload`, `DownloadRefused` | initiate download: a buffer, or none |
| `UploadSegment` | `SdoUploadSegmentInd` |
| `DownloadSegment`, `LastSegment`, `LastSegmentLater` | `SdoDownloadSegmentInd` with its checks of toggle and length, and the `OBJ_Write` after the last |
| `COE_Main` (`LateSmall`, `LateUpload`, `LateDownload`) | `COE_Main` with `SDOS_SdoRes` |
| `StopMailbox` | `SDOS_ClearPendingResponse` |
| `GiveUp`, `Change` | the master aborts or goes silent; the application changes an object |

Requests and replies are one step: that each arrives once and in order is the
promise of `Mailbox`. There is one segmented transfer, because the server has one
session and does not know who asks; requests in one mail come between its
segments. Data is a value and a number of bytes; bytes put at another offset
than where they come from, or behind bytes of another value, make it `Torn`. The
headers that take 16 and 9 bytes of a mail, and all comparisons of lengths, are
those of the code.

### ObjDic

| Action | Code |
|---|---|
| `ToSafeop` | PREOP to SAFEOP: `APPL_GenerateMapping` with `COE_AddObjectToDic` and `COE_RemoveDicEntry`, and what may refuse afterwards |
| `OtherTransition` | any other change of the AL state |
| `WriteCount`, `WriteEntry`, `WriteAll`, `WriteEntries` | `OBJ_Write` to 0x1C12: subindex 0, an entry, complete access from subindex 0 and 1 |
| `ConfigureCount`, `…Entry`, `…All`, `…Entries` | the same for 0xF030, through `Write0xF030`, which also assigns the PDOs |
| `FirstFragment`, `NextFragment` | `SDOS_SdoInfoInd` and the later fragments of `OBJ_GetObjectList` |

The linked list is kept as its pointers (`head`, `next`, `prev`), so that a wrong
link is a state the model can be in. A write stops at the first entry with a bad
value and leaves the ones before it written, as the code does.

Subindex 0 is a word: the lower byte (`Low`) is compared with the number of axes
and bounds the entries written, the word is stored (`Uppers` are the upper
bytes the master writes). `APPL_GenerateMapping` refuses more PDOs than axes
(NOVALIDOUTPUTS). The loop of `Write0xF030` over the modules counts in a byte;
with a word of more than 255 it has no end (`endless`), runs behind the arrays,
and the model stops there. Complete access to 0xF030 looks at no AL state;
`late` remembers that it changed 0x1C12 after the mapping.

## 3. What TLC checks

| Run | Question | Bounds |
|---|---|---|
| `EcatSlaveSm` | free run and SM-synchronous operation: what outputs, handlers, sync managers and AL Status may do, what becomes of a request for OP, and that it implements `ESM` | all states and an unknown one requested, three mailbox settings, both process-data faults, timeout of 1 tick |
| `EcatSlaveLive` | SM and DC operation: OP is entered only under the conditions of its mode, in every order of Sync0, process data, timer and timeout; transitions end, requests are read, a lost watchdog or Sync0 ends OP | timeout 2, PLL wait 1, limit 1; no faulty settings of SM 2/3 |
| `MailboxQueue` | answers once, in order, no buffer shared or leaked, with repetitions, losses and stops at any time | two requests at once, counters 1..3 |
| `MailboxList` | fragments of lists in order, mixed with late and refused requests, in BOOT and PREOP, with a failed allocation | three fragments, one request at a time |
| `MailboxErrors` | oversized and FoE mails until the heap is used up: no reply is left in the store | three buffers, a queue of three |
| `MailboxLive` | with enough memory, announced fragments are sent and requests are answered, although replies are lost and requests repeated | a list of two fragments |
| `CiA402` | brakes and power against the state, the drive diagram, and the command to remove the voltage, with interrupts, errors among them, between any two steps | two axes, 0x605B written with 0 or 2, one error or write |
| `SdoServer` | transfers are intact, objects never mixed, buffers freed once, no protocol error for a correct master, transfers end | objects of 4, 43 and 69 bytes, mailboxes of 34 |
| `ObjDic` | the list of objects, the mapping in SAFEOP and OP, and object lists, against words in subindex 0, writes in any state and writes that fail half-way | two axes, seven objects, two PDOs and two modules (one of each refused), upper bytes 0 and 1 |
| `EcatSlaveId`, `MailboxMemory`, `CiA402QuickStop` | the findings in section 5 | |

Why the bounds are enough:

- The three times of `EcatSlave` matter only by which ends first. With
  `EsmTimeout` 2 and `PllTime` 1 the wait may end before, in the same tick as, or
  after the timeout (the count rises only while the signal is there, so its end
  can be delayed at will). `SyncLimit` 1 is the smallest
  limit that supervises: the counter may pass it before the check looks. 0 would
  switch the supervision off, as in the code.
- Three counters are enough to tell "the same mail again", "the next one" and
  "an old one"; the code's seven add more of the third kind. `Window` 2 puts a
  request into sync manager 0 while one is in work. Two open requests cannot
  fill the three places of its queue (`QueueSize` less one), and `NoReplyStored`
  shows in `MailboxErrors` that one cannot fill two: the nine places of the code
  behave alike.
- One list fragment after another repeats the same step; two after the first
  have a first, a middle and a last.
- `MailboxErrors` does not ask for `AnsweredOnce`: an oversized mail is refused
  before its counter is stored (`mailbox.c:498`), so that its repetition is
  refused again. Nor is it asked for `BuffersHaveOneOwner`, which `MailboxQueue` and
  `MailboxList` check: FoE mails are never freed (`unfreed`), and of the others
  `BuffersAreOwned` (section 4) says it. Both are what the code does. It is a run of its own because
  a heap that FoE mails have used up ends every list in the middle.
- Two axes have a first and a last in a pass, and one that starves the other.
  Of the option codes, 0x605B alone is written: 0, its default, takes the edge at once,
  2 the ramp; the others behave alike except for a quick stop that stays, which
  is `CiA402QuickStop`. The theorems hold for any number of axes and any codes.
- With mailboxes of 34 bytes an initiate mail has room for 18 bytes, a segment
  for 25: 4 bytes fit into one mail, 43 = 18 + 25 fill the last segment exactly
  (an empty one follows in an upload), 69 = 18 + 25 + 25 + 1 need three segments
  and both toggle bits. The theorems hold for any lengths.
- In `ObjDic` the five objects with one axis fill two fragments exactly, the seven
  with two axes need a third, and the objects of an axis go between and behind the
  others. 0x1018 and `bad` are refused values; an upper byte of 1 is the least that
  makes a word more than any number of entries. The theorems hold for all.

`CHECK_DEADLOCK` is off in `ObjDic` alone, whose model stops in the endless loop;
elsewhere the loop runs for ever. `TypeOK` of `SdoServer` is proved and is not
asked of a run.

### Fairness

- `WF(MainLoop)`, `WF(Loop)`: thread `ec` is an endless loop that calls
  `MainLoop` and then yields; nothing in `MainLoop` blocks.
- `WF(Tick)`: the hardware timer does not stop.
- `SF(FinishSdo)`: an application that keeps an SDO service in work finishes it
  some time, though at any particular look it may not have.
- `SF(ReadMail)`, `WF(lost /\ RequestRepeat)` and
  `<>[][RequestRepeat => lost]`: a master that polls reads a reply without
  losing it in the end, asks again for a reply it lost, and does not for ever
  ask again for replies it has not lost.
- `WF(CiA402_StateMachine)`, `WF(CiA402_Application)`: the main loop runs for
  ever and calls both, the application itself or in the interrupt.
- `WF(COE_Main)`: the application ends the SDO service it has in work;
  `SF(Segments)`: a master whose segment is refused because another service is in
  work asks again, and is heard some time.

Requests, settings, interrupts, process data, losses, control words and errors
are never fair: the liveness properties hold whatever the master does or stops
doing. Sync0 and process data, in particular, need not come: `PendingEnds` then
rests on the timeout. `DisableVoltageIsObeyed` supposes that no option code stays
pending for ever, which a master brings about that writes a value that is no ramp.

### Mutants

For every property of a passing run a mutated definition (`…Mutated`, next to
the one it replaces) stands for a plausible slip, a dropped guard, a missing
reset, an off-by-one, and TLC finds the property violated with it.

## 4. What is proved

`EcatSlave_proofs` proves, for every value of the constants that satisfies the
named assumptions (any requests, device IDs included; any mappings and
configurations; any times and limits):

| Theorem | States |
|---|---|
| `Invariance` | the inductive invariant `IInv` |
| `TypeCorrect` | `TypeOK`, with the bound on the counters the interrupts raise |
| `OutputsSafe` | `OutputsOnlyInOp` |
| `WaitSafe` | `WaitConsistent` |
| `HandlersSafe` | `HandlersMatchState` |
| `ChannelsSafe` | `ClosedWhenStopped` |
| `EntrySafe` | `EnterOpSafely`: OP is entered only from a transition in work and under the conditions of its mode |

None of the invariants is inductive alone: whether a channel is closed depends
on the sizes by which it is closed, whether the outputs may run on the state,
and the state on what the interrupted transition left running. The strengthening
is `IInv == TypeOK /\ SlvInv(slv) /\ PllInv`:

- `Fit(s, st)`: the handlers that run and the channels that are open are those of
  state `st`; open channels are in use (so that `StopInputHandler`, which closes
  the channels in use, closes all); a valid sequence implies a running Sync0;
- `Shown(s)`: the master reads the internal state, and no error with the outputs;
- `Waits(s)`: a transition in work is SAFEOP to OP, error-free and timed;
- `PllInv`: a full PLL count exists only between the timer that filled it and the
  end of the same pass, while the sequence is still valid. It is needed for
  `EntrySafe` alone: `AL_ControlRes` looks only at the count, and it is the order
  of `MainLoop` that keeps the count from becoming stale.

The lemmas follow the call graph: one for each C function, saying what it keeps
of `Fit` and of the type, then what `AL_ControlInd` and `AL_ControlRes` make of
an invariant record, then one step for each action (`StepKeeps`). The second
half shows that no function but `AL_ControlRes` takes the status read by the
master from below OP to OP (`…StaysBelow`).

`EcatSlaveESM_proofs` goes on with what the master reads:

| Theorem | States | Condition |
|---|---|---|
| `ShownInvariance` | `RInv`, the invariant with `ShownInv` | |
| `LeavingOpSafe` | `LeavingOpShutsOutputs` | |
| `OpAppliesOutputs` | `OpRunsOutputs` | `NoAckWithId` |
| `RefinesESM` | `ImplementsESM`: every step is one of `ESM` or a stutter | `NoAckWithId` |

`NoAckWithId` says that the device ID is not asked for by one request and another
acknowledges: with both, the two promises are broken by the code (first finding). Either alone
is covered. The argument is a *verdict*: whatever happens inside, a call of
`AL_ControlInd` pends, acknowledges, rises, falls or refuses (`Verdict` in
`EcatSlave_proofs`, shown branch by branch for the switch, the pre-check and the
end of the function), each of which is a step of `ESM`. `ShownInv` adds to `IInv`
that an error shown to the master is also in `nAlStatus`, that OP with an error,
which only the ID flag makes possible, has its outputs shut, and that the ID is
shown only if it was asked for.

`CiA402_proofs`, for any number of axes, any option codes and any number of
errors, in interrupts or not:

| Theorem | States |
|---|---|
| `Invariance`, `TypeCorrect` | the inductive invariant and the type |
| `OperatingSafe` | `OperatingIsEnabled` |
| `EnergisedSafe` | `EnergisedOnCommand` |
| `FollowsDiagram` | `ImplementsDiagram`: every step is one of `DriveDiagram` or leaves the states alone |

`EnergisedOnCommand` needs to know that an axis in SWITCHED_ON has power
(`SwitchedOnIsPowered`), and neither this nor `OperatingIsEnabled` is inductive: the
application changes states and leaves the outputs to the next pass, and the main loop
goes by what it read some steps ago. `IInv` has two parts more.

- `Outside`, of an axis the loop is not at: a pending option code belongs to the
  state the axis is in or was in when an error came (`PendingMatchesState`), and
  the brake is released while it is one of a running axis (`PendingIsEnabled`). So the
  completion of a ramp leads along an edge or overtakes an error, and never up.
- `Inside`, of the axis the loop is at: it has no option code pending
  (`PendingIsLeftAlone`), which is why the application leaves it alone; so its state
  is the one that was read (`SkipIsStanding`, `FromIsLeft`), or the one written
  (`TargetIsReached`), or an error in an interrupt struck (`Struck`); the outputs
  fit the state read (`FromIsRead`), and those chosen fit the state written or are
  those of the fault reaction (`DriveIsChosen`).

`SdoServer_proofs`, for any dictionary of entries with at least one byte, any
values, and any mailboxes of at least 34 bytes:

| Theorem | States |
|---|---|
| `Invariance`, `TypeCorrect` | the inductive invariant and the type |
| `BufferSafe` | `BufferIsOwned` |
| `AgreementSafe`, `NoErrorSafe` | `SessionInStep`, `NoProtocolError` |
| `ObjectsSafe` | `ObjectsAreWhole` |
| `UploadSafe`, `DownloadSafe` | `UploadsAreIntact`, `DownloadsAreIntact` |

The invariant says, next to agreement, what the buffer and what the master hold
in the middle of a transfer: `DownloadHoldsValue` (the bytes written so far are
the first bytes of the value sent), `UploadHoldsValue` (what is in the buffer and
what was read is one value the object had meanwhile), `PendIsAccess` (the
service in work names an object, and a buffer when it is a segmented one) and
`WaitsForItsAccess` (a master that waits is waited for by that service).

`Mailbox_proofs`, for any kinds of requests, any heap and queue, lists of any
length, any number of failed allocations and open requests, with or without stops:

| Theorem | States | Condition |
|---|---|---|
| `Invariance`, `TypeCorrect` | the inductive invariant and `TypeOK` | |
| `LockedMailIsThere` | `LockedHasMail`, in no run: part of the inductive invariant | |
| `BuffersNeverShared` | no buffer has two owners, and a freed one has none | |
| `DeepInvariance` | the invariant with the bound on what waits | `DeepQueue` |
| `BuffersAreOwned` | `BuffersHaveOneOwner` | `DeepQueue` |
| `RepliesFit` | `NoReplyStored` | `DeepQueue` |

Ownership is stated by places. `Held(m, X)` gives the set of buffers that each
pointer and queue of the record `m` holds, and the set `X` of those in the hands
of the function that runs (`flight`); `Ownership` says that the places are
disjoint and within what is allocated, `Whole` that they hold all of it. A C
function then moves buffers from one place to another, drops or gains some, and
four lemmas (`MoveKeeps`, `DropKeeps`, `GainKeeps`, `MoveAllKeeps`) say that this
keeps ownership. For the functions to be such moves the pointers must be in
order, which is `Shape`: an unread reply is in `psReadMbx`; with none,
`psReadMbx` is the reply to repeat, and nothing is queued or stored behind it; a
stored reply means that the repetition is under way. `Sound` is type, shape and
ownership together; there is one lemma for each C function, and the proof follows the calls.

That no buffer is *lost* needs more, because an error reply that finds the queue
full is dropped with its buffer (`mailbox.c:957-966`). `DeepQueue` asks for more
than `Fragments + 5` places. The code has 10 (`mailbox.h:70`), which serves lists
of up to five mails; the largest dictionary (both axes, about 120 objects) needs
three mails of 128 bytes, the least the ESI file allows for a mailbox. Under it
`Bounded` counts the requests received, the service in work and the replies
queued together: at most `Fragments + 4`, and while fragments are still to be
sent they count, too. It holds because requests are copied only while no
reply waits (`Few`: what is received at each phase of the loop). Without
`DeepQueue` it is false, as TLC shows with a list of five mails and a queue
of three: each repetition that is asked for without need lets `MBX_MailboxReadInd`
queue one more fragment behind the unread ones.

`MailboxOrder_proofs`, under the same assumptions and without `DeepQueue`:

| Theorem | States |
|---|---|
| `OrderInvariance` | the inductive invariant with the order of the replies |
| `RefinesMailQueue` | `ImplementsMailQueue` |

The replies the slave has form a chain (`Chain`, which is `Replies` of any
record): the one to repeat, the one in the send mailbox, the one taken back, the
queue. The invariant says three things. `Linked`: the replies are numbered one
after the other, `u8MbxReadCounter` is the next number, and sync manager 1 holds
the first reply that was not taken. `Seen`: the reply the master accepted last is
the one before the chain, its first one, or the second one when that was taken.
As the counter tells a reply from the two before it (`AfterDiffers`, which needs
at least three of the seven counters), the master takes no new reply for a repeated one.
`Heard`: a master that has lost nothing and asks for nothing has accepted what it took.

A step of the slave leaves the chain alone, appends one reply (`Sends`: one lemma
for each C function that may send), or gives up its first one
(`TurnedKnown`: what `MBX_MailboxReadInd` does to the reply to repeat), or both. A reply
given up was accepted, as it is given up only once the one behind it was
taken. That this is still so when `ECAT_Main` acts on what it read before
is `Polled`: it reads the repeat bit before the status of sync manager
1, so a reply that was taken before the repetition was asked for is
seen as taken, and the read indication, which comes before the repeat
request, makes it the one to repeat. Read the other way round, the reply
before the one just taken could be sent again and be taken for a new one.

`MailboxAnswers_proofs`, on top of it:

| Theorem | States | Condition |
|---|---|---|
| `AnswersInvariance` | the inductive invariant with the books of what the slave owes | `Fits` |
| `EachAnsweredOnce` | `AnsweredOnce` | `Fits` |
| `FragmentsInOrder` | `ListInOrder` | `Plain`, `OneByOne` |

`Fits` is `Plain` with `OneByOne` or `NoLists`; `MailboxQueue` satisfies
`NoLists`, `MailboxList` `OneByOne`.

- `Plain`: no FoE requests, which the code may answer or not, and none too long
  for the mailbox, whose repetition is refused again (`MailboxErrors` in section 3).
- `NoLists`: no object lists, and the send queue has room for the answers to all
  that the master may leave open (`Window < QueueSize`). A queue of `QueueSize`
  places holds one less, and an answer that finds it full is lost (`mailbox.c:200`).
- `OneByOne`: lists too, but the master sends one request after the other, the
  mailbox is not stopped and the queue has room for the fragments. The first two are
  needed: `nSdoInfoFragmentsLeft` is reset neither by a stop nor by a second
  list request (observations below), and the next list starts in the middle.

The invariant keeps books (`Books(m, U, e, w)`, with the replies `U` that are under way, the
number `e` of requests in the hands of a C function and what the master `w` knows).
`Balance`: what the master left open is what lies unseen in sync manager 0, what
is in the receive queue, what is in work and the answers begun. `Kept`: the slave
keeps nothing but requests, and has put off nothing but a fragment. `UnderWay`: the
replies are numbered down to `nSdoInfoFragmentsLeft` if they are fragments and else
end an answer. `Asked`: what is in sync manager 0 is the master's last request, and
once it was read its counter is `u8MbxWriteCounter`, so that a repetition is known
for one (`mailbox.c:505`). `Expected`: the first fragment under way is the one the
master waits for.

A C function that serves a request has it in hand (`e = 1`) and leaves with
`e = 0`, having put it into one account (`Does`: a lemma for each). When the
master accepts a reply it takes the first one of `U`, which is what
`MailboxOrder_proofs` is needed for: the reply it reads is `Awaited[1]` or one
it has seen. That there is always room for the answer (`AlwaysRoom`) follows from the
balance itself.

`ObjDic_proofs`, for any objects, any number of axes up to 16 (four bits of the
index of a PDO name its axis), any sizes of PDOs and any even room in a mail:

| Theorem | States |
|---|---|
| `Invariance`, `TypeCorrect` | the inductive invariant and `TypeOK` |
| `DictionarySafe` | `DictionaryIsOrdered` |
| `MappingSafe` | `MappingFits` |
| `ListsSafe` | `ListsAreComplete` |

The list is described without a walk: `Linked(d, S)` says that `head` is the first
object of the set `S`, that `pNext` and `pPrev` of an object of `S` are its
neighbours in `S`, and that all other objects point nowhere.
`COE_AddObjectToDicLinks` and `COE_RemoveDicEntryLinks` take `Linked(d, S)` to `S` with the
object and without; folds over the objects of an axis and over the slots follow
(`AddAllLinks`, `RemoveAllLinks`, `MappingAdapts`), so that the set is that of the active
axes. A walk along `pNext` (`Walk`) ascends, covers the objects from where it
starts, is unique, and its rest is the walk from there; `ChainFrom` is that walk
(`ChainFromWalks`; it never runs out of steps because it never meets an object twice).
`ListInv` then says of an object list that what was got comes before what is
next and, as long as no mapping changed the dictionary, that got and the walk from
`pSdoInfoObjEntry` make up the list and that `nSdoInfoFragmentsLeft` fragments are as
many as hold the rest. Of a list that a mapping changed only the order is left: the
object to go on with may not be linked any more, and the walk from it is that object alone.
`MappingFits` holds because no mapping is made of more PDOs than axes, 0x1C12 itself
can be written in PREOP only, and `Write0xF030`, which changes it in any state, sets
`late` and, unless its loop has become endless, has a subindex 0 within the axes.

Induction on numbers is obtained from the well-foundedness of `<` for a set
(`SetInduction`), not an operator, and so it can be used by the provers; it carries the
folds and the walks.

Before the proofs TLC checked each inductive invariant as an invariant of runs
with the constants of the configurations above and of larger ones.

In every module the proof of `Invariance` has a lemma for every action, and
the lemmas follow the operators, one for each C function.

Only model-checked: liveness, as fairness and `ENABLED` are beyond the prover, and
what the conditions in the tables exclude. No module declares a `RECURSIVE`
operator.

## 5. Findings

1. **`EcatSlaveId`** (`ecatslv.c:1976`). A request with the acknowledge bit keeps
   the device-ID flag in `nAlStatus`; comparisons of the whole byte (1885, 1976)
   then match no state. After a failed settings check the slave goes on
   reporting OP with the outputs stopped.
2. **`MailboxMemory`** (`mailbox.c:980`). Where the comment promises to send again
   what could not be sent for want of memory, the branch is empty: one failed
   allocation in the middle of a list blocks the mailbox in both directions.
3. **`CiA402QuickStop`** (`cia402appl.c:831`). "Only execute quick stop action in
   state transition 11" (609) rests on the status word showing quick stop, which
   the application no longer makes it show: it clears the mask 0x0040. With the
   option codes 5 to 8 every pass starts the quick stop again, the commands that
   would end it are never looked at, and the axes behind it starve.

Seen while modelling, with no run of their own. The first ones are in the models, and
a property names each as the one exception it has to make; the others are decided
by one place in the code, or lie outside what a module models:

- `ecatslv.c:2746`: `sm1Activate` is read (2675) before the AL control event is handled
  and tested behind it. When sync manager 1 was off at the read and on again at the
  check of the settings, the request for OP starts its transition, and the stale value
  cancels it at once, in SAFEOP and without an error, where 1260-1262 promises OP or
  a rejection. `StartedIsAnswered` says that this is the only way, and that it costs
  no more than the request.
- `cia402appl.c:844`: the way out of the fault reaction is transition 14, to FAULT
  (639-640). A shutdown (857: disable operation, 825: quick stop) that was pending when the
  error came completes instead, and the error is forgotten: `Overtaken` in `DriveDiagram`.
- `objdef.c:1488`, `cia402appl.c:979`: "check if the value for subindex0 is valid"
  (1479, 973) compares the lower byte and stores the word. 0x0101 leaves 257 in
  subindex 0 of 0x1C12, which `APPL_GenerateMapping` refuses on the way to SAFEOP;
  in `Write0xF030` the loop at 1031, which counts in a byte, then has no end and runs
  behind the arrays: `endless` in `ObjDic`.
- `cia402appl.c:929`: complete access to 0xF030 looks neither at the AL state nor at
  the access rights (`cia402appl.h:1332-1335`), so that 0x1C12 changes in SAFEOP and
  OP and no longer fits the size and the axes it was mapped for: `late` in `ObjDic`.
- `cia402appl.c:438-664`: an error detected in an interrupt between the two reads of
  `i16State` makes an axis that stood still release its brake until the next pass,
  or is overwritten by the transition (the exceptions in `EnergisedOnCommand` and
  `DriveDiagram`). No code of the repository calls `CiA402_LocalError`, so it is
  for the application to call it between two passes only.
- `cia402appl.c:435`: the repository's README (287) says that the drive enters
  STATE_SWITCH_ON_DISABLED by itself; the first pass in OP goes on to
  READY_TO_SWITCH_ON, and before OP the axis stays in NOT_READY_TO_SWITCH_ON.
- `ecatslv.c:2355`: the PLL count is kept when the Sync0 signal is lost during the
  wait, so OP may be confirmed although the sequence was not valid for the whole
  200 ms of which the comment at 2216 speaks. At the moment of entry it is valid
  (`EnterOpSafely`).
- `mailbox.c:367`: `nSdoInfoFragmentsLeft` survives a stop of the mailbox, so the
  first object list after a restart starts in the middle, against the comment at
  `sdoserv.c:1088`. A list request during a list does the same (1080).
- `mailbox.c:200`: a list of more mails than the send queue has places can fill it
  (`DeepQueue` in section 4); `ecat_def.h:1008` allows mailboxes of 34 bytes, with
  which a list of the full dictionary takes about ten. The error reply or fragment
  that finds it full is lost with its buffer or put in `pCoeSendStored`.
- `sdoserv.c:799-840`: after a refused upload the server still takes a stray
  segment for one of the session, against 228-229. A request for an entry of length zero
  (843) changes the session of a download in progress.
- `sampleappl.c:286-321`: an axis left out by lowering subindex 0 of 0x1C12 stays
  active. An entry 0 within subindex 0 belongs to axis 0 in the copying of the
  outputs, although it is "not mapped". The PDO of another axis activates none.
- `sampleappl.h:177-180`: in the build without the drive profile two objects have
  more subindices than their arrays.
- `objdef.c:429`: a list of objects ends early when a mapping took out the object
  it was to go on with; with a mailbox of odd size entries are lost.

## 6. Not modelled, and what is left

- Vendored drivers and generated configuration (`rzn/fsp` but for the port,
  `rzn_cfg`, `rzn_gen`, CMSIS, the ESI file): most of the lines of the
  repository, register definitions above all. They have no logic of this program,
  so that the map covers a small share of the whole and most of the slave stack's
  control.
- The CyberGear driver. It is an option that is off by default. Its threads share
  the transmit messages, the byte buffer and `Type_ID` with no lock at all
  (`cybergear.c:19`), so that "a frame is one call's frame" just does not hold,
  and no document promises it.
- `ESC_EepromAccess` and `ESC_EepromWriteCRC`: a sequential loop over registers
  with no other actor.
- The Linux programs of `tools/igh_master_tests`, which belong to the master.
- The nesting of `PDI_Isr` and `Sync0_Isr`, which the build excludes. That
  `PDI_Isr` may call `Sync0_Isr` for an event that has its own interrupt
  (`ecatappl.c:559`), so that a pulse counts twice, changes rates only: `Sync0_Isr`
  may run at any time and any number of times here.
- In `Mailbox`: the heap that cannot give a buffer while the mailbox starts
  (`bNoMbxMemoryAvailable`). In `SdoServer`: entries without a byte, two segmented
  transfers at once, SDO information but for the list. In `ObjDic`: the copying of
  each data type, access rights other than the AL state, object descriptions, and
  backup parameters, and what the endless loop over the modules overwrites. In
  `CiA402`: axes that are not active, motion control and the calls to the motors
  (which read `i16State` and not the outputs). In `EcatSlave`: a synchronisation of
  inputs and outputs set differently by the user, subordinated cycles and Sync1.

Left to do: `Mailbox` and `SdoServer` composed, so that a repeated
request meets an open session.
