------------------------------- MODULE EcatSlave -------------------------------
(***************************************************************************)
(* The AL state machine of the EtherCAT slave (beckhoff/Src/ecatslv.c) and  *)
(* the part of ecatappl.c that drives it: the main loop, the 1 ms timer and *)
(* the process-data and Sync0 interrupts.  The master and the registers of  *)
(* the EtherCAT slave controller (ESC) are the environment.                 *)
(*                                                                         *)
(* Everything ecatslv.c keeps in globals is one record, slv, whose fields   *)
(* bear the names of the C variables; a C function is an operator from one  *)
(* such record to the next, so that the calls compose in the order of the   *)
(* source.  The main loop is cut at the points where it lets go of the ESC: *)
(* between two of its phases (pc) the master and the interrupts may act.    *)
(*                                                                         *)
(* The callbacks of sampleappl.c (APPL_Start..., APPL_Stop..., APPL_Ack...) *)
(* return 0 and change nothing here, so only SAFEOP-to-OP can be left in    *)
(* work, and ECAT_StateChange has no caller: no local error is ever set.    *)
(***************************************************************************)
EXTENDS Integers

CONSTANTS
  Requests,     \* AL Control values the master writes: [req, ack, id]
  Mappings,     \* results of APPL_GenerateMapping: [res, out, in]
  StartConfigs, \* what StartInputHandler finds in the ESC: [res, sync, user, sync0, wd]
  MbxConfigs,   \* settings of sync managers 0 and 1 the master may write
  PdFaults,     \* faults of its settings of sync managers 2 and 3
  PdAddrs,      \* physical addresses of the process-data sync managers
  EsmTimeout,   \* SAFEOP2OPTIMEOUT less 10 %, in ticks of the 1 ms timer
  PllTime,      \* the 200 ms of i16WaitForPllRunningTimeout, in ticks
  SyncLimit     \* sErrorSettings.u16SyncErrorCounterLimit

States    == {"INIT", "PREOP", "BOOT", "SAFEOP", "OP"}
\* Values that name no state, without and with the bit of OP.
Unknown   == {"UNKNOWN", "UNKNOWNOP"}
NoErr     == "NOERROR"
InWork    == "NOERROR_INWORK"
NoChange  == "NOERROR_NOSTATECHANGE"
MapErrors == {"INVALIDINPUTMAPPING", "INVALIDOUTPUTMAPPING"}
CfgErrors == {"INVALIDSMINCFG", "INVALIDSMOUTCFG", "DCINVALIDSYNCCFG",
              "DCSYNC0CYCLETIME", "FREERUNNEEDS3BUFFERMODE", "INVALIDWDCFG"}
Codes     == MapErrors \cup CfgErrors \cup
             {NoErr, "INVALIDALCONTROL", "UNKNOWNALCONTROL", "EE_ERROR",
              "INVALIDMBXCFGINPREOP", "INVALIDMBXCFGINBOOT", "SMWATCHDOG",
              "NOSYNCERROR", "SYNCERROR", "FATALSYNCERROR"}

ASSUME RequestsAssumption ==
  /\ Requests # {}
  /\ Requests \subseteq [req : States \cup Unknown, ack : BOOLEAN, id : BOOLEAN]
ASSUME MappingsAssumption ==
  Mappings # {} /\ Mappings \subseteq [res : MapErrors \cup {NoErr}, out : BOOLEAN, in : BOOLEAN]
\* The synchronisation is set by the user (0x1C32:1) or follows the registers;
\* sync0 is Sync0WdValue, in ms.
ASSUME StartConfigsAssumption ==
  /\ StartConfigs # {}
  /\ StartConfigs \subseteq [res : CfgErrors \cup {NoErr}, sync : {"FREERUN", "SM", "DC"},
                             user : BOOLEAN, sync0 : Nat, wd : BOOLEAN]
ASSUME ConfigAssumption ==
  /\ MbxConfigs # {} /\ MbxConfigs \subseteq {"ok", "overlap", "bad", "off"}
  /\ PdFaults \subseteq {"badin", "badout"}
  /\ PdAddrs # {} /\ PdAddrs \cap {"badin", "badout", "none"} = {}
ASSUME TimeAssumption ==
  EsmTimeout \in Nat \ {0} /\ PllTime \in Nat \ {0} /\ SyncLimit \in Nat

VARIABLES
  pc,      \* phase of the main loop
  slv,     \* the globals of ecatslv.c
  sm1Off,  \* sm1Activate as ECAT_Main read it: SM1 was not enabled
  tick,    \* a millisecond has passed (HW_GetTimer)
  ctl,     \* AL Control register
  ctlEv,   \* AL_CONTROL_EVENT
  smEv,    \* SM_CHANGE_EVENT
  mbxCfg,  \* sync managers 0 and 1 as the master configured them
  pdCfg,   \* sync managers 2 and 3: a fault, or the address they start at
  pdEv,    \* process data written (or, without outputs, read) by the master
  wdOk     \* ESC_PD_WD_STATE: the process-data watchdog is triggered

vars == <<pc, slv, sm1Off, tick, ctl, ctlEv, smEv, mbxCfg, pdCfg, pdEv, wdOk>>
loopVars   == <<pc, sm1Off, tick>>
masterVars == <<ctl, ctlEv, smEv, mbxCfg, pdCfg>>

Found == [map : Mappings, start : StartConfigs, eep : BOOLEAN]
-------------------------------------------------------------------------------
(* The record of ecatslv.c.  st, err and id are STATE_MASK, STATE_CHANGE and *)
(* STATE_DEVID of nAlStatus; alReg is what the master reads back.  Sizes and *)
(* EcatWdValue count only as zero or not zero.                               *)

DcOff == [bDcSyncActive |-> FALSE, bDcRunning |-> FALSE,
          bSmSyncSequenceValid |-> FALSE,
          i16WaitForPllRunningTimeout |-> 0, i16WaitForPllRunningCnt |-> 0,
          Sync0WdValue |-> 0, Sync0WdCounter |-> 0, u16SmSync0Counter |-> 0,
          u16SmEventMissedCounter |-> 0]

SlvInit == [st |-> "INIT", err |-> FALSE, id |-> FALSE,
            alReg |-> [st |-> "INIT", err |-> FALSE, code |-> NoErr],
            bEcatWaitForAlControlRes |-> FALSE, bApplEsmPending |-> FALSE,
            EsmTimeoutCounter |-> 0,
            bMbxRunning |-> FALSE, bBootMode |-> FALSE,
            bExplicitDevIdRequested |-> FALSE,
            bEcatInputUpdateRunning |-> FALSE, bEcatOutputUpdateRunning |-> FALSE,
            bEcatFirstOutputsReceived |-> FALSE, bEscIntEnabled |-> FALSE,
            EcatWdValue |-> FALSE, nPdOutputSize |-> FALSE, nPdInputSize |-> FALSE,
            nEscAddr |-> "none", off |-> {"mbx", "out", "in"}, dc |-> DcOff]

Enable(s, ch)  == [s EXCEPT !.off = @ \ ch]
Disable(s, ch) == [s EXCEPT !.off = @ \cup ch]

\* The process-data channels in use, and the one whose loss stops the outputs.
PdChannels(s) == {c \in {"out", "in"} : IF c = "out" THEN s.nPdOutputSize ELSE s.nPdInputSize}
PdMain(s) == IF s.nPdOutputSize THEN {"out"} ELSE PdChannels(s)

\* Writes AL Status and the AL Status Code; the explicit device ID is shown
\* only in an error-free state other than BOOT.
SetALStatus(s, st, err, code) ==
  [s EXCEPT !.st = st, !.err = err,
            !.id = s.bExplicitDevIdRequested /\ ~err /\ code = NoErr /\ st # "BOOT",
            !.alReg = [st |-> st, err |-> err, code |-> code]]

\* Sync managers 2 and 3: without process data both are to be off; in PREOP any
\* permitted address will do, later only the one the input handler was started
\* with.  The C code compares the whole of nAlStatus with STATE_PREOP, so a
\* device ID flag counts as "later".
PdSmValid(s) == /\ pdCfg \in PdAddrs
                /\ \/ PdChannels(s) = {}
                   \/ s.st = "PREOP" /\ ~s.id
                   \/ pdCfg = s.nEscAddr

CheckSmSettings(s, all) ==
  IF mbxCfg \in {"off", "bad"} THEN "INVALIDMBXCFGINPREOP"
  ELSE IF ~all \/ PdSmValid(s) THEN NoErr
  ELSE IF pdCfg = "badout" \/ (pdCfg # "badin" /\ ~s.nPdInputSize)
       THEN "INVALIDSMOUTCFG" ELSE "INVALIDSMINCFG"
-------------------------------------------------------------------------------
(* The handlers a transition starts and stops.  An operator ...Mutated, here *)
(* and below, is the next definition with a slip that a property must find.  *)

MBX_StopMailboxHandlerMutated(s) == [s EXCEPT !.bMbxRunning = FALSE]
MBX_StopMailboxHandler(s) == [Disable(s, {"mbx"}) EXCEPT !.bMbxRunning = FALSE]

StopOutputHandlerMutated(s) == [s EXCEPT !.bEcatFirstOutputsReceived = FALSE]
StopOutputHandler(s) == [s EXCEPT !.bEcatFirstOutputsReceived = FALSE,
                                  !.bEcatOutputUpdateRunning = FALSE]

StopInputHandler(s) ==
  [Disable(s, PdChannels(s)) EXCEPT
     !.bEcatFirstOutputsReceived = FALSE, !.bEscIntEnabled = FALSE,
     !.bEcatInputUpdateRunning = FALSE,
     !.dc = [DcOff EXCEPT !.i16WaitForPllRunningCnt = s.dc.i16WaitForPllRunningCnt]]

StartInputHandler(s, c) ==
  LET started == [s EXCEPT !.bEcatFirstOutputsReceived = FALSE, !.nEscAddr = pdCfg,
                           !.EcatWdValue = IF c.res \in {NoErr, "INVALIDWDCFG"}
                                           THEN c.wd /\ s.nPdOutputSize ELSE @]
      sync    == c.sync # "FREERUN" /\ (c.user \/ PdChannels(s) # {})
      dc      == c.sync = "DC" /\ sync
  IN  IF c.res # NoErr THEN started
      ELSE [Enable(started, PdChannels(s)) EXCEPT
              !.bEscIntEnabled = sync,
              !.dc = [DcOff EXCEPT !.bDcSyncActive = dc, !.Sync0WdValue = c.sync0,
                                   !.i16WaitForPllRunningCnt = s.dc.i16WaitForPllRunningCnt]]

\* Arms the wait for the PLL; the transition stays in work.
StartOutputHandler(s) ==
  [s EXCEPT !.dc.i16WaitForPllRunningTimeout = IF s.dc.bDcSyncActive THEN PllTime ELSE @,
            !.dc.i16WaitForPllRunningCnt = IF s.dc.bDcSyncActive THEN 0 ELSE @,
            !.dc.u16SmEventMissedCounter = 0]
-------------------------------------------------------------------------------
(* The transitions of AL_ControlInd, each a record with the result code.     *)

Done(s) == [s |-> [s EXCEPT !.bApplEsmPending = FALSE], res |-> NoErr]

InvalidEdges == {<<"INIT", "SAFEOP">>, <<"INIT", "OP">>, <<"PREOP", "OP">>,
                 <<"PREOP", "BOOT">>, <<"SAFEOP", "BOOT">>, <<"OP", "BOOT">>,
                 <<"BOOT", "PREOP">>, <<"BOOT", "SAFEOP">>, <<"BOOT", "OP">>}

StartMailbox(s, boot) ==
  IF mbxCfg = "overlap"
  THEN [s |-> MBX_StopMailboxHandler(s), res |-> "INVALIDMBXCFGINPREOP"]
  ELSE Done([Enable(s, {"mbx"}) EXCEPT !.bMbxRunning = TRUE, !.bBootMode = boot])

InitToBoot(s) ==
  IF CheckSmSettings(s, FALSE) # NoErr
  THEN [s |-> [s EXCEPT !.bBootMode = FALSE], res |-> "INVALIDMBXCFGINBOOT"]
  ELSE StartMailbox(s, TRUE)

InitToPreop(s, eep) ==
  IF eep THEN StartMailbox(s, s.bBootMode) ELSE [s |-> s, res |-> "EE_ERROR"]

PreopToSafeop(s, c) ==
  LET started == StartInputHandler(s, c)
  IN  IF c.res # NoErr THEN [s |-> StopInputHandler(started), res |-> c.res]
      ELSE Done([started EXCEPT !.bEcatInputUpdateRunning = TRUE])

SafeopToOp(s, ack) ==
  [s |-> StartOutputHandler(IF ack THEN Enable(s, PdMain(s)) ELSE s), res |-> InWork]

\* Down from "from" to "to": stop what the lower state does not run.
StepDownMutated(s, from, to) ==
  LET s1 == IF from = "OP" THEN StopOutputHandler(s)
            ELSE IF from = "SAFEOP" /\ to # "SAFEOP" THEN StopInputHandler(s) ELSE s
  IN  IF to = "INIT" THEN MBX_StopMailboxHandler(s1) ELSE s1
StepDown(s, from, to) ==
  LET s1 == IF from = "OP" THEN StopOutputHandler(s) ELSE s
      s2 == IF to # "SAFEOP" /\ from # "PREOP" THEN StopInputHandler(s1) ELSE s1
  IN  IF to = "INIT" THEN MBX_StopMailboxHandler(s2) ELSE s2

SameState(s) ==
  [s |-> IF s.st \in {"SAFEOP", "OP"} THEN Enable(s, PdMain(s)) ELSE s, res |-> NoChange]

Transition(s, to, ack, x) ==
  CASE s.st = "INIT" /\ to = "BOOT"     -> InitToBoot(s)
    [] s.st = "BOOT" /\ to = "INIT"     ->
         [s |-> MBX_StopMailboxHandler([s EXCEPT !.bBootMode = FALSE]), res |-> NoErr]
    [] s.st = "INIT" /\ to = "PREOP"    -> InitToPreop(s, x.eep)
    [] s.st = "PREOP" /\ to = "SAFEOP"  -> PreopToSafeop(s, x.start)
    [] s.st = "SAFEOP" /\ to = "OP"     -> SafeopToOp(s, ack)
    [] s.st = "PREOP" /\ to = "INIT"    -> [s |-> StepDown(s, s.st, to), res |-> NoErr]
    [] \/ s.st = "OP" /\ to \in {"SAFEOP", "PREOP", "INIT"}
       \/ s.st = "SAFEOP" /\ to \in {"PREOP", "INIT"} -> Done(StepDown(s, s.st, to))
    [] s.st = to /\ to # "BOOT"         -> SameState(s)
    [] <<s.st, to>> \in InvalidEdges    -> [s |-> s, res |-> "INVALIDALCONTROL"]
    [] OTHER                            -> [s |-> s, res |-> "UNKNOWNALCONTROL"]

\* The sync manager settings were wrong: back to PREOP, or to INIT when it is
\* the mailbox.  The switch is on all of nAlStatus: with the device ID flag no
\* case matches.
FallBack(s, res) ==
  LET s1 == IF s.st \in {"OP", "SAFEOP"} THEN StepDown(s, s.st, "PREOP") ELSE s
  IN  IF s.id \/ s.st \notin {"OP", "SAFEOP", "PREOP"} THEN s
      ELSE IF res = "INVALIDMBXCFGINPREOP"
           THEN [MBX_StopMailboxHandler(s1) EXCEPT !.st = "INIT"]
           ELSE [s1 EXCEPT !.st = "PREOP"]

\* The settings check that precedes a transition (sizes are set on the way).
Mapped(s, to, x) ==
  IF s.st = "PREOP" /\ to = "SAFEOP"
  THEN [s EXCEPT !.nPdOutputSize = x.map.out, !.nPdInputSize = x.map.in] ELSE s

PreCheck(s, to, x) ==
  CASE to = "PREOP" /\ s.st # "BOOT"             -> CheckSmSettings(s, FALSE)
    [] s.st = "PREOP" /\ to = "SAFEOP"           ->
         IF x.map.res # NoErr THEN x.map.res ELSE CheckSmSettings(s, TRUE)
    [] \/ to = "SAFEOP" /\ s.st \in {"SAFEOP", "OP"}
       \/ to = "OP" /\ s.st \in {"SAFEOP", "OP"} -> CheckSmSettings(s, TRUE)
    [] OTHER                                     -> NoErr

\* Leaving OP, or refusing to enter it, shuts the outputs (SM2).
ShutOutputsMutated(s) == IF s.bEcatOutputUpdateRunning THEN StopOutputHandler(s) ELSE s
ShutOutputs(s) ==
  Disable(IF s.bEcatOutputUpdateRunning THEN StopOutputHandler(s) ELSE s, PdMain(s))

\* The end of AL_ControlInd: wait, change the state, or just acknowledge.
Conclude(r, to, code) ==
  LET quit == (r.res # NoErr \/ code # NoErr) /\ (to \in {"OP", "UNKNOWNOP"} \/ r.s.st = "OP")
      s    == IF quit THEN ShutOutputs(r.s) ELSE r.s
      over == [s EXCEPT !.bEcatWaitForAlControlRes = FALSE]
  IN  IF r.res = InWork
      THEN [r.s EXCEPT !.bEcatWaitForAlControlRes = TRUE, !.EsmTimeoutCounter = EsmTimeout]
      ELSE IF to = r.s.st
      THEN SetALStatus([r.s EXCEPT !.bEcatWaitForAlControlRes = FALSE],
                       r.s.st, FALSE, NoErr)
      ELSE IF r.res # NoErr
      THEN SetALStatus(over, IF s.st = "OP" /\ ~s.id THEN "SAFEOP" ELSE s.st, TRUE, r.res)
      ELSE SetALStatus(over, to, code # NoErr, code)

\* A request (or a local event) is ignored while an error waits for its
\* acknowledgement, unless INIT is asked for.
IgnoredMutated(s, req, ack) == FALSE
Ignored(s, req, ack) == ~ack /\ s.err /\ req # "INIT"

\* The acknowledge bit clears the error flag only; without it the device ID
\* flag goes too.
AL_ControlInd(s, req, ack, code, x) ==
  LET s0 == [s EXCEPT !.EsmTimeoutCounter = -1, !.bApplEsmPending = TRUE]
      s1 == [s0 EXCEPT !.err = FALSE, !.id = @ /\ ack]
      s2 == Mapped(s1, req, x)
      chk == PreCheck(s2, req, x)
  IN  IF Ignored(s, req, ack) THEN s0
      ELSE IF chk = NoErr THEN Conclude(Transition(s2, req, ack, x), req, code)
      ELSE Conclude([s |-> FallBack(s2, chk), res |-> chk], req, code)

\* A call that repeats the present state or leaves OP looks at no input.
LocalInd(s, req, code) == AL_ControlInd(s, req, FALSE, code, CHOOSE x \in Found : TRUE)
-------------------------------------------------------------------------------
(* A SAFEOP-to-OP transition in work, polled by the main loop.               *)

OpReachedMutated(s) ==
  SetALStatus([s EXCEPT !.bEcatWaitForAlControlRes = FALSE], "OP", FALSE, NoErr)
OpReached(s) == SetALStatus([s EXCEPT !.bEcatOutputUpdateRunning = TRUE,
                                      !.bEcatWaitForAlControlRes = FALSE], "OP", FALSE, NoErr)

OpTimeoutCodeMutated(s) ==
  IF s.dc.bDcSyncActive THEN IF s.dc.bDcRunning THEN NoErr ELSE "NOSYNCERROR"
  ELSE IF s.nPdOutputSize THEN "SMWATCHDOG" ELSE NoErr
OpTimeoutCode(s) ==
  IF s.dc.bDcSyncActive
  THEN CASE ~s.dc.bDcRunning -> "NOSYNCERROR"
         [] s.dc.bDcRunning /\ ~s.bEcatFirstOutputsReceived /\ s.nPdOutputSize -> "SMWATCHDOG"
         [] OTHER -> IF s.dc.bSmSyncSequenceValid THEN NoErr ELSE "SYNCERROR"
  ELSE IF s.nPdOutputSize THEN "SMWATCHDOG" ELSE NoErr

OpTimedOutMutated(s) ==
  IF OpTimeoutCode(s) = NoErr THEN OpReached(s)
  ELSE SetALStatus(StopOutputHandler(s), "SAFEOP", TRUE, OpTimeoutCode(s))
OpTimedOut(s) ==
  IF OpTimeoutCode(s) = NoErr THEN OpReached(s)
  ELSE SetALStatus([StopOutputHandler(s) EXCEPT !.bEcatWaitForAlControlRes = FALSE],
                   "SAFEOP", TRUE, OpTimeoutCode(s))

\* In DC mode the PLL counter must have reached its limit, else the first
\* outputs must have arrived.
OpReady(s) ==
  IF s.dc.bDcSyncActive
  THEN /\ s.dc.i16WaitForPllRunningTimeout > 0
       /\ s.dc.i16WaitForPllRunningTimeout <= s.dc.i16WaitForPllRunningCnt
  ELSE ~s.nPdOutputSize \/ s.bEcatFirstOutputsReceived

ClearPll(s) == IF s.dc.bDcSyncActive
               THEN [s EXCEPT !.dc.i16WaitForPllRunningTimeout = 0,
                              !.dc.i16WaitForPllRunningCnt = 0] ELSE s

AL_ControlRes(s) ==
  IF s.EsmTimeoutCounter = 0 THEN OpTimedOut(s)
  ELSE IF s.bApplEsmPending /\ OpReady(s)
  THEN OpReached([ClearPll(s) EXCEPT !.bApplEsmPending = FALSE])
  ELSE s

\* The 1 ms supervision of the Sync0 signal (off when its cycle is 0) and of the
\* sequence of SM2 and Sync0 events.  The PLL count is only compared with PllTime,
\* where this count stops.
Sync0Lost(d) == d.Sync0WdValue > 0 /\ d.Sync0WdCounter >= d.Sync0WdValue
Sync0AliveMutated(d) == d.Sync0WdCounter <= d.Sync0WdValue
Sync0Alive(d) == ~Sync0Lost(d)

DC_CheckWatchdog(d) ==
  LET run   == Sync0Alive(d)
      valid == run /\ (SyncLimit = 0 \/ d.u16SmEventMissedCounter < SyncLimit)
      wait  == d.i16WaitForPllRunningTimeout > 0
  IN  [d EXCEPT !.Sync0WdCounter = IF run /\ @ < d.Sync0WdValue THEN @ + 1 ELSE @,
         !.bDcRunning = run, !.bSmSyncSequenceValid = valid,
         !.i16WaitForPllRunningCnt =
            IF valid /\ wait THEN (IF @ < PllTime THEN @ + 1 ELSE @)
            ELSE IF run /\ ~valid /\ d.bSmSyncSequenceValid /\ wait THEN 0 ELSE @]

CountDownMutated(s) ==
  IF s.bEcatWaitForAlControlRes /\ s.EsmTimeoutCounter > 1
  THEN s.EsmTimeoutCounter - 1 ELSE s.EsmTimeoutCounter
CountDown(s) ==
  IF s.bEcatWaitForAlControlRes /\ s.EsmTimeoutCounter > 0
  THEN s.EsmTimeoutCounter - 1 ELSE s.EsmTimeoutCounter

ECAT_CheckTimer(s) ==
  [s EXCEPT !.EsmTimeoutCounter = CountDown(s),
            !.dc = IF s.dc.bDcSyncActive /\ s.bEcatInputUpdateRunning
                   THEN DC_CheckWatchdog(@) ELSE @]

OutputsLostMutated(s) == s.EcatWdValue /\ ~wdOk /\ s.nPdOutputSize /\ s.dc.bDcSyncActive
OutputsLost(s) == s.EcatWdValue /\ ~wdOk /\ s.nPdOutputSize

CheckIfEcatError(s) ==
  LET lost == OutputsLost(s)
      s1   == IF lost THEN [s EXCEPT !.bEcatFirstOutputsReceived = FALSE] ELSE s
  IN  IF lost /\ s.bEcatOutputUpdateRunning THEN LocalInd(s, "SAFEOP", "SMWATCHDOG")
      ELSE IF ~s.dc.bDcSyncActive \/ ~s.bEcatOutputUpdateRunning THEN s1
      ELSE IF ~s.dc.bDcRunning THEN LocalInd(s1, "SAFEOP", "FATALSYNCERROR")
      ELSE IF ~s.dc.bSmSyncSequenceValid THEN LocalInd(s1, "SAFEOP", "SYNCERROR")
      ELSE s1
-------------------------------------------------------------------------------
(* The main loop.                                                            *)

\* A disabled channel drops the event it had pending.
KeepPdEv == pdEv' = (pdEv /\ PdMain(slv') \cap slv'.off = {})

Goto(from, to) == pc = from /\ pc' = to

\* FreeRun: the process data are polled (with interrupts the ISR takes them).
PollProcessData ==
  /\ Goto("poll", "timer")
  /\ IF ~slv.bEscIntEnabled /\ ~slv.dc.bDcSyncActive /\ pdEv
     THEN /\ slv' = [slv EXCEPT !.bEcatFirstOutputsReceived = TRUE]
          /\ pdEv' = (slv.nPdOutputSize /\ ~slv.bEcatOutputUpdateRunning)
     ELSE UNCHANGED <<slv, pdEv>>
  /\ UNCHANGED <<sm1Off, tick, masterVars, wdOk>>

CheckTimer ==
  /\ Goto("timer", "main")
  /\ slv' = IF tick THEN ECAT_CheckTimer(slv) ELSE slv
  /\ tick' = FALSE
  /\ UNCHANGED <<sm1Off, masterVars, pdEv, wdOk>>

\* ECAT_Main reads sm1Activate first, then the events; it uses it in CheckSm1.
ReadSm1 ==
  /\ Goto("main", "event")
  /\ sm1Off' = (slv.bMbxRunning /\ mbxCfg = "off")
  /\ UNCHANGED <<slv, tick, masterVars, pdEv, wdOk>>

AlControlEvent ==
  /\ Goto("event", "result")
  /\ ctlEv /\ ~slv.bEcatWaitForAlControlRes
  /\ \E x \in Found :
       slv' = AL_ControlInd([slv EXCEPT !.bExplicitDevIdRequested = ctl.id],
                            ctl.req, ctl.ack, NoErr, x)
  /\ ctlEv' = FALSE /\ smEv' \in {smEv, FALSE}
  /\ KeepPdEv
  /\ UNCHANGED <<sm1Off, tick, ctl, mbxCfg, pdCfg, wdOk>>

SmChangeEventMutated ==
  /\ Goto("event", "result")
  /\ ~ctlEv /\ smEv /\ ~slv.err
  /\ slv.st # "INIT" \/ slv.id
  /\ slv' = LocalInd(slv, slv.st, NoErr)
  /\ smEv' = FALSE
  /\ KeepPdEv
  /\ UNCHANGED <<sm1Off, tick, ctl, ctlEv, mbxCfg, pdCfg, wdOk>>
SmChangeEvent ==
  /\ Goto("event", "result")
  /\ ~ctlEv /\ smEv /\ ~slv.bEcatWaitForAlControlRes /\ ~slv.err
  /\ slv.st # "INIT" \/ slv.id
  /\ slv' = LocalInd(slv, slv.st, NoErr)
  /\ smEv' = FALSE
  /\ KeepPdEv
  /\ UNCHANGED <<sm1Off, tick, ctl, ctlEv, mbxCfg, pdCfg, wdOk>>

NoEvent ==
  /\ Goto("event", "result")
  /\ ctlEv => slv.bEcatWaitForAlControlRes
  /\ smEv => \/ slv.bEcatWaitForAlControlRes \/ slv.err
             \/ slv.st = "INIT" /\ ~slv.id
  /\ UNCHANGED <<slv, sm1Off, tick, masterVars, pdEv, wdOk>>

PendingTransition ==
  /\ Goto("result", "sm1")
  /\ slv' = IF slv.bEcatWaitForAlControlRes THEN AL_ControlRes(slv) ELSE slv
  /\ UNCHANGED <<sm1Off, tick, masterVars, pdEv, wdOk>>

CheckSm1 ==
  /\ Goto("sm1", "error")
  /\ slv' = IF slv.bMbxRunning /\ sm1Off THEN LocalInd(slv, slv.st, NoErr) ELSE slv
  /\ sm1Off' = FALSE
  /\ KeepPdEv
  /\ UNCHANGED <<tick, masterVars, wdOk>>

CheckError ==
  /\ Goto("error", "poll")
  /\ slv' = CheckIfEcatError(slv)
  /\ KeepPdEv
  /\ UNCHANGED <<sm1Off, tick, masterVars, wdOk>>

MainLoop == PollProcessData \/ CheckTimer \/ ReadSm1 \/ AlControlEvent
            \/ SmChangeEvent \/ NoEvent \/ PendingTransition \/ CheckSm1 \/ CheckError
-------------------------------------------------------------------------------
(* Interrupts: the SM2 event (taken when its mask bit is set, that is while  *)
(* the input handler runs) and the Sync0 signal.                             *)

PDI_Isr ==
  /\ pdEv /\ slv.bEscIntEnabled /\ slv.bEcatInputUpdateRunning /\ slv.nPdOutputSize
  /\ slv' = [slv EXCEPT
       !.bEcatFirstOutputsReceived = TRUE,
       !.dc.u16SmSync0Counter =
          IF slv.dc.bDcRunning /\ slv.dc.bDcSyncActive THEN 0 ELSE @,
       !.dc.u16SmEventMissedCounter = IF @ > 0 THEN @ - 1 ELSE @]
  /\ pdEv' = FALSE
  /\ UNCHANGED <<loopVars, masterVars, wdOk>>

\* Three misses more, up to the limit.
OneMoreMissMutated(n) == n + 3
OneMoreMiss(n) == IF n <= SyncLimit THEN n + 3 ELSE n

\* u16SmSync0Value is 1 with outputs and 0 (no monitoring) without.  (Input and output
\* synchronisation are alike, and there are no subordinated cycles.)
Sync0_Isr ==
  /\ slv.dc.bDcSyncActive
  /\ LET d == slv.dc
         late == slv.nPdOutputSize /\ d.u16SmSync0Counter > 1
     IN  slv' = [slv EXCEPT !.dc =
           [d EXCEPT !.Sync0WdCounter = 0,
              !.u16SmEventMissedCounter = IF late THEN OneMoreMiss(@) ELSE @,
              !.u16SmSync0Counter = IF slv.nPdOutputSize /\ @ <= 1 THEN @ + 1 ELSE @]]
  /\ UNCHANGED <<loopVars, masterVars, pdEv, wdOk>>
-------------------------------------------------------------------------------
(* The master and the ESC.                                                   *)

Tick == /\ ~tick /\ tick' = TRUE
        /\ UNCHANGED <<pc, slv, sm1Off, masterVars, pdEv, wdOk>>

WriteAlControl ==
  /\ ctl' \in Requests /\ ctlEv' = TRUE
  /\ UNCHANGED <<loopVars, slv, smEv, mbxCfg, pdCfg, pdEv, wdOk>>

ConfigureSm ==
  /\ \/ mbxCfg' \in MbxConfigs \ {mbxCfg} /\ UNCHANGED pdCfg
     \/ pdCfg' \in (PdAddrs \cup PdFaults) \ {pdCfg} /\ UNCHANGED mbxCfg
  /\ smEv' = TRUE
  /\ UNCHANGED <<loopVars, slv, ctl, ctlEv, pdEv, wdOk>>

ProcessData ==
  /\ PdMain(slv) # {} /\ PdMain(slv) \cap slv.off = {}
  /\ pdEv' = TRUE /\ wdOk' = (wdOk \/ slv.nPdOutputSize)
  /\ UNCHANGED <<loopVars, slv, masterVars>>

WatchdogExpires ==
  /\ slv.EcatWdValue /\ wdOk /\ wdOk' = FALSE
  /\ UNCHANGED <<loopVars, slv, masterVars, pdEv>>

Interrupt   == PDI_Isr \/ Sync0_Isr
Environment == Tick \/ WriteAlControl \/ ConfigureSm \/ ProcessData \/ WatchdogExpires

\* The ESC keeps its settings when only the processor restarts.
Init == /\ pc = "poll" /\ slv = SlvInit /\ sm1Off = FALSE /\ tick = FALSE
        /\ ctl \in Requests /\ ctlEv = FALSE /\ smEv = FALSE
        /\ mbxCfg \in MbxConfigs /\ pdCfg \in PdAddrs
        /\ pdEv = FALSE /\ wdOk = FALSE

Next == MainLoop \/ Interrupt \/ Environment

Spec == Init /\ [][Next]_vars

\* The thread "ec" loops for ever and the hardware timer does not stop.
Fairness == WF_vars(MainLoop) /\ WF_vars(Tick)

FairSpec == Spec /\ Fairness
-------------------------------------------------------------------------------
(* Properties.                                                               *)

DcType == [bDcSyncActive : BOOLEAN, bDcRunning : BOOLEAN,
           bSmSyncSequenceValid : BOOLEAN,
           i16WaitForPllRunningTimeout : {0, PllTime},
           i16WaitForPllRunningCnt : 0..PllTime,
           Sync0WdValue : Nat, Sync0WdCounter : Nat, u16SmSync0Counter : 0..2,
           u16SmEventMissedCounter : 0..(SyncLimit + 3)]

SlvType == [st : States, err : BOOLEAN, id : BOOLEAN,
            alReg : [st : States, err : BOOLEAN, code : Codes],
            bEcatWaitForAlControlRes : BOOLEAN, bApplEsmPending : BOOLEAN,
            EsmTimeoutCounter : -1..EsmTimeout,
            bMbxRunning : BOOLEAN, bBootMode : BOOLEAN,
            bExplicitDevIdRequested : BOOLEAN,
            bEcatInputUpdateRunning : BOOLEAN, bEcatOutputUpdateRunning : BOOLEAN,
            bEcatFirstOutputsReceived : BOOLEAN, bEscIntEnabled : BOOLEAN,
            EcatWdValue : BOOLEAN, nPdOutputSize : BOOLEAN, nPdInputSize : BOOLEAN,
            nEscAddr : PdAddrs \cup PdFaults \cup {"none"},
            off : SUBSET {"mbx", "out", "in"}, dc : DcType]

\* The type invariant: every register and global keeps to its range; the two
\* bounded counters of the Sync0 monitoring never exceed their limits.
TypeOK ==
  /\ pc \in {"poll", "timer", "main", "event", "result", "sm1", "error"}
  /\ slv \in SlvType
  /\ sm1Off \in BOOLEAN /\ tick \in BOOLEAN
  /\ ctl \in Requests /\ ctlEv \in BOOLEAN /\ smEv \in BOOLEAN
  /\ mbxCfg \in MbxConfigs /\ pdCfg \in PdAddrs \cup PdFaults
  /\ pdEv \in BOOLEAN /\ wdOk \in BOOLEAN

\* Outputs reach the application only while the master reads OP without an
\* error, and only with the inputs running too.
OutputsOnlyInOp ==
  slv.bEcatOutputUpdateRunning =>
    /\ slv.alReg.st = "OP" /\ ~slv.alReg.err
    /\ slv.bEcatInputUpdateRunning

\* ecatslv.h:397 calls bEcatOutputUpdateRunning the indication of the OP state:
\* a master that reads OP can rely on its outputs being applied.
OpRunsOutputs == slv.alReg.st = "OP" => slv.bEcatOutputUpdateRunning

\* A transition left in work is one from SAFEOP to OP, is still timed, and has
\* left the inputs running and the outputs stopped; nothing else may change the
\* state under it and leave it in work.
WaitConsistent ==
  slv.bEcatWaitForAlControlRes =>
    /\ slv.st = "SAFEOP" /\ ~slv.err
    /\ slv.bApplEsmPending /\ slv.EsmTimeoutCounter >= 0
    /\ slv.bEcatInputUpdateRunning /\ ~slv.bEcatOutputUpdateRunning

\* The mailbox runs in every state but INIT, the input handler in SAFEOP and
\* OP, and what the master reads is the internal state.
HandlersMatchState ==
  /\ slv.bMbxRunning <=> slv.st # "INIT"
  /\ slv.bEcatInputUpdateRunning <=> slv.st \in {"SAFEOP", "OP"}
  /\ slv.bBootMode <=> slv.st = "BOOT"
  /\ slv.alReg.st = slv.st

\* A sync manager that no running handler serves is closed, so the master
\* cannot exchange process data or mail with a slave that does not look.
ClosedWhenStopped ==
  /\ ~slv.bMbxRunning => "mbx" \in slv.off
  /\ ~slv.bEcatInputUpdateRunning => {"out", "in"} \subseteq slv.off
  /\ slv.dc.bDcSyncActive \/ slv.bEscIntEnabled => slv.bEcatInputUpdateRunning

\* OP is entered from a transition in work only; in DC mode the Sync0 signal
\* runs and the event sequence is valid at that moment, be it the end of the
\* PLL wait or the timeout, otherwise the first outputs have arrived.
EnterOpSafely ==
  [][slv.alReg.st # "OP" /\ slv'.alReg.st = "OP" =>
       /\ slv.bEcatWaitForAlControlRes
       /\ IF slv.dc.bDcSyncActive
          THEN slv.dc.bDcRunning /\ slv.dc.bSmSyncSequenceValid
          ELSE slv.nPdOutputSize => slv.bEcatFirstOutputsReceived]_vars

\* Whenever OP is left with an error, the sync manager that carries the outputs
\* (the inputs, if there are none) is shut in the same step.
LeavingOpShutsOutputs ==
  [][slv.alReg.st = "OP" /\ slv'.alReg.err =>
       /\ PdMain(slv) \subseteq slv'.off
       /\ ~slv'.bEcatOutputUpdateRunning]_vars

\* What the master sees is a run of the EtherCAT state machine.
E == INSTANCE ESM WITH st <- slv.alReg.st, err <- slv.alReg.err,
                       pending <- slv.bEcatWaitForAlControlRes
ImplementsESM == E!Spec

\* A transition in work ends: confirmed, refused or cancelled.
PendingEnds == slv.bEcatWaitForAlControlRes ~> ~slv.bEcatWaitForAlControlRes

\* No request of the master stays unread, even behind a transition in work.
RequestsAreRead == ctlEv ~> ~ctlEv

\* The loss of the process data ends OP unless the watchdog is triggered again
\* before the main loop looks.
WatchdogEndsOp ==
  (slv.bEcatOutputUpdateRunning /\ slv.EcatWdValue /\ ~wdOk)
    ~> (~slv.bEcatOutputUpdateRunning \/ wdOk)

\* A missing Sync0 signal ends OP in DC mode unless it comes back.
SyncLossEndsOp ==
  (slv.bEcatOutputUpdateRunning /\ slv.dc.bDcSyncActive /\ Sync0Lost(slv.dc))
    ~> (~slv.bEcatOutputUpdateRunning \/ ~Sync0Lost(slv.dc))

\* "By default the SO transition should be completed in AlControlRes()"
\* (ecatslv.c:1260-1262, "if the master don't send process data within
\* SAFEOP2OPTIMEOUT the transition is rejected"): a master that asked for OP
\* reads OP or an error.  The one exception is sm1Activate, read before the
\* request and used after it: with SM1 off at the read and on again at the
\* check of the settings the wait is cancelled without a word.  That costs the
\* request and no more: the slave goes on in SAFEOP, with its inputs.
StartedIsAnswered ==
  [][slv.bEcatWaitForAlControlRes /\ ~slv'.bEcatWaitForAlControlRes =>
       \/ slv'.alReg.st = "OP" \/ slv'.alReg.err
       \/ /\ pc = "sm1" /\ sm1Off /\ mbxCfg # "off"
          /\ slv'.alReg.st = "SAFEOP" /\ slv'.bEcatInputUpdateRunning]_vars
===============================================================================
