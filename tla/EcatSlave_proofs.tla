---------------------------- MODULE EcatSlave_proofs ----------------------------
(***************************************************************************)
(* Proofs about EcatSlave.  The inductive invariant speaks of the record    *)
(* slv alone, so the lemmas follow the call graph of ecatslv.c: one for     *)
(* every function, saying what it keeps of                                  *)
(*   - SlvType: every field stays in its range,                             *)
(*   - Fit(s, st): the handlers that run and the sync managers that are     *)
(*     open are those of state st.                                          *)
(***************************************************************************)
EXTENDS EcatSlave, TLAPS

\* The handlers of s are those of the state st.  The last conjuncts but one
\* say that only channels in use are open, so that stopping the channels in
\* use closes all of them.
Fit(s, st) ==
  /\ s.bMbxRunning <=> st # "INIT"
  /\ s.bEcatInputUpdateRunning <=> st \in {"SAFEOP", "OP"}
  /\ s.bBootMode <=> st = "BOOT"
  /\ s.bEcatOutputUpdateRunning => st = "OP"
  /\ ~s.bMbxRunning => "mbx" \in s.off
  /\ ~s.bEcatInputUpdateRunning => "out" \in s.off /\ "in" \in s.off
  /\ "out" \notin s.off => s.nPdOutputSize
  /\ "in" \notin s.off => s.nPdInputSize
  /\ s.dc.bDcSyncActive \/ s.bEscIntEnabled => s.bEcatInputUpdateRunning
  /\ s.dc.bSmSyncSequenceValid => s.dc.bDcRunning

\* The master reads the state the slave is in, and no error with the outputs.
Shown(s) == s.alReg.st = s.st /\ (s.bEcatOutputUpdateRunning => ~s.alReg.err)

\* A transition in work is one from SAFEOP to OP that is still timed.
Waits(s) ==
  s.bEcatWaitForAlControlRes =>
    s.st = "SAFEOP" /\ ~s.err /\ s.bApplEsmPending /\ s.EsmTimeoutCounter >= 0

SlvInv(s) == s \in SlvType /\ Fit(s, s.st) /\ Shown(s) /\ Waits(s)

\* The PLL wait of a transition in work has run to its end.
PllFull(s) ==
  /\ s.bEcatWaitForAlControlRes /\ s.dc.bDcSyncActive
  /\ s.dc.i16WaitForPllRunningTimeout = PllTime
  /\ s.dc.i16WaitForPllRunningCnt = PllTime

\* The timer fills the count only while the sequence is valid, and the same
\* pass of the main loop ends the wait, before a later tick can find the
\* sequence broken.
PllInv == PllFull(slv) => pc \in {"main", "event", "result"} /\ slv.dc.bSmSyncSequenceValid

IInv == TypeOK /\ SlvInv(slv) /\ PllInv
-------------------------------------------------------------------------------
(* One field set at a time: the provers compose these for a whole EXCEPT.     *)

\* A flag set to a truth value keeps the record in its type.
LEMMA SetFlag ==
  ASSUME NEW s \in SlvType, NEW v \in BOOLEAN
  PROVE  /\ [s EXCEPT !.err = v] \in SlvType
         /\ [s EXCEPT !.id = v] \in SlvType
         /\ [s EXCEPT !.bEcatWaitForAlControlRes = v] \in SlvType
         /\ [s EXCEPT !.bApplEsmPending = v] \in SlvType
         /\ [s EXCEPT !.bExplicitDevIdRequested = v] \in SlvType
         /\ [s EXCEPT !.nPdOutputSize = v] \in SlvType
         /\ [s EXCEPT !.nPdInputSize = v] \in SlvType
         /\ [s EXCEPT !.EcatWdValue = v] \in SlvType
<1>1. /\ [s EXCEPT !.err = v] \in SlvType
      /\ [s EXCEPT !.id = v] \in SlvType
  BY DEF SlvType
<1>2. /\ [s EXCEPT !.bEcatWaitForAlControlRes = v] \in SlvType
      /\ [s EXCEPT !.bApplEsmPending = v] \in SlvType
      /\ [s EXCEPT !.bExplicitDevIdRequested = v] \in SlvType
  BY DEF SlvType
<1>3. /\ [s EXCEPT !.nPdOutputSize = v] \in SlvType
      /\ [s EXCEPT !.nPdInputSize = v] \in SlvType
      /\ [s EXCEPT !.EcatWdValue = v] \in SlvType
  BY DEF SlvType
<1> QED
  BY <1>1, <1>2, <1>3

\* The same for the flags of the handlers.
LEMMA SetHandler ==
  ASSUME NEW s \in SlvType, NEW v \in BOOLEAN
  PROVE  /\ [s EXCEPT !.bMbxRunning = v] \in SlvType
         /\ [s EXCEPT !.bBootMode = v] \in SlvType
         /\ [s EXCEPT !.bEcatInputUpdateRunning = v] \in SlvType
         /\ [s EXCEPT !.bEcatOutputUpdateRunning = v] \in SlvType
         /\ [s EXCEPT !.bEcatFirstOutputsReceived = v] \in SlvType
         /\ [s EXCEPT !.bEscIntEnabled = v] \in SlvType
<1>1. /\ [s EXCEPT !.bMbxRunning = v] \in SlvType
      /\ [s EXCEPT !.bBootMode = v] \in SlvType
  BY DEF SlvType
<1>2. /\ [s EXCEPT !.bEcatInputUpdateRunning = v] \in SlvType
      /\ [s EXCEPT !.bEcatOutputUpdateRunning = v] \in SlvType
  BY DEF SlvType
<1>3. /\ [s EXCEPT !.bEcatFirstOutputsReceived = v] \in SlvType
      /\ [s EXCEPT !.bEscIntEnabled = v] \in SlvType
  BY DEF SlvType
<1> QED
  BY <1>1, <1>2, <1>3

\* The same for the state, AL Status, the timer, the start address and the
\* channels.
LEMMA SetValue ==
  ASSUME NEW s \in SlvType
  PROVE  /\ \A v \in States : [s EXCEPT !.st = v] \in SlvType
         /\ \A v \in [st : States, err : BOOLEAN, code : Codes] :
              [s EXCEPT !.alReg = v] \in SlvType
         /\ \A v \in -1..EsmTimeout : [s EXCEPT !.EsmTimeoutCounter = v] \in SlvType
         /\ \A v \in PdAddrs \cup PdFaults \cup {"none"} :
              [s EXCEPT !.nEscAddr = v] \in SlvType
         /\ \A v \in SUBSET {"mbx", "out", "in"} : [s EXCEPT !.off = v] \in SlvType
         /\ \A v \in DcType : [s EXCEPT !.dc = v] \in SlvType
  BY DEF SlvType

\* The same for the fields of the Sync0 monitoring.
LEMMA SetDc ==
  ASSUME NEW d \in DcType
  PROVE  /\ \A v \in BOOLEAN : /\ [d EXCEPT !.bDcSyncActive = v] \in DcType
                               /\ [d EXCEPT !.bDcRunning = v] \in DcType
                               /\ [d EXCEPT !.bSmSyncSequenceValid = v] \in DcType
         /\ \A v \in {0, PllTime} : [d EXCEPT !.i16WaitForPllRunningTimeout = v] \in DcType
         /\ \A v \in 0..PllTime : [d EXCEPT !.i16WaitForPllRunningCnt = v] \in DcType
         /\ \A v \in Nat : /\ [d EXCEPT !.Sync0WdValue = v] \in DcType
                           /\ [d EXCEPT !.Sync0WdCounter = v] \in DcType
         /\ \A v \in 0..2 : [d EXCEPT !.u16SmSync0Counter = v] \in DcType
         /\ \A v \in 0..(SyncLimit + 3) : [d EXCEPT !.u16SmEventMissedCounter = v] \in DcType
  BY DEF DcType
-------------------------------------------------------------------------------
(* Channels.                                                                 *)

\* The process-data channels in use are those with a size.
LEMMA Channels ==
  ASSUME NEW s \in SlvType
  PROVE  /\ "out" \in PdChannels(s) <=> s.nPdOutputSize
         /\ "in" \in PdChannels(s) <=> s.nPdInputSize
         /\ PdChannels(s) \subseteq {"out", "in"}
         /\ PdMain(s) \subseteq PdChannels(s)
  BY DEF PdChannels, PdMain, SlvType

\* Closing the channels of the process data disturbs no handler and nothing
\* but the channels (DisableSyncManChannel).
LEMMA CloseFits ==
  ASSUME NEW s \in SlvType, NEW st \in States, Fit(s, st)
  PROVE  LET t == Disable(s, PdMain(s)) IN
         /\ t \in SlvType /\ Fit(t, st)
         /\ \A f \in DOMAIN s \ {"off"} : t[f] = s[f]
<1>1. s.off \cup PdMain(s) \in SUBSET {"mbx", "out", "in"} /\ "off" \in DOMAIN s
  BY Channels DEF SlvType
<1>2. Disable(s, PdMain(s)) \in SlvType
  BY <1>1, SetValue, Zenon DEF Disable
<1>3. Fit(Disable(s, PdMain(s)), st)
  BY <1>1 DEF Disable, Fit, SlvType
<1> QED
  BY <1>2, <1>3 DEF Disable

\* With the input handler running, channels in use may be opened
\* (EnableSyncManChannel).
LEMMA OpenFits ==
  ASSUME NEW s \in SlvType, NEW st \in {"SAFEOP", "OP"}, Fit(s, st),
         NEW ch, ch \subseteq PdChannels(s)
  PROVE  LET t == Enable(s, ch) IN
         /\ t \in SlvType /\ Fit(t, st)
         /\ \A f \in DOMAIN s \ {"off"} : t[f] = s[f]
<1>1. s.off \ ch \in SUBSET {"mbx", "out", "in"} /\ "off" \in DOMAIN s
  BY Channels DEF SlvType
<1>2. Enable(s, ch) \in SlvType
  BY <1>1, SetValue, Zenon DEF Enable
<1>3. Fit(Enable(s, ch), st)
  BY Channels DEF Enable, Fit, SlvType
<1> QED
  BY <1>2, <1>3 DEF Enable
-------------------------------------------------------------------------------
(* Handlers.                                                                 *)

\* Without the mailbox handler the slave is one in INIT.
LEMMA StopMailboxFits ==
  ASSUME NEW s \in SlvType, NEW st \in {"INIT", "PREOP"}, Fit(s, st)
  PROVE  MBX_StopMailboxHandler(s) \in SlvType /\ Fit(MBX_StopMailboxHandler(s), "INIT")
<1>1. s.off \cup {"mbx"} \in SUBSET {"mbx", "out", "in"}
  BY DEF SlvType
<1>2. MBX_StopMailboxHandler(s) \in SlvType
  BY <1>1, SetValue, SetHandler, Zenon DEF MBX_StopMailboxHandler, Disable
<1>3. MBX_StopMailboxHandler(s) = [s EXCEPT !.off = s.off \cup {"mbx"}, !.bMbxRunning = FALSE]
  BY DEF MBX_StopMailboxHandler, Disable, SlvType
<1>4. Fit([s EXCEPT !.off = s.off \cup {"mbx"}, !.bMbxRunning = FALSE], "INIT")
  BY DEF Fit, SlvType
<1> QED
  BY <1>2, <1>3, <1>4

\* Without the output handler the slave is one in SAFEOP, and still one in OP
\* as far as the invariant goes.
LEMMA StopOutputFits ==
  ASSUME NEW s \in SlvType, NEW st \in {"SAFEOP", "OP"}, Fit(s, st)
  PROVE  LET t == StopOutputHandler(s) IN
         /\ t \in SlvType /\ Fit(t, "SAFEOP") /\ Fit(t, "OP")
<1> DEFINE t == StopOutputHandler(s)
<1>1. t \in SlvType
  BY SetHandler, Zenon DEF StopOutputHandler
<1>2. /\ ~t.bEcatOutputUpdateRunning
      /\ \A f \in DOMAIN s \ {"bEcatFirstOutputsReceived", "bEcatOutputUpdateRunning"} : t[f] = s[f]
  BY DEF StopOutputHandler, SlvType
<1>3. {"bMbxRunning", "bEcatInputUpdateRunning", "bBootMode", "off", "nPdOutputSize",
       "nPdInputSize", "bEscIntEnabled", "dc"}
        \subseteq DOMAIN s \ {"bEcatFirstOutputsReceived", "bEcatOutputUpdateRunning"}
  BY DEF SlvType
<1> HIDE DEF t
<1>4. Fit(t, "SAFEOP") /\ Fit(t, "OP")
  BY <1>2, <1>3 DEF Fit
<1> QED
  BY <1>1, <1>4 DEF t

\* The Sync0 monitoring at rest is in its type.
LEMMA DcOffType == DcOff \in DcType
  BY TimeAssumption DEF DcOff, DcType

\* Without the input handler the slave is one in PREOP: all channels of the
\* process data are closed and the Sync0 monitoring is at rest.
LEMMA StopInputFits ==
  ASSUME NEW s \in SlvType, NEW st \in {"PREOP", "SAFEOP"}, Fit(s, st)
  PROVE  StopInputHandler(s) \in SlvType /\ Fit(StopInputHandler(s), "PREOP")
<1> DEFINE ch == PdChannels(s)
           dc == [DcOff EXCEPT !.i16WaitForPllRunningCnt = s.dc.i16WaitForPllRunningCnt]
           off == s.off \cup ch
<1>1. /\ "out" \in ch <=> s.nPdOutputSize
      /\ "in" \in ch <=> s.nPdInputSize
      /\ off \in SUBSET {"mbx", "out", "in"}
  BY Channels DEF SlvType
<1>2. dc \in DcType /\ ~dc.bDcSyncActive /\ ~dc.bSmSyncSequenceValid
  BY DcOffType DEF DcOff, DcType, SlvType
<1>3. StopInputHandler(s) \in SlvType
  BY <1>1, <1>2, SetValue, SetHandler, Zenon DEF StopInputHandler, Disable
<1>4. Fit(StopInputHandler(s), "PREOP")
  <2> HIDE DEF dc
  <2>1. StopInputHandler(s) = [s EXCEPT !.off = s.off \cup ch,
           !.bEcatFirstOutputsReceived = FALSE, !.bEscIntEnabled = FALSE,
           !.bEcatInputUpdateRunning = FALSE, !.dc = dc]
    BY DEF StopInputHandler, Disable, dc, SlvType
  <2> QED
    BY <1>1, <1>2, <2>1 DEF Fit, SlvType
<1> QED
  BY <1>3, <1>4

\* Opens the channels in use; a refused configuration leaves them closed.
LEMMA StartInputFits ==
  ASSUME NEW s \in SlvType, Fit(s, "PREOP"), NEW c \in StartConfigs,
         pdCfg \in PdAddrs \cup PdFaults
  PROVE  LET t == StartInputHandler(s, c) IN
         /\ t \in SlvType
         /\ c.res # NoErr => Fit(t, "PREOP")
         /\ c.res = NoErr => Fit([t EXCEPT !.bEcatInputUpdateRunning = TRUE], "SAFEOP")
<1> DEFINE wd == IF c.res \in {NoErr, "INVALIDWDCFG"} THEN c.wd /\ s.nPdOutputSize ELSE s.EcatWdValue
           started == [s EXCEPT !.bEcatFirstOutputsReceived = FALSE, !.nEscAddr = pdCfg,
                                !.EcatWdValue = wd]
           sync == c.sync # "FREERUN" /\ (c.user \/ PdChannels(s) # {})
           dcOn == c.sync = "DC" /\ sync
           ch == PdChannels(s)
           dc == [DcOff EXCEPT !.bDcSyncActive = dcOn, !.Sync0WdValue = c.sync0,
                               !.i16WaitForPllRunningCnt = s.dc.i16WaitForPllRunningCnt]
<1>1. wd \in BOOLEAN
  BY StartConfigsAssumption DEF SlvType
<1>2. started \in SlvType
  BY <1>1, SetHandler, SetValue, SetFlag, Zenon
<1>3. Fit(started, "PREOP") /\ started.dc = s.dc /\ started.off = s.off
  <2> HIDE DEF wd
  <2>1. \A f \in {"bMbxRunning", "bEcatInputUpdateRunning", "bBootMode", "bEcatOutputUpdateRunning",
                 "off", "nPdOutputSize", "nPdInputSize", "bEscIntEnabled", "dc"} :
          started[f] = s[f]
    BY DEF SlvType
  <2> HIDE DEF started
  <2> QED
    BY <2>1 DEF Fit
<1>4. PdChannels(started) = PdChannels(s)
  <2> HIDE DEF wd
  <2> QED BY DEF PdChannels, SlvType
<1>5. dc \in DcType /\ ~dc.bSmSyncSequenceValid
  <2>1. dc \in DcType
    <3> DEFINE on == [DcOff EXCEPT !.bDcSyncActive = dcOn]
               due == [on EXCEPT !.Sync0WdValue = c.sync0]
    <3>1. /\ s.dc.i16WaitForPllRunningCnt \in 0..PllTime
          /\ dcOn \in BOOLEAN /\ c.sync0 \in Nat
      BY StartConfigsAssumption DEF SlvType, DcType
    <3>2. on \in DcType
      BY <3>1, DcOffType, SetDc, Zenon
    <3>3. due \in DcType
      BY <3>1, <3>2, SetDc, Zenon
    <3>4. dc = [due EXCEPT !.i16WaitForPllRunningCnt = s.dc.i16WaitForPllRunningCnt]
      BY DEF DcOff
    <3> HIDE DEF due, dc
    <3> QED
      BY <3>1, <3>3, <3>4, SetDc, Zenon
  <2>2. ~dc.bSmSyncSequenceValid
    BY DEF DcOff
  <2> QED
    BY <2>1, <2>2
<1>6. StartInputHandler(s, c) = IF c.res # NoErr THEN started
        ELSE [started EXCEPT !.off = started.off \ ch, !.bEscIntEnabled = sync, !.dc = dc]
  BY <1>4 DEF StartInputHandler, Enable
<1>7. /\ "out" \in ch <=> started.nPdOutputSize
      /\ "in" \in ch <=> started.nPdInputSize
      /\ started.off \ ch \in SUBSET {"mbx", "out", "in"}
  BY <1>2, <1>4, Channels DEF SlvType
<1> HIDE DEF started, sync, dc, ch
<1>8. sync \in BOOLEAN
  BY DEF sync
<1>9. StartInputHandler(s, c) \in SlvType
  <2>1. [started EXCEPT !.off = started.off \ ch, !.bEscIntEnabled = sync, !.dc = dc] \in SlvType
    BY <1>2, <1>5, <1>7, <1>8, SetValue, SetHandler, Zenon
  <2> QED
    BY <2>1, <1>2, <1>6
<1>10. ASSUME c.res = NoErr
       PROVE  Fit([StartInputHandler(s, c) EXCEPT !.bEcatInputUpdateRunning = TRUE], "SAFEOP")
  BY <1>2, <1>3, <1>5, <1>6, <1>7, <1>10 DEF Fit, SlvType
<1> QED
  BY <1>3, <1>6, <1>9, <1>10

\* Touches the PLL wait and the missed-event counter only.
LEMMA StartOutputKeeps ==
  ASSUME NEW s \in SlvType
  PROVE  LET t == StartOutputHandler(s) IN
         /\ t \in SlvType
         /\ \A f \in DOMAIN s \ {"dc"} : t[f] = s[f]
         /\ t.dc.bDcSyncActive = s.dc.bDcSyncActive
         /\ t.dc.bDcRunning = s.dc.bDcRunning
         /\ t.dc.bSmSyncSequenceValid = s.dc.bSmSyncSequenceValid
         /\ t.dc.bDcSyncActive => t.dc.i16WaitForPllRunningCnt = 0
<1> DEFINE w == IF s.dc.bDcSyncActive THEN PllTime ELSE s.dc.i16WaitForPllRunningTimeout
           n == IF s.dc.bDcSyncActive THEN 0 ELSE s.dc.i16WaitForPllRunningCnt
           dc == [s.dc EXCEPT !.i16WaitForPllRunningTimeout = w,
                              !.i16WaitForPllRunningCnt = n, !.u16SmEventMissedCounter = 0]
<1>1. s.dc \in DcType /\ w \in {0, PllTime} /\ n \in 0..PllTime /\ 0 \in 0..(SyncLimit + 3)
  BY TimeAssumption DEF SlvType, DcType
<1>2. dc \in DcType
  <2> HIDE DEF w, n
  <2> QED BY <1>1, SetDc, Zenon
<1>3. /\ dc.bDcSyncActive = s.dc.bDcSyncActive
      /\ dc.bDcRunning = s.dc.bDcRunning
      /\ dc.bSmSyncSequenceValid = s.dc.bSmSyncSequenceValid
      /\ dc.i16WaitForPllRunningCnt = n
  <2> HIDE DEF w, n
  <2> QED BY <1>1 DEF DcType
<1>4. StartOutputHandler(s) = [s EXCEPT !.dc = dc]
  BY DEF StartOutputHandler, SlvType
<1> HIDE DEF dc
<1>5. [s EXCEPT !.dc = dc] \in SlvType
  BY <1>2, SetValue, Zenon
<1> QED
  BY <1>3, <1>4, <1>5 DEF SlvType
-------------------------------------------------------------------------------
(* Transitions.                                                              *)

\* The calls of a downward transition leave the handlers of the lower state.
LEMMA StepDownFits ==
  ASSUME NEW s \in SlvType, NEW from \in {"PREOP", "SAFEOP", "OP"}, Fit(s, from),
         NEW to \in {"INIT", "PREOP", "SAFEOP"},
         from = "PREOP" => to = "INIT", from = "SAFEOP" => to # "SAFEOP"
  PROVE  StepDown(s, from, to) \in SlvType /\ Fit(StepDown(s, from, to), to)
<1> DEFINE s1 == IF from = "OP" THEN StopOutputHandler(s) ELSE s
           s2 == IF to # "SAFEOP" /\ from # "PREOP" THEN StopInputHandler(s1) ELSE s1
<1>1. s1 \in SlvType /\ Fit(s1, IF from = "PREOP" THEN "PREOP" ELSE "SAFEOP")
  BY StopOutputFits
<1> HIDE DEF s1
<1>2. s2 \in SlvType /\ Fit(s2, IF to = "SAFEOP" THEN "SAFEOP" ELSE "PREOP")
  BY <1>1, StopInputFits
<1> HIDE DEF s2
<1>3. StepDown(s, from, to) = IF to = "INIT" THEN MBX_StopMailboxHandler(s2) ELSE s2
  BY DEF StepDown, s1, s2
<1> QED
  BY <1>2, <1>3, StopMailboxFits

\* What a transition returns to Conclude: with NoErr the record fits the state
\* asked for, otherwise the one it is still in.
Outcome(r, to) ==
  /\ r.s \in SlvType
  /\ r.res \in Codes \cup {InWork, NoChange}
  /\ r.res = NoErr => to \in States /\ Fit(r.s, to)
  /\ r.res # NoErr => Fit(r.s, r.s.st)
  /\ r.res = NoChange => to = r.s.st
  /\ r.res = InWork => /\ r.s.st = "SAFEOP" /\ ~r.s.err /\ r.s.bApplEsmPending
                       /\ r.s.alReg.st = "SAFEOP"
                       /\ r.s.dc.bDcSyncActive => r.s.dc.i16WaitForPllRunningCnt = 0

\* A transition completed at once ends with the handlers of its target.
LEMMA DoneOutcome ==
  ASSUME NEW s \in SlvType, NEW to \in States, Fit(s, to)
  PROVE  Outcome(Done(s), to)
<1> DEFINE t == [s EXCEPT !.bApplEsmPending = FALSE]
<1>1. t \in SlvType
  BY SetFlag
<1>2. Fit(t, to)
  BY DEF Fit, SlvType
<1> HIDE DEF t
<1>3. Done(s) = [s |-> t, res |-> NoErr]
  BY DEF Done, t
<1> QED
  BY <1>1, <1>2, <1>3 DEF Outcome, Codes, NoErr, InWork, NoChange

\* A refusal that changes nothing.
LEMMA RefusedOutcome ==
  ASSUME NEW s \in SlvType, Fit(s, s.st), NEW to, NEW res \in Codes \ {NoErr}
  PROVE  Outcome([s |-> s, res |-> res], to)
  BY DEF Outcome, Codes, MapErrors, CfgErrors, NoErr, InWork, NoChange

\* MBX_StartMailboxHandler gives the handlers of BOOT or PREOP, or, when the
\* mailbox buffers overlap, those of INIT and an error.
LEMMA StartMailboxOutcome ==
  ASSUME NEW s \in SlvType, s.st = "INIT", Fit(s, "INIT"), NEW boot \in BOOLEAN
  PROVE  Outcome(StartMailbox(s, boot), IF boot THEN "BOOT" ELSE "PREOP")
<1> DEFINE to == IF boot THEN "BOOT" ELSE "PREOP"
           t == [Enable(s, {"mbx"}) EXCEPT !.bMbxRunning = TRUE, !.bBootMode = boot]
           stop == MBX_StopMailboxHandler(s)
<1>1. t \in SlvType
  <2>1. s.off \ {"mbx"} \in SUBSET {"mbx", "out", "in"}
    BY DEF SlvType
  <2> QED
    BY <2>1, SetValue, SetHandler, Zenon DEF Enable
<1>2. Fit(t, to)
  BY DEF Fit, Enable, SlvType
<1>3. stop \in SlvType /\ Fit(stop, "INIT")
  BY StopMailboxFits
<1>4. stop.st = "INIT"
  BY DEF MBX_StopMailboxHandler, Disable, SlvType
<1>5. StartMailbox(s, boot) = IF mbxCfg = "overlap"
                              THEN [s |-> stop, res |-> "INVALIDMBXCFGINPREOP"] ELSE Done(t)
  BY DEF StartMailbox
<1> HIDE DEF t, stop, to
<1>6. Outcome([s |-> stop, res |-> "INVALIDMBXCFGINPREOP"], to)
  BY <1>3, <1>4, RefusedOutcome DEF Codes, NoErr
<1>7. to \in States
  BY DEF to, States
<1>8. Outcome(Done(t), to)
  BY <1>1, <1>2, <1>7, DoneOutcome
<1> QED
  BY <1>5, <1>6, <1>8 DEF to

\* INIT_2_BOOT ends in the handlers of BOOT, or of INIT with an error.
LEMMA InitToBootOutcome ==
  ASSUME NEW s \in SlvType, s.st = "INIT", Fit(s, "INIT")
  PROVE  Outcome(InitToBoot(s), "BOOT")
<1> DEFINE t == [s EXCEPT !.bBootMode = FALSE]
<1>1. t \in SlvType /\ Fit(t, t.st)
  <2>1. t \in SlvType
    BY SetHandler
  <2>2. Fit(t, t.st)
    BY DEF Fit, SlvType
  <2> QED
    BY <2>1, <2>2
<1> HIDE DEF t
<1>2. Outcome([s |-> t, res |-> "INVALIDMBXCFGINBOOT"], "BOOT")
  BY <1>1, RefusedOutcome DEF Codes, NoErr
<1> QED
  BY <1>2, StartMailboxOutcome DEF InitToBoot, t

\* INIT_2_PREOP ends in the handlers of PREOP, or of INIT with an error.
LEMMA InitToPreopOutcome ==
  ASSUME NEW s \in SlvType, s.st = "INIT", Fit(s, "INIT"), NEW eep \in BOOLEAN
  PROVE  Outcome(InitToPreop(s, eep), "PREOP")
<1>1. s.bBootMode = FALSE
  BY DEF Fit, SlvType
<1>2. Outcome([s |-> s, res |-> "EE_ERROR"], "PREOP")
  BY RefusedOutcome DEF Codes, NoErr
<1> QED
  BY <1>1, <1>2, StartMailboxOutcome DEF InitToPreop

\* BOOT_2_INIT ends in the handlers of INIT.
LEMMA BootToInitOutcome ==
  ASSUME NEW s \in SlvType, Fit(s, "BOOT")
  PROVE  Outcome([s |-> MBX_StopMailboxHandler([s EXCEPT !.bBootMode = FALSE]),
                  res |-> NoErr], "INIT")
<1> DEFINE t == [s EXCEPT !.bBootMode = FALSE]
           stop == MBX_StopMailboxHandler(t)
<1>1. t \in SlvType /\ Fit(t, "PREOP")
  <2>1. t \in SlvType
    BY SetHandler
  <2>2. Fit(t, "PREOP")
    BY DEF Fit, SlvType
  <2> QED
    BY <2>1, <2>2
<1> HIDE DEF t
<1>2. stop \in SlvType /\ Fit(stop, "INIT")
  BY <1>1, StopMailboxFits
<1> HIDE DEF stop
<1>3. Outcome([s |-> stop, res |-> NoErr], "INIT")
  BY <1>2 DEF Outcome, Codes, NoErr, InWork, NoChange, States
<1> QED
  BY <1>3 DEF stop, t

\* PREOP_2_SAFEOP ends in the handlers of SAFEOP, or, when a configuration
\* error is found, in those of PREOP.
LEMMA PreopToSafeopOutcome ==
  ASSUME NEW s \in SlvType, s.st = "PREOP", Fit(s, "PREOP"), NEW c \in StartConfigs,
         pdCfg \in PdAddrs \cup PdFaults
  PROVE  Outcome(PreopToSafeop(s, c), "SAFEOP")
<1> DEFINE started == StartInputHandler(s, c)
           stop == StopInputHandler(started)
           run == [started EXCEPT !.bEcatInputUpdateRunning = TRUE]
<1>1. /\ started \in SlvType
      /\ c.res # NoErr => Fit(started, "PREOP")
      /\ c.res = NoErr => Fit(run, "SAFEOP")
  BY StartInputFits
<1>2. c.res # NoErr => c.res \in Codes \ {NoErr}
  BY StartConfigsAssumption DEF Codes
<1>3. started.st = "PREOP"
  BY DEF StartInputHandler, Enable, SlvType
<1> HIDE DEF started
<1>4. ASSUME c.res # NoErr
      PROVE  Outcome([s |-> stop, res |-> c.res], "SAFEOP")
  <2>1. stop \in SlvType /\ Fit(stop, "PREOP")
    BY <1>1, <1>4, StopInputFits
  <2>2. stop.st = "PREOP"
    BY <1>1, <1>3 DEF StopInputHandler, Disable, SlvType
  <2> HIDE DEF stop
  <2> QED
    BY <2>1, <2>2, <1>2, <1>4, RefusedOutcome
<1>5. ASSUME c.res = NoErr
      PROVE  Outcome(Done(run), "SAFEOP")
  <2>1. run \in SlvType
    BY <1>1, SetHandler
  <2> QED
    BY <1>1, <1>5, <2>1, DoneOutcome DEF States
<1> QED
  BY <1>4, <1>5 DEF PreopToSafeop, started

\* SAFEOP_2_OP is left in work, with the handlers of SAFEOP and the flags that
\* AL_ControlRes polls.
LEMMA SafeopToOpOutcome ==
  ASSUME NEW s \in SlvType, s.st = "SAFEOP", Fit(s, "SAFEOP"), NEW ack \in BOOLEAN,
         ~s.err, s.bApplEsmPending, s.alReg.st = "SAFEOP"
  PROVE  /\ Outcome(SafeopToOp(s, ack), "OP")
         /\ SafeopToOp(s, ack).res = InWork
<1> DEFINE s1 == IF ack THEN Enable(s, PdMain(s)) ELSE s
           t == StartOutputHandler(s1)
<1>1. s1 \in SlvType /\ Fit(s1, "SAFEOP") /\ \A f \in DOMAIN s \ {"off"} : s1[f] = s[f]
  BY OpenFits, Channels
<1> HIDE DEF s1
<1>2. /\ t \in SlvType
      /\ \A f \in DOMAIN s1 \ {"dc"} : t[f] = s1[f]
      /\ t.dc.bDcSyncActive = s1.dc.bDcSyncActive
      /\ t.dc.bDcRunning = s1.dc.bDcRunning
      /\ t.dc.bSmSyncSequenceValid = s1.dc.bSmSyncSequenceValid
      /\ t.dc.bDcSyncActive => t.dc.i16WaitForPllRunningCnt = 0
  BY <1>1, StartOutputKeeps
<1> HIDE DEF t
<1>3. t.st = "SAFEOP" /\ ~t.err /\ t.bApplEsmPending /\ t.alReg.st = "SAFEOP"
  BY <1>1, <1>2 DEF SlvType
<1>4. Fit(t, "SAFEOP")
  BY <1>1, <1>2 DEF Fit, SlvType
<1>5. Outcome([s |-> t, res |-> InWork], "OP")
  BY <1>2, <1>3, <1>4 DEF Outcome, NoErr, InWork, NoChange
<1> QED
  BY <1>5 DEF SafeopToOp, t, s1

\* The repeated request of a state keeps its handlers.
LEMMA SameStateOutcome ==
  ASSUME NEW s \in SlvType, Fit(s, s.st)
  PROVE  Outcome(SameState(s), s.st)
<1> DEFINE t == IF s.st \in {"SAFEOP", "OP"} THEN Enable(s, PdMain(s)) ELSE s
<1>1. t \in SlvType /\ Fit(t, s.st) /\ t.st = s.st
  <2>1. CASE s.st \in {"SAFEOP", "OP"}
    BY <2>1, OpenFits, Channels DEF SlvType
  <2>2. CASE s.st \notin {"SAFEOP", "OP"}
    BY <2>2
  <2> QED
    BY <2>1, <2>2
<1> HIDE DEF t
<1>2. Outcome([s |-> t, res |-> NoChange], s.st)
  BY <1>1 DEF Outcome, NoErr, InWork, NoChange
<1> QED
  BY <1>2 DEF SameState, t

\* Every transition of the switch in AL_ControlInd.
LEMMA TransitionOutcome ==
  ASSUME NEW s \in SlvType, Fit(s, s.st), ~s.err, s.bApplEsmPending, s.alReg.st = s.st,
         NEW to \in States \cup Unknown, NEW ack \in BOOLEAN, NEW x \in Found,
         pdCfg \in PdAddrs \cup PdFaults
  PROVE  Outcome(Transition(s, to, ack, x), to)
<1>0. s.st \in States /\ x.eep \in BOOLEAN /\ x.start \in StartConfigs
  BY DEF SlvType, Found
<1>1. CASE s.st = "INIT" /\ to = "BOOT"
  BY <1>1, InitToBootOutcome DEF Transition, InvalidEdges
<1>2. CASE s.st = "BOOT" /\ to = "INIT"
  BY <1>2, BootToInitOutcome DEF Transition, InvalidEdges
<1>3. CASE s.st = "INIT" /\ to = "PREOP"
  BY <1>0, <1>3, InitToPreopOutcome DEF Transition, InvalidEdges
<1>4. CASE s.st = "PREOP" /\ to = "SAFEOP"
  BY <1>0, <1>4, PreopToSafeopOutcome DEF Transition, InvalidEdges
<1>5. CASE s.st = "SAFEOP" /\ to = "OP"
  BY <1>5, SafeopToOpOutcome DEF Transition, InvalidEdges
<1>6. CASE s.st = "PREOP" /\ to = "INIT"
  <2>1. StepDown(s, s.st, to) \in SlvType /\ Fit(StepDown(s, s.st, to), to)
    BY <1>6, StepDownFits
  <2>2. Transition(s, to, ack, x) = [s |-> StepDown(s, s.st, to), res |-> NoErr]
    BY <1>6 DEF Transition, InvalidEdges
  <2> QED
    BY <1>6, <2>1, <2>2 DEF Outcome, Codes, NoErr, InWork, NoChange, States
<1>7. CASE \/ s.st = "OP" /\ to \in {"SAFEOP", "PREOP", "INIT"}
           \/ s.st = "SAFEOP" /\ to \in {"PREOP", "INIT"}
  <2>1. StepDown(s, s.st, to) \in SlvType /\ Fit(StepDown(s, s.st, to), to)
    BY <1>7, StepDownFits
  <2>2. Transition(s, to, ack, x) = Done(StepDown(s, s.st, to))
    BY <1>7 DEF Transition, InvalidEdges
  <2> QED
    BY <1>7, <2>1, <2>2, DoneOutcome DEF States
<1>8. CASE s.st = to /\ to # "BOOT"
  BY <1>8, SameStateOutcome DEF Transition, InvalidEdges
<1>9. CASE \/ <<s.st, to>> \in InvalidEdges
           \/ to \in Unknown
           \/ s.st = "BOOT" /\ to = "BOOT"
  <2>1. CASE <<s.st, to>> \in InvalidEdges
    BY <2>1, RefusedOutcome DEF Transition, InvalidEdges, Codes, NoErr
  <2>2. CASE to \in Unknown
    BY <1>0, <2>2, RefusedOutcome DEF Transition, InvalidEdges, States, Unknown, Codes, NoErr
  <2>3. CASE s.st = "BOOT" /\ to = "BOOT"
    BY <2>3, RefusedOutcome DEF Transition, InvalidEdges, Codes, NoErr
  <2> QED
    BY <1>9, <2>1, <2>2, <2>3
<1> QED
  BY <1>0, <1>1, <1>2, <1>3, <1>4, <1>5, <1>6, <1>7, <1>8, <1>9
  DEF States, Unknown, InvalidEdges

\* After a failed check the handlers are those of the state fallen back to.
LEMMA FallBackOutcome ==
  ASSUME NEW s \in SlvType, Fit(s, s.st), NEW res \in Codes \ {NoErr}, NEW to
  PROVE  Outcome([s |-> FallBack(s, res), res |-> res], to)
<1> DEFINE s1 == IF s.st \in {"OP", "SAFEOP"} THEN StepDown(s, s.st, "PREOP") ELSE s
           stop == MBX_StopMailboxHandler(s1)
<1>1. CASE s.id \/ s.st \notin {"OP", "SAFEOP", "PREOP"}
  BY <1>1, RefusedOutcome DEF FallBack
<1>2. CASE ~s.id /\ s.st \in {"OP", "SAFEOP", "PREOP"}
  <2>1. s1 \in SlvType /\ Fit(s1, "PREOP")
    BY <1>2, StepDownFits
  <2> HIDE DEF s1
  <2>2. stop \in SlvType /\ Fit(stop, "INIT")
    BY <2>1, StopMailboxFits
  <2> HIDE DEF stop
  <2>3. \A t \in SlvType, st \in States :
          Fit(t, st) => /\ [t EXCEPT !.st = st] \in SlvType
                        /\ Fit([t EXCEPT !.st = st], [t EXCEPT !.st = st].st)
    <3> TAKE t \in SlvType, st \in States
    <3> HAVE Fit(t, st)
    <3>1. [t EXCEPT !.st = st] \in SlvType
      BY SetValue
    <3>2. Fit([t EXCEPT !.st = st], [t EXCEPT !.st = st].st)
      BY DEF Fit, SlvType
    <3> QED
      BY <3>1, <3>2
  <2>4. FallBack(s, res) = IF res = "INVALIDMBXCFGINPREOP"
                           THEN [stop EXCEPT !.st = "INIT"] ELSE [s1 EXCEPT !.st = "PREOP"]
    BY <1>2 DEF FallBack, s1, stop
  <2>5. FallBack(s, res) \in SlvType /\ Fit(FallBack(s, res), FallBack(s, res).st)
    BY <2>1, <2>2, <2>3, <2>4 DEF States
  <2> QED
    BY <2>5, RefusedOutcome
<1> QED
  BY <1>1, <1>2

\* The sizes of the process data change only while their channels are closed.
LEMMA MappedFits ==
  ASSUME NEW s \in SlvType, Fit(s, s.st), NEW to, NEW x \in Found
  PROVE  LET t == Mapped(s, to, x) IN
         /\ t \in SlvType /\ Fit(t, t.st)
         /\ \A f \in DOMAIN s \ {"nPdOutputSize", "nPdInputSize"} : t[f] = s[f]
<1> DEFINE t == [s EXCEPT !.nPdOutputSize = x.map.out, !.nPdInputSize = x.map.in]
<1>1. x.map.out \in BOOLEAN /\ x.map.in \in BOOLEAN
  BY MappingsAssumption DEF Found
<1>2. t \in SlvType
  BY <1>1, SetFlag, Zenon
<1>3. \A f \in DOMAIN s \ {"nPdOutputSize", "nPdInputSize"} : t[f] = s[f]
  OBVIOUS
<1>4. s.st = "PREOP" => Fit(t, t.st)
  BY DEF Fit, SlvType
<1> QED
  BY <1>2, <1>3, <1>4 DEF Mapped

\* Shutting the outputs leaves the handlers of SAFEOP, or the given state.
LEMMA ShutOutputsFits ==
  ASSUME NEW s \in SlvType, NEW st \in States, Fit(s, st)
  PROVE  LET t == ShutOutputs(s) IN
         /\ t \in SlvType /\ Fit(t, st) /\ ~t.bEcatOutputUpdateRunning
         /\ t.st = s.st /\ t.id = s.id
         /\ st = "OP" => Fit(t, "SAFEOP")
<1> DEFINE s1 == IF s.bEcatOutputUpdateRunning THEN StopOutputHandler(s) ELSE s
<1>1. s1 \in SlvType /\ Fit(s1, st) /\ (st = "OP" => Fit(s1, "SAFEOP"))
  <2>1. CASE s.bEcatOutputUpdateRunning
    <3>1. st = "OP"
      BY <2>1 DEF Fit
    <3> QED
      BY <2>1, <3>1, StopOutputFits
  <2>2. CASE ~s.bEcatOutputUpdateRunning
    BY <2>2 DEF Fit
  <2> QED
    BY <2>1, <2>2
<1>2. s1.st = s.st /\ s1.id = s.id /\ ~s1.bEcatOutputUpdateRunning
  BY DEF StopOutputHandler, SlvType
<1>3. PdMain(s1) = PdMain(s)
  BY DEF StopOutputHandler, PdMain, PdChannels, SlvType
<1> HIDE DEF s1
<1>4. LET t == Disable(s1, PdMain(s1)) IN
      /\ t \in SlvType /\ Fit(t, st) /\ (st = "OP" => Fit(t, "SAFEOP"))
      /\ \A f \in DOMAIN s1 \ {"off"} : t[f] = s1[f]
  BY <1>1, CloseFits DEF States
<1>5. ShutOutputs(s) = Disable(s1, PdMain(s1))
  BY <1>3 DEF ShutOutputs, s1
<1> QED
  BY <1>1, <1>2, <1>4, <1>5 DEF SlvType

\* Showing a state that the handlers fit, once nothing is in work any more.
LEMMA SetALStatusInv ==
  ASSUME NEW s \in SlvType, NEW st \in States, Fit(s, st), NEW err \in BOOLEAN,
         NEW code \in Codes, ~s.bEcatWaitForAlControlRes,
         s.bEcatOutputUpdateRunning => ~err
  PROVE  SlvInv(SetALStatus(s, st, err, code)) /\ ~PllFull(SetALStatus(s, st, err, code))
<1> DEFINE id == s.bExplicitDevIdRequested /\ ~err /\ code = NoErr /\ st # "BOOT"
           reg == [st |-> st, err |-> err, code |-> code]
<1>1. id \in BOOLEAN /\ reg \in [st : States, err : BOOLEAN, code : Codes]
  BY DEF SlvType
<1>2. reg.st = st /\ reg.err = err
  OBVIOUS
<1> HIDE DEF id, reg
<1>3. SetALStatus(s, st, err, code) = [s EXCEPT !.st = st, !.err = err, !.id = id, !.alReg = reg]
  BY DEF SetALStatus, id, reg
<1>4. [s EXCEPT !.st = st, !.err = err, !.id = id, !.alReg = reg] \in SlvType
  BY <1>1, SetValue, SetFlag, Zenon
<1>5. Fit(SetALStatus(s, st, err, code), SetALStatus(s, st, err, code).st)
  BY <1>3 DEF Fit, SlvType
<1>6. /\ Shown(SetALStatus(s, st, err, code)) /\ Waits(SetALStatus(s, st, err, code))
      /\ ~PllFull(SetALStatus(s, st, err, code))
  BY <1>2, <1>3 DEF Shown, Waits, PllFull, SlvType
<1> QED
  BY <1>3, <1>4, <1>5, <1>6 DEF SlvInv

\* The end of AL_ControlInd re-establishes the invariant from any outcome.
LEMMA ConcludeInv ==
  ASSUME NEW r, NEW to \in States \cup Unknown, Outcome(r, to), NEW code \in Codes
  PROVE  SlvInv(Conclude(r, to, code)) /\ ~PllFull(Conclude(r, to, code))
<1> DEFINE quit == /\ r.res # NoErr \/ code # NoErr
                   /\ to \in {"OP", "UNKNOWNOP"} \/ r.s.st = "OP"
           s    == IF quit THEN ShutOutputs(r.s) ELSE r.s
           over == [s EXCEPT !.bEcatWaitForAlControlRes = FALSE]
           wait == [r.s EXCEPT !.bEcatWaitForAlControlRes = TRUE,
                               !.EsmTimeoutCounter = EsmTimeout]
           calm == [r.s EXCEPT !.bEcatWaitForAlControlRes = FALSE]
<1>1. r.s \in SlvType /\ r.s.st \in States
  BY DEF Outcome, SlvType
<1>2. \A t \in SlvType, st \in States : Fit(t, st) =>
        LET u == [t EXCEPT !.bEcatWaitForAlControlRes = FALSE] IN
        /\ u \in SlvType /\ Fit(u, st) /\ ~u.bEcatWaitForAlControlRes
        /\ u.st = t.st /\ u.id = t.id
        /\ u.bEcatOutputUpdateRunning = t.bEcatOutputUpdateRunning
  <2> TAKE t \in SlvType, st \in States
  <2> HAVE Fit(t, st)
  <2>1. [t EXCEPT !.bEcatWaitForAlControlRes = FALSE] \in SlvType
    BY SetFlag
  <2>2. Fit([t EXCEPT !.bEcatWaitForAlControlRes = FALSE], st)
    BY DEF Fit, SlvType
  <2> QED
    BY <2>1, <2>2 DEF SlvType
<1>3. CASE r.res = InWork
  <2>1. EsmTimeout \in -1..EsmTimeout
    BY TimeAssumption
  <2>2. wait \in SlvType
    BY <1>1, <2>1, SetFlag, SetValue, Zenon
  <2>3. Fit(wait, wait.st) /\ Shown(wait) /\ Waits(wait)
    BY <1>1, <1>3, TimeAssumption DEF Outcome, Fit, Shown, Waits, NoErr, InWork, SlvType
  <2>4. ~PllFull(wait)
    BY <1>1, <1>3, TimeAssumption DEF Outcome, PllFull, SlvType
  <2> QED
    BY <1>3, <2>2, <2>3, <2>4 DEF Conclude, SlvInv
<1>4. CASE r.res # InWork /\ to = r.s.st
  <2>1. Fit(r.s, r.s.st)
    BY <1>4 DEF Outcome
  <2>2. calm \in SlvType /\ Fit(calm, r.s.st) /\ ~calm.bEcatWaitForAlControlRes
    BY <1>1, <1>2, <2>1
  <2> HIDE DEF calm
  <2>3. /\ SlvInv(SetALStatus(calm, r.s.st, FALSE, NoErr))
        /\ ~PllFull(SetALStatus(calm, r.s.st, FALSE, NoErr))
    BY <1>1, <2>2, SetALStatusInv DEF Codes
  <2> QED
    BY <1>4, <2>3 DEF Conclude, calm
<1>5. CASE r.res # InWork /\ to # r.s.st /\ r.res # NoErr
  <2> DEFINE st == IF s.st = "OP" /\ ~s.id THEN "SAFEOP" ELSE s.st
  <2>1. r.res \in Codes /\ Fit(r.s, r.s.st)
    BY <1>5 DEF Outcome
  <2>2. /\ s \in SlvType /\ Fit(s, r.s.st) /\ s.st = r.s.st
        /\ ~s.bEcatOutputUpdateRunning
        /\ r.s.st = "OP" => Fit(s, "SAFEOP")
    <3>1. CASE quit
      BY <1>1, <2>1, <3>1, ShutOutputsFits
    <3>2. CASE ~quit
      BY <1>1, <1>5, <2>1, <3>2 DEF Fit
    <3> QED
      BY <3>1, <3>2
  <2>3. st \in States /\ Fit(s, st)
    BY <1>1, <2>2 DEF States
  <2>4. /\ over \in SlvType /\ Fit(over, st) /\ ~over.bEcatWaitForAlControlRes
        /\ ~over.bEcatOutputUpdateRunning
    BY <1>2, <2>2, <2>3
  <2>5. Conclude(r, to, code) = SetALStatus(over, st, TRUE, r.res)
    BY <1>5 DEF Conclude
  <2> HIDE DEF over, st
  <2> QED
    BY <2>1, <2>3, <2>4, <2>5, SetALStatusInv
<1>6. CASE to # r.s.st /\ r.res = NoErr
  <2>1. to \in States /\ Fit(r.s, to)
    BY <1>6 DEF Outcome
  <2>2. s \in SlvType /\ Fit(s, to) /\ (s.bEcatOutputUpdateRunning => code = NoErr)
    <3>1. CASE quit
      BY <1>1, <2>1, <3>1, ShutOutputsFits
    <3>2. CASE ~quit
      BY <1>1, <1>6, <2>1, <3>2 DEF Fit
    <3> QED
      BY <3>1, <3>2
  <2>3. /\ over \in SlvType /\ Fit(over, to) /\ ~over.bEcatWaitForAlControlRes
        /\ over.bEcatOutputUpdateRunning => code = NoErr
    BY <1>2, <2>1, <2>2
  <2>4. Conclude(r, to, code) = SetALStatus(over, to, code # NoErr, code)
    BY <1>6 DEF Conclude, NoErr, InWork
  <2> HIDE DEF over
  <2> QED
    BY <2>1, <2>3, <2>4, SetALStatusInv
<1> QED
  BY <1>3, <1>4, <1>5, <1>6

\* The check before a transition returns a code of the table.
LEMMA PreCheckCode ==
  ASSUME NEW s, NEW to, NEW x \in Found
  PROVE  PreCheck(s, to, x) \in Codes
<1>1. \A all : CheckSmSettings(s, all) \in Codes
  BY DEF CheckSmSettings, Codes, CfgErrors, NoErr
<1>2. x.map.res \in Codes
  BY MappingsAssumption DEF Found, Codes
<1>3. NoErr \in Codes
  BY DEF Codes
<1> QED
  BY <1>1, <1>2, <1>3 DEF PreCheck

\* t tells the same as s: the state, the device ID flag and whether it was
\* asked for, AL Status and which process data there are.
Tells(t, s) ==
  /\ t.st = s.st /\ t.id = s.id /\ t.alReg = s.alReg
  /\ t.bExplicitDevIdRequested = s.bExplicitDevIdRequested
  /\ t.nPdOutputSize = s.nPdOutputSize /\ t.nPdInputSize = s.nPdInputSize

\* A request that is heard ends in Conclude: with a transition, or with the
\* fall back after a failed check, from a record s2 that has the handlers and
\* the state of s.
Heard(s, s2, out, req, ack, x) ==
  /\ s2 \in SlvType /\ Fit(s2, s2.st) /\ s2.st = s.st
  /\ ~s2.err /\ s2.bApplEsmPending /\ s2.alReg.st = s2.st
  /\ s2.alReg = s.alReg /\ s2.id = (s.id /\ ack)
  /\ s2.bExplicitDevIdRequested = s.bExplicitDevIdRequested
  /\ s2.bEcatOutputUpdateRunning = s.bEcatOutputUpdateRunning
  /\ s.st # "PREOP" => PdMain(s2) = PdMain(s)
  /\ \/ out = Transition(s2, req, ack, x)
     \/ /\ \E chk \in Codes \ {NoErr} : out = [s |-> FallBack(s2, chk), res |-> chk]
        /\ req # "INIT"

\* A request that is not ignored is decided on a record without the error flag,
\* and its outcome is handed to the end of AL_ControlInd.
LEMMA AL_ControlIndHeard ==
  ASSUME NEW s, SlvInv(s), NEW req \in States \cup Unknown, NEW ack \in BOOLEAN,
         NEW code \in Codes, NEW x \in Found, ~Ignored(s, req, ack)
  PROVE  \E s2, out : /\ Heard(s, s2, out, req, ack, x)
                      /\ AL_ControlInd(s, req, ack, code, x) = Conclude(out, req, code)
<1> DEFINE s0 == [s EXCEPT !.EsmTimeoutCounter = -1, !.bApplEsmPending = TRUE]
           s1 == [s0 EXCEPT !.err = FALSE, !.id = s0.id /\ ack]
           s2 == Mapped(s1, req, x)
           chk == PreCheck(s2, req, x)
           out == IF chk = NoErr THEN Transition(s2, req, ack, x)
                  ELSE [s |-> FallBack(s2, chk), res |-> chk]
<1>1. s \in SlvType /\ Fit(s, s.st) /\ Shown(s)
  BY DEF SlvInv
<1>2. s0 \in SlvType
  <2>1. -1 \in -1..EsmTimeout
    BY TimeAssumption
  <2> QED
    BY <1>1, <2>1, SetFlag, SetValue, Zenon
<1>3. s1 \in SlvType
  <2>1. (s0.id /\ ack) \in BOOLEAN
    BY <1>2 DEF SlvType
  <2> HIDE DEF s0
  <2> QED
    BY <1>2, <2>1, SetFlag, Zenon
<1>4. /\ Fit(s1, s1.st) /\ ~s1.err /\ s1.bApplEsmPending
      /\ s1.alReg.st = s1.st /\ s1.id = (s.id /\ ack)
      /\ \A f \in DOMAIN s \ {"EsmTimeoutCounter", "bApplEsmPending", "err", "id"} : s1[f] = s[f]
      /\ DOMAIN s1 = DOMAIN s
  BY <1>1 DEF Fit, Shown, SlvType
<1> HIDE DEF s1
<1>5. /\ s2 \in SlvType /\ Fit(s2, s2.st)
      /\ \A f \in DOMAIN s1 \ {"nPdOutputSize", "nPdInputSize"} : s2[f] = s1[f]
      /\ s1.st # "PREOP" => s2 = s1
  <2>1. s1.st # "PREOP" => s2 = s1
    BY DEF Mapped
  <2> HIDE DEF s2
  <2>2. /\ s2 \in SlvType /\ Fit(s2, s2.st)
        /\ \A f \in DOMAIN s1 \ {"nPdOutputSize", "nPdInputSize"} : s2[f] = s1[f]
    BY <1>3, <1>4, MappedFits, Zenon DEF s2
  <2> QED
    BY <2>1, <2>2
<1> HIDE DEF s2
<1>6. /\ ~s2.err /\ s2.bApplEsmPending /\ s2.alReg.st = s2.st /\ s2.st = s.st
      /\ s2.alReg = s.alReg /\ s2.id = (s.id /\ ack)
      /\ s2.bExplicitDevIdRequested = s.bExplicitDevIdRequested
      /\ s2.bEcatOutputUpdateRunning = s.bEcatOutputUpdateRunning
      /\ s.st # "PREOP" => s2.nPdOutputSize = s.nPdOutputSize /\ s2.nPdInputSize = s.nPdInputSize
  BY <1>1, <1>4, <1>5 DEF SlvType
<1>7. s.st # "PREOP" => PdMain(s2) = PdMain(s)
  BY <1>6 DEF PdMain, PdChannels
<1>8. chk \in Codes /\ (chk # NoErr => req # "INIT")
  BY PreCheckCode DEF PreCheck
<1> HIDE DEF chk
<1>9. Heard(s, s2, out, req, ack, x)
  BY <1>5, <1>6, <1>7, <1>8 DEF Heard
<1>10. AL_ControlInd(s, req, ack, code, x) = Conclude(out, req, code)
  BY DEF AL_ControlInd, s2, s1, chk
<1> QED
  BY <1>9, <1>10

\* A request of the master or a local event keeps the invariant, whatever the
\* state it meets, a transition in work included.
LEMMA AL_ControlIndInv ==
  ASSUME NEW s, SlvInv(s), NEW req \in States \cup Unknown, NEW ack \in BOOLEAN,
         NEW code \in Codes, NEW x \in Found, pdCfg \in PdAddrs \cup PdFaults
  PROVE  LET t == AL_ControlInd(s, req, ack, code, x) IN SlvInv(t) /\ ~PllFull(t)
<1>1. CASE Ignored(s, req, ack)
  <2> DEFINE s0 == [s EXCEPT !.EsmTimeoutCounter = -1, !.bApplEsmPending = TRUE]
  <2>1. s \in SlvType /\ Fit(s, s.st) /\ Shown(s) /\ Waits(s)
    BY DEF SlvInv
  <2>2. ~s.bEcatWaitForAlControlRes
    BY <1>1, <2>1 DEF Ignored, Waits
  <2>3. s0 \in SlvType
    <3>1. -1 \in -1..EsmTimeout
      BY TimeAssumption
    <3> QED
      BY <2>1, <3>1, SetFlag, SetValue, Zenon
  <2>4. Fit(s0, s0.st) /\ Shown(s0) /\ Waits(s0) /\ ~PllFull(s0)
    BY <2>1, <2>2 DEF Fit, Shown, Waits, PllFull, SlvType
  <2> QED
    BY <1>1, <2>3, <2>4 DEF AL_ControlInd, SlvInv
<1>2. CASE ~Ignored(s, req, ack)
  <2>1. PICK s2, out : /\ Heard(s, s2, out, req, ack, x)
                       /\ AL_ControlInd(s, req, ack, code, x) = Conclude(out, req, code)
    BY <1>2, AL_ControlIndHeard
  <2>2. Outcome(out, req)
    BY <2>1, TransitionOutcome, FallBackOutcome DEF Heard
  <2> QED
    BY <2>1, <2>2, ConcludeInv
<1> QED
  BY <1>1, <1>2

\* Something can be found in the ESC (the assumptions are not empty).
LEMMA FoundInhabited == \E x : x \in Found
<1>1. PICK m \in Mappings, c \in StartConfigs : TRUE
  BY MappingsAssumption, StartConfigsAssumption
<1>2. [map |-> m, start |-> c, eep |-> TRUE] \in Found
  BY DEF Found
<1> QED
  BY <1>2

\* A local call of AL_ControlInd keeps the invariant and ends any wait.
LEMMA LocalIndInv ==
  ASSUME NEW s, SlvInv(s), NEW req \in States, NEW code \in Codes,
         pdCfg \in PdAddrs \cup PdFaults
  PROVE  SlvInv(LocalInd(s, req, code)) /\ ~PllFull(LocalInd(s, req, code))
<1>1. (CHOOSE x \in Found : TRUE) \in Found
  BY FoundInhabited
<1> QED
  BY <1>1, AL_ControlIndInv DEF LocalInd
-------------------------------------------------------------------------------
(* The rest of the main loop.                                                *)

\* The end of a SAFEOP-to-OP transition in work.
LEMMA OpReachedInv ==
  ASSUME NEW s \in SlvType, Fit(s, "SAFEOP")
  PROVE  SlvInv(OpReached(s)) /\ ~PllFull(OpReached(s))
<1> DEFINE t == [s EXCEPT !.bEcatOutputUpdateRunning = TRUE, !.bEcatWaitForAlControlRes = FALSE]
<1>1. t \in SlvType
  BY SetHandler, SetFlag, Zenon
<1>2. Fit(t, "OP") /\ ~t.bEcatWaitForAlControlRes
  BY DEF Fit, SlvType
<1> HIDE DEF t
<1>3. /\ SlvInv(SetALStatus(t, "OP", FALSE, NoErr))
      /\ ~PllFull(SetALStatus(t, "OP", FALSE, NoErr))
  BY <1>1, <1>2, SetALStatusInv DEF States, Codes
<1> QED
  BY <1>3 DEF OpReached, t

\* The end of the time for SAFEOP-to-OP keeps the invariant and ends the wait.
LEMMA OpTimedOutInv ==
  ASSUME NEW s \in SlvType, Fit(s, "SAFEOP")
  PROVE  SlvInv(OpTimedOut(s)) /\ ~PllFull(OpTimedOut(s))
<1> DEFINE t == [StopOutputHandler(s) EXCEPT !.bEcatWaitForAlControlRes = FALSE]
<1>1. OpTimeoutCode(s) \in Codes
  BY DEF OpTimeoutCode, Codes, NoErr
<1>2. /\ StopOutputHandler(s) \in SlvType /\ Fit(StopOutputHandler(s), "SAFEOP")
      /\ ~StopOutputHandler(s).bEcatOutputUpdateRunning
  <2>1. StopOutputHandler(s) \in SlvType /\ Fit(StopOutputHandler(s), "SAFEOP")
    BY StopOutputFits, Zenon
  <2>2. ~StopOutputHandler(s).bEcatOutputUpdateRunning
    BY DEF StopOutputHandler, SlvType
  <2> QED
    BY <2>1, <2>2
<1>3. /\ t \in SlvType /\ Fit(t, "SAFEOP")
      /\ ~t.bEcatWaitForAlControlRes /\ ~t.bEcatOutputUpdateRunning
  <2>1. t \in SlvType
    BY <1>2, SetFlag
  <2> HIDE DEF StopOutputHandler
  <2> QED
    BY <1>2, <2>1 DEF Fit, SlvType
<1> HIDE DEF t
<1>4. /\ SlvInv(SetALStatus(t, "SAFEOP", TRUE, OpTimeoutCode(s)))
      /\ ~PllFull(SetALStatus(t, "SAFEOP", TRUE, OpTimeoutCode(s)))
  BY <1>1, <1>3, SetALStatusInv DEF States
<1> QED
  BY <1>4, OpReachedInv DEF OpTimedOut, t

\* A poll of the transition in work keeps the invariant, and a full PLL wait
\* ends with it.
LEMMA AL_ControlResInv ==
  ASSUME NEW s, SlvInv(s), s.bEcatWaitForAlControlRes
  PROVE  SlvInv(AL_ControlRes(s)) /\ ~PllFull(AL_ControlRes(s))
<1> DEFINE dc == [s.dc EXCEPT !.i16WaitForPllRunningTimeout = 0, !.i16WaitForPllRunningCnt = 0]
           t == [ClearPll(s) EXCEPT !.bApplEsmPending = FALSE]
<1>1. s \in SlvType /\ Fit(s, "SAFEOP")
  BY DEF SlvInv, Waits
<1>2. /\ dc \in DcType /\ dc.bDcSyncActive = s.dc.bDcSyncActive
      /\ dc.bDcRunning = s.dc.bDcRunning
      /\ dc.bSmSyncSequenceValid = s.dc.bSmSyncSequenceValid
  <2>1. s.dc \in DcType /\ 0 \in {0, PllTime} /\ 0 \in 0..PllTime
    BY <1>1, TimeAssumption DEF SlvType
  <2>2. dc \in DcType
    BY <2>1, SetDc, Zenon
  <2>3. /\ dc.bDcSyncActive = s.dc.bDcSyncActive
        /\ dc.bDcRunning = s.dc.bDcRunning
        /\ dc.bSmSyncSequenceValid = s.dc.bSmSyncSequenceValid
    BY <2>1 DEF DcType
  <2> QED
    BY <2>2, <2>3
<1>3. ClearPll(s) = IF s.dc.bDcSyncActive THEN [s EXCEPT !.dc = dc] ELSE s
  BY <1>1 DEF ClearPll, SlvType
<1> HIDE DEF dc
<1>4. ClearPll(s) \in SlvType /\ Fit(ClearPll(s), "SAFEOP")
  <2>1. [s EXCEPT !.dc = dc] \in SlvType
    BY <1>1, <1>2, SetValue
  <2>2. Fit([s EXCEPT !.dc = dc], "SAFEOP")
    BY <1>1, <1>2 DEF Fit, SlvType
  <2> QED
    BY <1>1, <1>3, <2>1, <2>2
<1>5. t \in SlvType /\ Fit(t, "SAFEOP")
  <2>1. t \in SlvType
    BY <1>4, SetFlag
  <2>2. Fit(t, "SAFEOP")
    BY <1>4 DEF Fit, SlvType
  <2> QED
    BY <2>1, <2>2
<1> HIDE DEF t
<1>6. /\ SlvInv(OpReached(t)) /\ ~PllFull(OpReached(t))
      /\ SlvInv(OpTimedOut(s)) /\ ~PllFull(OpTimedOut(s))
  BY <1>1, <1>5, OpReachedInv, OpTimedOutInv
<1>7. PllFull(s) => s.bApplEsmPending /\ OpReady(s)
  BY TimeAssumption DEF SlvInv, Waits, PllFull, OpReady
<1> QED
  BY <1>6, <1>7 DEF AL_ControlRes, t

\* Only counters and the two verdicts of the supervision change.
LEMMA DC_CheckWatchdogType ==
  ASSUME NEW d \in DcType
  PROVE  LET t == DC_CheckWatchdog(d) IN
         /\ t \in DcType /\ t.bDcSyncActive = d.bDcSyncActive
         /\ t.i16WaitForPllRunningTimeout = d.i16WaitForPllRunningTimeout
         /\ t.bSmSyncSequenceValid => t.bDcRunning
         /\ \/ t.i16WaitForPllRunningCnt < PllTime \/ t.bSmSyncSequenceValid
            \/ d.i16WaitForPllRunningCnt = PllTime
<1> DEFINE run == Sync0Alive(d)
           valid == run /\ (SyncLimit = 0 \/ d.u16SmEventMissedCounter < SyncLimit)
           wait == d.i16WaitForPllRunningTimeout > 0
           n == d.i16WaitForPllRunningCnt
           cnt == IF valid /\ wait THEN (IF n < PllTime THEN n + 1 ELSE n)
                  ELSE IF run /\ ~valid /\ d.bSmSyncSequenceValid /\ wait THEN 0 ELSE n
           wd == IF run /\ d.Sync0WdCounter < d.Sync0WdValue
                 THEN d.Sync0WdCounter + 1 ELSE d.Sync0WdCounter
           t == [d EXCEPT !.Sync0WdCounter = wd, !.bDcRunning = run,
                          !.bSmSyncSequenceValid = valid, !.i16WaitForPllRunningCnt = cnt]
<1>1. run \in BOOLEAN /\ valid \in BOOLEAN
  BY DEF Sync0Alive
<1>6. wd \in Nat
  <2>1. d.Sync0WdCounter \in Nat
    BY DEF DcType
  <2> QED
    BY <2>1
<1>2. cnt \in 0..PllTime /\ (cnt < PllTime \/ valid \/ n = PllTime) /\ (valid => run)
  <2>1. n \in 0..PllTime /\ (valid => run)
    BY DEF DcType
  <2> HIDE DEF valid, run, wait, n
  <2> QED
    BY <2>1, TimeAssumption
<1>3. DC_CheckWatchdog(d) = t
  BY DEF DC_CheckWatchdog
<1> HIDE DEF run, valid, cnt, wd
<1>4. t \in DcType
  BY <1>1, <1>2, <1>6, SetDc, Zenon
<1>5. /\ t.bDcSyncActive = d.bDcSyncActive
      /\ t.i16WaitForPllRunningTimeout = d.i16WaitForPllRunningTimeout
      /\ t.bDcRunning = run /\ t.bSmSyncSequenceValid = valid
      /\ t.i16WaitForPllRunningCnt = cnt
  BY DEF DcType
<1> QED
  BY <1>2, <1>3, <1>4, <1>5

\* The timer keeps the invariant: a count down from a positive value is not
\* below 0.
LEMMA ECAT_CheckTimerInv ==
  ASSUME NEW s, SlvInv(s)
  PROVE  LET t == ECAT_CheckTimer(s) IN
         /\ SlvInv(t)
         /\ PllFull(t) => PllFull(s) \/ t.dc.bSmSyncSequenceValid
<1> DEFINE n == CountDown(s)
           dc == IF s.dc.bDcSyncActive /\ s.bEcatInputUpdateRunning
                 THEN DC_CheckWatchdog(s.dc) ELSE s.dc
           t == [s EXCEPT !.EsmTimeoutCounter = n, !.dc = dc]
<1>1. s \in SlvType /\ Fit(s, s.st) /\ Shown(s) /\ Waits(s)
  BY DEF SlvInv
<1>2. n \in -1..EsmTimeout /\ (s.EsmTimeoutCounter >= 0 => n >= 0)
  <2>1. s.EsmTimeoutCounter \in -1..EsmTimeout
    BY <1>1 DEF SlvType
  <2> QED
    BY <2>1, TimeAssumption DEF CountDown
<1>3. /\ dc \in DcType /\ dc.bDcSyncActive = s.dc.bDcSyncActive
      /\ dc.i16WaitForPllRunningTimeout = s.dc.i16WaitForPllRunningTimeout
      /\ dc.bSmSyncSequenceValid => dc.bDcRunning
      /\ \/ dc.i16WaitForPllRunningCnt # PllTime \/ dc.bSmSyncSequenceValid
         \/ s.dc.i16WaitForPllRunningCnt = PllTime
  <2>1. s.dc \in DcType /\ s.dc.i16WaitForPllRunningCnt \in 0..PllTime
    BY <1>1 DEF SlvType, DcType
  <2> DEFINE d == DC_CheckWatchdog(s.dc)
  <2>2. /\ d \in DcType /\ d.bDcSyncActive = s.dc.bDcSyncActive
        /\ d.i16WaitForPllRunningTimeout = s.dc.i16WaitForPllRunningTimeout
        /\ d.bSmSyncSequenceValid => d.bDcRunning
        /\ \/ d.i16WaitForPllRunningCnt < PllTime \/ d.bSmSyncSequenceValid
           \/ s.dc.i16WaitForPllRunningCnt = PllTime
    BY <2>1, DC_CheckWatchdogType
  <2> HIDE DEF d
  <2>3. d.i16WaitForPllRunningCnt < PllTime => d.i16WaitForPllRunningCnt # PllTime
    BY <2>2, TimeAssumption DEF DcType
  <2>4. dc = d \/ dc = s.dc
    BY DEF d
  <2>5. s.dc.bSmSyncSequenceValid => s.dc.bDcRunning
    BY <1>1 DEF Fit
  <2> QED
    BY <2>1, <2>2, <2>3, <2>4, <2>5
<1>4. ECAT_CheckTimer(s) = t
  BY DEF ECAT_CheckTimer
<1> HIDE DEF n, dc
<1>5. t \in SlvType
  BY <1>1, <1>2, <1>3, SetValue, Zenon
<1>6. Fit(t, t.st) /\ Shown(t) /\ Waits(t)
  BY <1>1, <1>2, <1>3 DEF Fit, Shown, Waits, SlvType
<1>7. PllFull(t) => PllFull(s) \/ t.dc.bSmSyncSequenceValid
  BY <1>1, <1>3 DEF PllFull, SlvType
<1> QED
  BY <1>4, <1>5, <1>6, <1>7 DEF SlvInv

\* Clearing or setting bEcatFirstOutputsReceived keeps the invariant.
LEMMA FirstOutputsInv ==
  ASSUME NEW s, SlvInv(s), NEW v \in BOOLEAN
  PROVE  LET t == [s EXCEPT !.bEcatFirstOutputsReceived = v] IN
         SlvInv(t) /\ t.dc = s.dc /\ (PllFull(t) <=> PllFull(s))
<1> DEFINE t == [s EXCEPT !.bEcatFirstOutputsReceived = v]
<1>1. s \in SlvType /\ Fit(s, s.st) /\ Shown(s) /\ Waits(s)
  BY DEF SlvInv
<1>2. t \in SlvType
  BY <1>1, SetHandler
<1>3. Fit(t, t.st) /\ Shown(t) /\ Waits(t)
  BY <1>1 DEF Fit, Shown, Waits, SlvType
<1>4. t.dc = s.dc /\ (PllFull(t) <=> PllFull(s))
  BY <1>1 DEF PllFull, SlvType
<1> QED
  BY <1>2, <1>3, <1>4 DEF SlvInv

\* The error check of the main loop keeps the invariant.
LEMMA CheckIfEcatErrorInv ==
  ASSUME NEW s, SlvInv(s), ~PllFull(s), pdCfg \in PdAddrs \cup PdFaults
  PROVE  SlvInv(CheckIfEcatError(s)) /\ ~PllFull(CheckIfEcatError(s))
<1> DEFINE s1 == IF OutputsLost(s) THEN [s EXCEPT !.bEcatFirstOutputsReceived = FALSE] ELSE s
<1>1. SlvInv(s1) /\ ~PllFull(s1)
  BY FirstOutputsInv
<1>2. "SAFEOP" \in States /\ {"SMWATCHDOG", "FATALSYNCERROR", "SYNCERROR"} \subseteq Codes
  BY DEF States, Codes
<1>3. CheckIfEcatError(s) \in {LocalInd(s, "SAFEOP", "SMWATCHDOG"), s1,
         LocalInd(s1, "SAFEOP", "FATALSYNCERROR"), LocalInd(s1, "SAFEOP", "SYNCERROR")}
  BY DEF CheckIfEcatError
<1> HIDE DEF s1
<1> QED
  BY <1>1, <1>2, <1>3, LocalIndInv
-------------------------------------------------------------------------------
(* The inductive invariant.                                                  *)

\* The slave starts inside the invariant: in INIT, with everything closed.
THEOREM InitEstablishes == Init => IInv
<1> SUFFICES ASSUME Init PROVE IInv
  OBVIOUS
<1> USE DEF Init
<1>1. SlvInit \in SlvType
  <2>1. 0 \in -1..EsmTimeout
    BY TimeAssumption
  <2> QED
    BY <2>1, DcOffType DEF SlvInit, SlvType, States, Codes
<1>2. Fit(SlvInit, "INIT") /\ Shown(SlvInit) /\ Waits(SlvInit) /\ SlvInit.st = "INIT"
  BY DEF SlvInit, DcOff, Fit, Shown, Waits
<1>3. TypeOK
  BY <1>1 DEF TypeOK
<1>4. PllInv
  BY DEF PllInv, PllFull, SlvInit
<1> QED
  BY <1>1, <1>2, <1>3, <1>4 DEF IInv, SlvInv

\* All of dc but the three counters of the interrupts.
SameVerdicts(d, e) ==
  /\ d.bDcSyncActive = e.bDcSyncActive /\ d.bDcRunning = e.bDcRunning
  /\ d.bSmSyncSequenceValid = e.bSmSyncSequenceValid
  /\ d.i16WaitForPllRunningTimeout = e.i16WaitForPllRunningTimeout
  /\ d.i16WaitForPllRunningCnt = e.i16WaitForPllRunningCnt

\* The counters of the interrupts touch nothing the invariant speaks of.
LEMMA CountersInv ==
  ASSUME NEW s, SlvInv(s), NEW d \in DcType, SameVerdicts(d, s.dc)
  PROVE  LET t == [s EXCEPT !.dc = d] IN
         /\ SlvInv(t) /\ t.dc.bSmSyncSequenceValid = s.dc.bSmSyncSequenceValid
         /\ PllFull(t) <=> PllFull(s)
<1> DEFINE t == [s EXCEPT !.dc = d]
<1>1. s \in SlvType /\ Fit(s, s.st) /\ Shown(s) /\ Waits(s)
  BY DEF SlvInv
<1>2. t \in SlvType
  BY <1>1, SetValue
<1>3. Fit(t, t.st) /\ Shown(t) /\ Waits(t)
  BY <1>1 DEF Fit, Shown, Waits, SameVerdicts, SlvType
<1>4. t.dc.bSmSyncSequenceValid = s.dc.bSmSyncSequenceValid /\ (PllFull(t) <=> PllFull(s))
  BY <1>1 DEF PllFull, SameVerdicts, SlvType
<1> QED
  BY <1>2, <1>3, <1>4 DEF SlvInv

\* The process-data interrupt keeps the invariant and the state of the wait.
LEMMA PDI_IsrInv ==
  ASSUME SlvInv(slv), PDI_Isr
  PROVE  /\ SlvInv(slv') /\ slv'.dc.bSmSyncSequenceValid = slv.dc.bSmSyncSequenceValid
         /\ PllFull(slv') <=> PllFull(slv)
<1> DEFINE d == slv.dc
           m == IF d.bDcRunning /\ d.bDcSyncActive THEN 0 ELSE d.u16SmSync0Counter
           n == IF d.u16SmEventMissedCounter > 0 THEN d.u16SmEventMissedCounter - 1
                ELSE d.u16SmEventMissedCounter
           d1 == [d EXCEPT !.u16SmSync0Counter = m, !.u16SmEventMissedCounter = n]
           t  == [slv EXCEPT !.bEcatFirstOutputsReceived = TRUE]
<1>1. /\ SlvInv(t) /\ slv \in SlvType /\ t.dc = d /\ d \in DcType
      /\ PllFull(t) <=> PllFull(slv)
  <2>1. slv \in SlvType
    BY DEF SlvInv
  <2>2. d \in DcType /\ t.dc = d
    BY <2>1 DEF SlvType
  <2>3. SlvInv(t) /\ (PllFull(t) <=> PllFull(slv))
    BY <2>1, FirstOutputsInv, Zenon
  <2> QED
    BY <2>1, <2>2, <2>3
<1>2. m \in 0..2 /\ n \in 0..(SyncLimit + 3)
  BY <1>1, TimeAssumption DEF DcType
<1>3. slv' = [t EXCEPT !.dc = d1]
  BY <1>1 DEF PDI_Isr, SlvType, DcType
<1> HIDE DEF t, m, n
<1>4. d1 \in DcType
  BY <1>1, <1>2, SetDc, Zenon
<1>5. SameVerdicts(d1, d)
  BY <1>1 DEF SameVerdicts, DcType
<1> HIDE DEF d1
<1> QED
  BY <1>1, <1>3, <1>4, <1>5, CountersInv

\* The Sync0 interrupt keeps the invariant and the state of the wait.
LEMMA Sync0_IsrInv ==
  ASSUME SlvInv(slv), Sync0_Isr
  PROVE  /\ SlvInv(slv') /\ slv'.dc.bSmSyncSequenceValid = slv.dc.bSmSyncSequenceValid
         /\ PllFull(slv') <=> PllFull(slv)
<1> DEFINE d == slv.dc
           late == slv.nPdOutputSize /\ d.u16SmSync0Counter > 1
           n == IF late THEN OneMoreMiss(d.u16SmEventMissedCounter) ELSE d.u16SmEventMissedCounter
           m == IF slv.nPdOutputSize /\ d.u16SmSync0Counter <= 1
                THEN d.u16SmSync0Counter + 1 ELSE d.u16SmSync0Counter
           d1 == [d EXCEPT !.Sync0WdCounter = 0, !.u16SmEventMissedCounter = n,
                           !.u16SmSync0Counter = m]
<1>1. d \in DcType
  BY DEF SlvInv, SlvType
<1>2. 0 \in Nat /\ n \in 0..(SyncLimit + 3) /\ m \in 0..2
  BY <1>1, TimeAssumption DEF DcType, OneMoreMiss
<1>3. slv' = [slv EXCEPT !.dc = d1]
  BY DEF Sync0_Isr
<1> HIDE DEF n, m
<1>4. d1 \in DcType
  BY <1>1, <1>2, SetDc, Zenon
<1>5. SameVerdicts(d1, d)
  BY <1>1 DEF SameVerdicts, DcType
<1> HIDE DEF d1
<1> QED
  BY <1>3, <1>4, <1>5, CountersInv

\* A request of the master keeps the invariant and ends any wait.
LEMMA AlControlEventInv ==
  ASSUME IInv, AlControlEvent
  PROVE  SlvInv(slv') /\ ~PllFull(slv')
<1> DEFINE t == [slv EXCEPT !.bExplicitDevIdRequested = ctl.id]
<1>1. slv \in SlvType /\ Fit(slv, slv.st) /\ Shown(slv) /\ Waits(slv)
  BY DEF IInv, SlvInv
<1>2. /\ ctl.id \in BOOLEAN /\ ctl.ack \in BOOLEAN /\ ctl.req \in States \cup Unknown
      /\ pdCfg \in PdAddrs \cup PdFaults /\ NoErr \in Codes
  BY RequestsAssumption DEF IInv, TypeOK, Codes
<1>3. SlvInv(t)
  <2>1. t \in SlvType
    BY <1>1, <1>2, SetFlag
  <2>2. Fit(t, t.st) /\ Shown(t) /\ Waits(t)
    BY <1>1 DEF Fit, Shown, Waits, SlvType
  <2> QED
    BY <2>1, <2>2 DEF SlvInv
<1>4. \E x \in Found : slv' = AL_ControlInd(t, ctl.req, ctl.ack, NoErr, x)
  BY DEF AlControlEvent
<1> HIDE DEF t
<1> QED
  BY <1>2, <1>3, <1>4, AL_ControlIndInv

\* Every step keeps the record in its ranges, its handlers as its state wants
\* them, and a transition in work untouched or ended.
THEOREM StepKeeps == IInv /\ [Next]_vars => IInv'
<1> SUFFICES ASSUME IInv, [Next]_vars PROVE IInv'
  OBVIOUS
<1>1. /\ TypeOK /\ SlvInv(slv) /\ PllInv /\ slv.st \in States
      /\ NoErr \in Codes /\ pdCfg \in PdAddrs \cup PdFaults
  BY DEF IInv, TypeOK, SlvType, Codes
<1>2. SlvInv(slv') /\ PllInv'
  <2>1. CASE PollProcessData
    BY <1>1, <2>1, FirstOutputsInv DEF PollProcessData, Goto, PllInv
  <2>2. CASE CheckTimer
    BY <1>1, <2>2, ECAT_CheckTimerInv DEF CheckTimer, Goto, PllInv
  <2>13. CASE ReadSm1
    BY <1>1, <2>13 DEF ReadSm1, Goto, PllInv
  <2>3. CASE AlControlEvent
    BY <2>3, AlControlEventInv DEF PllInv
  <2>4. CASE SmChangeEvent
    BY <1>1, <2>4, LocalIndInv DEF SmChangeEvent, PllInv
  <2>5. CASE NoEvent
    BY <1>1, <2>5 DEF NoEvent, Goto, PllInv
  <2>6. CASE PendingTransition
    BY <1>1, <2>6, AL_ControlResInv DEF PendingTransition, PllInv, PllFull
  <2>7. CASE CheckSm1
    BY <1>1, <2>7, LocalIndInv DEF CheckSm1, Goto, PllInv
  <2>8. CASE CheckError
    BY <1>1, <2>8, CheckIfEcatErrorInv DEF CheckError, Goto, PllInv
  <2>9. CASE PDI_Isr
    BY <1>1, <2>9, PDI_IsrInv DEF PDI_Isr, loopVars, PllInv
  <2>10. CASE Sync0_Isr
    BY <1>1, <2>10, Sync0_IsrInv DEF Sync0_Isr, loopVars, PllInv
  <2>11. CASE Environment
    BY <1>1, <2>11 DEF Environment, Tick, WriteAlControl, ConfigureSm, ProcessData,
                       WatchdogExpires, loopVars, PllInv
  <2>12. CASE UNCHANGED vars
    BY <1>1, <2>12 DEF vars, PllInv
  <2> QED
    BY <2>1, <2>2, <2>3, <2>4, <2>5, <2>6, <2>7, <2>8, <2>9, <2>10, <2>11, <2>12, <2>13
    DEF Next, MainLoop, Interrupt
<1>3. TypeOK'
  <2>1. (slv \in SlvType)'
    BY <1>2 DEF SlvInv
  <2>2. CASE MainLoop
    <3>1. /\ pc' \in {"poll", "timer", "main", "event", "result", "sm1", "error"}
          /\ sm1Off' \in BOOLEAN /\ tick' \in BOOLEAN /\ UNCHANGED <<ctl, mbxCfg, pdCfg, wdOk>>
          /\ ctlEv' \in BOOLEAN /\ smEv' \in BOOLEAN /\ pdEv' \in BOOLEAN
      BY <1>1, <2>2 DEF TypeOK, MainLoop, PollProcessData, CheckTimer, AlControlEvent,
         SmChangeEvent, NoEvent, PendingTransition, CheckSm1, CheckError, Goto, KeepPdEv,
         ReadSm1, masterVars
    <3> QED
      BY <1>1, <2>1, <3>1 DEF TypeOK
  <2>3. CASE Interrupt
    BY <1>1, <2>1, <2>3 DEF TypeOK, Interrupt, PDI_Isr, Sync0_Isr, loopVars, masterVars
  <2>4. CASE Environment
    <3>1. CASE Tick
      BY <1>1, <2>1, <3>1 DEF TypeOK, Tick, masterVars
    <3>2. CASE WriteAlControl
      BY <1>1, <2>1, <3>2 DEF TypeOK, WriteAlControl, loopVars
    <3>3. CASE ConfigureSm
      BY <1>1, <2>1, <3>3 DEF TypeOK, ConfigureSm, loopVars
    <3>4. CASE ProcessData
      BY <1>1, <2>1, <3>4 DEF TypeOK, ProcessData, loopVars, masterVars
    <3>5. CASE WatchdogExpires
      BY <1>1, <2>1, <3>5 DEF TypeOK, WatchdogExpires, loopVars, masterVars
    <3> QED
      BY <2>4, <3>1, <3>2, <3>3, <3>4, <3>5 DEF Environment
  <2>5. CASE UNCHANGED vars
    BY <1>1, <2>5 DEF TypeOK, vars
  <2> QED
    BY <2>2, <2>3, <2>4, <2>5 DEF Next
<1> QED
  BY <1>2, <1>3 DEF IInv

\* The invariant that carries all the theorems below holds in every run.
THEOREM Invariance == Spec => []IInv
<1>1. Init => IInv
  BY InitEstablishes
<1>2. IInv /\ [Next]_vars => IInv'
  BY StepKeeps
<1> QED
  BY <1>1, <1>2, PTL DEF Spec
-------------------------------------------------------------------------------
(* What follows.                                                             *)

\* Every register and global of ecatslv.c keeps to its range.
THEOREM TypeCorrect == Spec => []TypeOK
<1>1. IInv => TypeOK
  BY DEF IInv
<1> QED
  BY <1>1, Invariance, PTL

\* Outputs reach the application only while the master reads OP without an
\* error and the inputs run, for every list of requests, device ID included.
THEOREM OutputsSafe == Spec => []OutputsOnlyInOp
<1>1. IInv => OutputsOnlyInOp
  BY DEF IInv, SlvInv, Fit, Shown, OutputsOnlyInOp, SlvType
<1> QED
  BY <1>1, Invariance, PTL

\* Nothing changes the state under a transition in work and leaves it in work.
THEOREM WaitSafe == Spec => []WaitConsistent
<1>1. IInv => WaitConsistent
  BY DEF IInv, SlvInv, Fit, Waits, WaitConsistent, SlvType
<1> QED
  BY <1>1, Invariance, PTL

\* In every state exactly its handlers run, and the master reads that state.
THEOREM HandlersSafe == Spec => []HandlersMatchState
<1>1. IInv => HandlersMatchState
  BY DEF IInv, SlvInv, Fit, Shown, HandlersMatchState, SlvType
<1> QED
  BY <1>1, Invariance, PTL

\* What no running handler serves is closed to the master.
THEOREM ChannelsSafe == Spec => []ClosedWhenStopped
<1>1. IInv => ClosedWhenStopped
  BY DEF IInv, SlvInv, Fit, ClosedWhenStopped, SlvType
<1> QED
  BY <1>1, Invariance, PTL
-------------------------------------------------------------------------------
(* What a request does to AL Status, in the terms of the diagram of ESM.      *)

\* State a stands lower in the diagram than state b.
Below(a, b) == E!Rank[a] < E!Rank[b]

\* The order of the states, spelt out.
LEMMA Ranks ==
  ASSUME NEW a \in States, NEW b \in States
  PROVE  Below(a, b) <=> \/ a = "INIT" /\ b # "INIT"
                         \/ a \in {"PREOP", "BOOT"} /\ b \in {"SAFEOP", "OP"}
                         \/ a = "SAFEOP" /\ b = "OP"
<1>1. /\ E!Rank["INIT"] = 0 /\ E!Rank["PREOP"] = 1 /\ E!Rank["BOOT"] = 1
      /\ E!Rank["SAFEOP"] = 2 /\ E!Rank["OP"] = 3
  BY DEF E!Rank, E!States
<1> QED
  BY <1>1 DEF Below, States

\* The handlers leave the state and AL Status to the end of AL_ControlInd.
LEMMA HandlersTell ==
  ASSUME NEW s \in SlvType
  PROVE  /\ Tells(MBX_StopMailboxHandler(s), s)
         /\ Tells(StopInputHandler(s), s)
         /\ \A c : Tells(StartInputHandler(s, c), s)
         /\ \A ch : Tells(Enable(s, ch), s)
         /\ Tells(StartOutputHandler(s), s)
         /\ Tells(StopOutputHandler(s), s)
         /\ \A v : Tells([s EXCEPT !.bBootMode = v], s)
         /\ \A v : Tells([s EXCEPT !.bEcatInputUpdateRunning = v], s)
         /\ Tells(Done(s).s, s)
<1>1. /\ Tells(MBX_StopMailboxHandler(s), s)
      /\ Tells(StopInputHandler(s), s)
      /\ \A ch : Tells(Enable(s, ch), s)
  BY DEF Tells, MBX_StopMailboxHandler, StopInputHandler, Enable, Disable, SlvType
<1>2. \A c : Tells(StartInputHandler(s, c), s)
  BY DEF Tells, StartInputHandler, Enable, SlvType
<1>3. Tells(StartOutputHandler(s), s) /\ Tells(StopOutputHandler(s), s)
  BY DEF Tells, StartOutputHandler, StopOutputHandler, SlvType
<1>4. /\ \A v : Tells([s EXCEPT !.bBootMode = v], s)
      /\ \A v : Tells([s EXCEPT !.bEcatInputUpdateRunning = v], s)
      /\ Tells(Done(s).s, s)
  BY DEF Tells, Done, SlvType
<1> QED
  BY <1>1, <1>2, <1>3, <1>4

\* A step down tells the same, stops the outputs and, below SAFEOP, closes
\* every channel of the process data.
LEMMA StepDownTells ==
  ASSUME NEW s \in SlvType, NEW from \in {"PREOP", "SAFEOP", "OP"}, Fit(s, from),
         NEW to \in {"INIT", "PREOP", "SAFEOP"},
         from = "PREOP" => to = "INIT", from = "SAFEOP" => to # "SAFEOP"
  PROVE  LET t == StepDown(s, from, to) IN
         /\ Tells(t, s)
         /\ from # "PREOP" /\ to # "SAFEOP" => PdChannels(s) \subseteq t.off
<1> DEFINE s1 == IF from = "OP" THEN StopOutputHandler(s) ELSE s
           s2 == IF to # "SAFEOP" /\ from # "PREOP" THEN StopInputHandler(s1) ELSE s1
<1>1. /\ s1 \in SlvType /\ Fit(s1, IF from = "PREOP" THEN "PREOP" ELSE "SAFEOP")
      /\ Tells(s1, s)
  BY StopOutputFits, HandlersTell DEF Tells
<1> HIDE DEF s1
<1>2. s2 \in SlvType
  BY <1>1, StopInputFits
<1>3. Tells(s2, s1)
  BY <1>1, HandlersTell DEF Tells
<1>4. from # "PREOP" /\ to # "SAFEOP" => PdChannels(s1) \subseteq s2.off
  BY <1>1 DEF StopInputHandler, Disable, SlvType
<1>5. PdChannels(s1) = PdChannels(s)
  BY <1>1 DEF Tells, PdChannels
<1> HIDE DEF s2
<1>6. StepDown(s, from, to) = IF to = "INIT" THEN MBX_StopMailboxHandler(s2) ELSE s2
  BY DEF StepDown, s1, s2
<1>7. Tells(MBX_StopMailboxHandler(s2), s2) /\ s2.off \subseteq MBX_StopMailboxHandler(s2).off
  BY <1>2, HandlersTell DEF MBX_StopMailboxHandler, Disable, SlvType
<1> QED
  BY <1>1, <1>3, <1>4, <1>5, <1>6, <1>7 DEF Tells

\* What Conclude learns from an outcome: the state before, or a lower one
\* after a failed check; success only along an edge of the diagram or down;
\* work left only between SAFEOP and OP.
Learns(r, s, to) ==
  /\ r.s.alReg = s.alReg /\ r.s.id = s.id
  /\ r.s.bExplicitDevIdRequested = s.bExplicitDevIdRequested
  /\ r.s.st = s.st \/ (Below(r.s.st, s.st) /\ r.s.st \in {"INIT", "PREOP"})
  /\ r.res = InWork => s.st = "SAFEOP" /\ to = "OP"
  /\ r.res = NoErr => r.s.st = s.st /\ (<<s.st, to>> \in E!Rises \/ Below(to, s.st))

\* What becomes of the outputs: in OP they run on if OP is asked for again;
\* a state fallen back to has no outputs and no open channel.
Outputs(r, s, to) ==
  s.st = "OP" =>
    IF r.s.st = "OP"
    THEN /\ PdMain(r.s) = PdMain(s)
         /\ to = "OP" => r.s.bEcatOutputUpdateRunning = s.bEcatOutputUpdateRunning
    ELSE PdMain(s) \subseteq r.s.off /\ ~r.s.bEcatOutputUpdateRunning

\* An outcome that tells the same as the record before.
LEMMA TellsLearns ==
  ASSUME NEW s \in SlvType, NEW r, Tells(r.s, s), NEW to,
         r.res = InWork => s.st = "SAFEOP" /\ to = "OP",
         r.res = NoErr => <<s.st, to>> \in E!Rises \/ Below(to, s.st)
  PROVE  Learns(r, s, to) /\ PdMain(r.s) = PdMain(s)
  BY DEF Learns, Tells, PdMain, PdChannels

\* Every transition of the switch in AL_ControlInd.
LEMMA TransitionLearns ==
  ASSUME NEW s \in SlvType, Fit(s, s.st),
         NEW to \in States \cup Unknown, NEW ack \in BOOLEAN, NEW x \in Found,
         pdCfg \in PdAddrs \cup PdFaults
  PROVE  LET r == Transition(s, to, ack, x) IN
         Learns(r, s, to) /\ Outputs(r, s, to) /\ r.s.st = s.st
<1> DEFINE r == Transition(s, to, ack, x)
<1>0. s.st \in States
  BY DEF SlvType
<1> SUFFICES Learns(r, s, to) /\ Outputs(r, s, to) /\ r.s.st = s.st
  OBVIOUS
<1>1. SUFFICES /\ Tells(r.s, s)
               /\ r.res = InWork => s.st = "SAFEOP" /\ to = "OP"
               /\ r.res = NoErr => <<s.st, to>> \in E!Rises \/ Below(to, s.st)
               /\ s.st = "OP" /\ to = "OP" =>
                    r.s.bEcatOutputUpdateRunning = s.bEcatOutputUpdateRunning
  <2> HIDE DEF r
  <2> QED BY TellsLearns DEF Outputs, Tells
<1>2. CASE s.st = "INIT" /\ to \in {"BOOT", "PREOP"}
  <2> DEFINE t(boot) == [Enable(s, {"mbx"}) EXCEPT !.bMbxRunning = TRUE, !.bBootMode = boot]
  <2>1. \A boot : Tells(Done(t(boot)).s, s)
    BY DEF Tells, Done, Enable, SlvType
  <2> HIDE DEF t
  <2>2. \A boot : Tells(StartMailbox(s, boot).s, s) /\ StartMailbox(s, boot).res # InWork
    BY <2>1, HandlersTell DEF StartMailbox, Done, InWork, NoErr, t
  <2>3. Tells(s, s) /\ Tells([s EXCEPT !.bBootMode = FALSE], s)
    BY HandlersTell DEF Tells
  <2>4. Tells(InitToBoot(s).s, s) /\ InitToBoot(s).res # InWork
    BY <2>2, <2>3 DEF InitToBoot, InWork
  <2>5. Tells(InitToPreop(s, x.eep).s, s) /\ InitToPreop(s, x.eep).res # InWork
    BY <2>2, <2>3 DEF InitToPreop, InWork
  <2> QED
    BY <1>2, <2>4, <2>5 DEF Transition, InvalidEdges, E!Rises
<1>3. CASE s.st = "BOOT" /\ to = "INIT"
  <2> DEFINE t == [s EXCEPT !.bBootMode = FALSE]
  <2>1. t \in SlvType /\ Tells(t, s)
    BY SetHandler, HandlersTell
  <2> HIDE DEF t
  <2>2. Tells(MBX_StopMailboxHandler(t), t)
    BY <2>1, HandlersTell
  <2>3. r = [s |-> MBX_StopMailboxHandler(t), res |-> NoErr]
    BY <1>3 DEF Transition, InvalidEdges, t
  <2>4. Below("INIT", "BOOT")
    BY Ranks DEF States
  <2> QED
    BY <1>3, <2>1, <2>2, <2>3, <2>4 DEF Tells, NoErr, InWork
<1>4. CASE s.st = "PREOP" /\ to = "SAFEOP"
  <2> DEFINE t == StartInputHandler(s, x.start)
             u == [t EXCEPT !.bEcatInputUpdateRunning = TRUE]
  <2>1. t \in SlvType /\ Tells(t, s)
    BY <1>4, StartInputFits, HandlersTell DEF Found
  <2> HIDE DEF t
  <2>2. u \in SlvType
    BY <2>1, SetHandler
  <2>3. Tells(StopInputHandler(t), t) /\ Tells(u, t) /\ Tells(Done(u).s, u)
    BY <2>1, <2>2, HandlersTell
  <2> HIDE DEF u
  <2>4. r = IF x.start.res # NoErr THEN [s |-> StopInputHandler(t), res |-> x.start.res]
            ELSE Done(u)
    BY <1>4 DEF Transition, InvalidEdges, PreopToSafeop, t, u
  <2>5. x.start.res # InWork /\ Done(u).res # InWork
    BY StartConfigsAssumption DEF Found, CfgErrors, NoErr, InWork, Done
  <2> QED
    BY <1>4, <2>1, <2>3, <2>4, <2>5 DEF Tells, E!Rises
<1>5. CASE s.st = "SAFEOP" /\ to = "OP"
  <2> DEFINE t == IF ack THEN Enable(s, PdMain(s)) ELSE s
  <2>1. t \in SlvType /\ Tells(t, s)
    BY <1>5, OpenFits, Channels, HandlersTell DEF Tells
  <2> HIDE DEF t
  <2>2. Tells(StartOutputHandler(t), t)
    BY <2>1, HandlersTell
  <2>3. r = [s |-> StartOutputHandler(t), res |-> InWork]
    BY <1>5 DEF Transition, InvalidEdges, SafeopToOp, t
  <2> QED
    BY <1>5, <2>1, <2>2, <2>3 DEF Tells, NoErr, InWork
<1>6. CASE \/ s.st = "OP" /\ to \in {"SAFEOP", "PREOP", "INIT"}
           \/ s.st = "SAFEOP" /\ to \in {"PREOP", "INIT"}
           \/ s.st = "PREOP" /\ to = "INIT"
  <2> DEFINE u == StepDown(s, s.st, to)
  <2>1. u \in SlvType /\ Tells(u, s)
    BY <1>6, StepDownFits, StepDownTells
  <2> HIDE DEF u
  <2>2. r \in {[s |-> u, res |-> NoErr], Done(u)}
    BY <1>6 DEF Transition, InvalidEdges, u
  <2>3. Tells(Done(u).s, u) /\ Done(u).res # InWork
    BY <2>1, HandlersTell DEF Done, NoErr, InWork
  <2>4. Below(to, s.st)
    BY <1>6, Ranks DEF States
  <2> QED
    BY <1>6, <2>1, <2>2, <2>3, <2>4 DEF Tells, NoErr, InWork
<1>7. CASE s.st = to /\ to # "BOOT"
  <2>1. r = SameState(s)
    BY <1>7 DEF Transition, InvalidEdges
  <2>2. Tells(r.s, s) /\ r.res = NoChange
    BY <2>1, HandlersTell DEF SameState, Tells
  <2>3. r.s.bEcatOutputUpdateRunning = s.bEcatOutputUpdateRunning
    BY <2>1 DEF SameState, Enable, SlvType
  <2> QED
    BY <2>2, <2>3 DEF NoErr, InWork, NoChange
<1>8. CASE \/ <<s.st, to>> \in InvalidEdges
           \/ to \in Unknown
           \/ s.st = "BOOT" /\ to = "BOOT"
  <2>1. r.s = s /\ r.res # NoErr /\ r.res # InWork
    BY <1>0, <1>8 DEF Transition, InvalidEdges, States, Unknown, NoErr, InWork
  <2> QED
    BY <2>1 DEF Tells
<1> QED
  BY <1>0, <1>2, <1>3, <1>4, <1>5, <1>6, <1>7, <1>8 DEF States, Unknown, InvalidEdges

\* The fall back after a failed check, with the device ID flag or without.
LEMMA FallBackLearns ==
  ASSUME NEW s \in SlvType, Fit(s, s.st), NEW chk \in Codes \ {NoErr}, NEW to
  PROVE  LET r == [s |-> FallBack(s, chk), res |-> chk] IN
         Learns(r, s, to) /\ Outputs(r, s, to)
<1> DEFINE s1 == IF s.st \in {"OP", "SAFEOP"} THEN StepDown(s, s.st, "PREOP") ELSE s
           low == IF chk = "INVALIDMBXCFGINPREOP" THEN "INIT" ELSE "PREOP"
           stop == IF low = "INIT" THEN MBX_StopMailboxHandler(s1) ELSE s1
           t == [stop EXCEPT !.st = low]
<1>0. chk # NoErr /\ chk # InWork
  BY DEF Codes, MapErrors, CfgErrors, NoErr, InWork
<1>1. CASE s.id \/ s.st \notin {"OP", "SAFEOP", "PREOP"}
  <2>1. FallBack(s, chk) = s
    BY <1>1 DEF FallBack
  <2> QED
    BY <1>0, <2>1 DEF Learns, Outputs
<1>2. CASE ~s.id /\ s.st \in {"OP", "SAFEOP", "PREOP"}
  <2>1. /\ s1 \in SlvType /\ Fit(s1, "PREOP") /\ Tells(s1, s)
        /\ s.st = "OP" => PdMain(s) \subseteq s1.off
    <3>1. s1 \in SlvType /\ Fit(s1, "PREOP") /\ Tells(s1, s)
      BY <1>2, StepDownFits, StepDownTells DEF Tells
    <3>2. s.st = "OP" => PdMain(s) \subseteq s1.off
      BY <1>2, StepDownTells, Channels
    <3> QED
      BY <3>1, <3>2
  <2> HIDE DEF s1
  <2>2. Tells(stop, s1) /\ stop \in SlvType
    BY <2>1, HandlersTell, StopMailboxFits DEF Tells
  <2>3. s1.off \subseteq stop.off /\ ~stop.bEcatOutputUpdateRunning
    BY <2>1 DEF Fit, MBX_StopMailboxHandler, Disable, SlvType
  <2>4. FallBack(s, chk) = t
    BY <1>2 DEF FallBack, s1
  <2> HIDE DEF stop
  <2>5. /\ t.st = low /\ t.alReg = s.alReg /\ t.id = s.id
        /\ t.bExplicitDevIdRequested = s.bExplicitDevIdRequested
        /\ s.st = "OP" => PdMain(s) \subseteq t.off /\ ~t.bEcatOutputUpdateRunning
    BY <2>1, <2>2, <2>3 DEF Tells, SlvType
  <2>6. low = s.st \/ Below(low, s.st)
    BY <1>2, Ranks DEF States
  <2> HIDE DEF t
  <2> QED
    BY <1>0, <2>4, <2>5, <2>6 DEF Learns, Outputs
<1> QED
  BY <1>1, <1>2

\* What AL_ControlInd does to AL Status, case by case.
Pends(s, t, req)  == s.st = "SAFEOP" /\ req = "OP" /\ t.alReg = s.alReg /\ t.bEcatWaitForAlControlRes
Acks(s, t)        == t.alReg.st = s.st /\ ~t.alReg.err
Rises(s, t, req, code) ==
  <<s.st, req>> \in E!Rises /\ t.alReg.st = req /\ t.alReg.err = (code # NoErr)
Falls(s, t, req, code) ==
  /\ Below(t.alReg.st, s.st)
  /\ t.alReg.err \/ (t.alReg.st = req /\ (code = NoErr \/ req # "SAFEOP"))
Refuses(s, t, id) == t.alReg.st = s.st /\ t.alReg.err /\ (s.st = "OP" => id)

\* The verdict on a request; id is the device ID flag that AL_ControlInd kept.
Verdict(s, t, req, code, id) ==
  \/ Pends(s, t, req)
  \/ /\ ~t.bEcatWaitForAlControlRes /\ t.err = t.alReg.err
     /\ Acks(s, t) \/ Rises(s, t, req, code) \/ Falls(s, t, req, code) \/ Refuses(s, t, id)

\* How the outputs leave OP: shut with an error, untouched without.
LeavesOp(s, t) ==
  s.st = "OP" =>
    /\ t.alReg.err => PdMain(s) \subseteq t.off /\ ~t.bEcatOutputUpdateRunning
    /\ t.alReg.st = "OP" =>
         /\ PdMain(t) = PdMain(s)
         /\ ~t.alReg.err => t.bEcatOutputUpdateRunning = s.bEcatOutputUpdateRunning

\* The device ID is shown only if it was, or if it was asked for.
KeepsId(s, t) ==
  /\ t.bExplicitDevIdRequested = s.bExplicitDevIdRequested
  /\ t.id => s.id \/ s.bExplicitDevIdRequested

\* Nothing is in work any more.
Calm(s) == [s EXCEPT !.bEcatWaitForAlControlRes = FALSE]

\* t is s with the state st and the error flag err shown, and nothing in work.
Published(t, s, st, err) ==
  /\ t.alReg.st = st /\ t.alReg.err = err /\ t.st = st /\ t.err = err
  /\ t.bEcatWaitForAlControlRes = FALSE /\ KeepsId(s, t)
  /\ t.off = s.off /\ t.bEcatOutputUpdateRunning = s.bEcatOutputUpdateRunning
  /\ PdMain(t) = PdMain(s)

\* What SetALStatus shows once the wait is over.
LEMMA SetALStatusPublishes ==
  ASSUME NEW s \in SlvType, NEW st, NEW err, NEW code
  PROVE  Published(SetALStatus(Calm(s), st, err, code), s, st, err)
  BY DEF Published, KeepsId, SetALStatus, Calm, SlvType, PdMain, PdChannels

\* What shutting the outputs leaves.
LEMMA ShutOutputsShuts ==
  ASSUME NEW s \in SlvType
  PROVE  LET t == ShutOutputs(s) IN
         /\ t \in SlvType /\ t.st = s.st /\ t.id = s.id
         /\ t.bExplicitDevIdRequested = s.bExplicitDevIdRequested
         /\ PdMain(s) \subseteq t.off /\ ~t.bEcatOutputUpdateRunning
         /\ PdMain(t) = PdMain(s)
<1> DEFINE u == IF s.bEcatOutputUpdateRunning THEN StopOutputHandler(s) ELSE s
           t == Disable(u, PdMain(s))
<1>1. u \in SlvType
  BY SetHandler, Zenon DEF StopOutputHandler
<1>2. Tells(u, s) /\ ~u.bEcatOutputUpdateRunning
  BY HandlersTell DEF Tells, StopOutputHandler, SlvType
<1> HIDE DEF u
<1>3. u.off \cup PdMain(s) \in SUBSET {"mbx", "out", "in"}
  BY <1>1, Channels DEF SlvType
<1>4. t \in SlvType
  BY <1>1, <1>3, SetValue, Zenon DEF Disable
<1>5. Tells(t, u) /\ PdMain(s) \subseteq t.off /\ ~t.bEcatOutputUpdateRunning
  BY <1>1, <1>2 DEF Tells, Disable, SlvType
<1> HIDE DEF t
<1>6. ShutOutputs(s) = t
  BY DEF ShutOutputs, t, u
<1>7. PdMain(t) = PdMain(s)
  BY <1>2, <1>5 DEF Tells, PdMain, PdChannels
<1> QED
  BY <1>2, <1>4, <1>5, <1>6, <1>7 DEF Tells

\* The end of AL_ControlInd turns an outcome into a verdict.
LEMMA ConcludeVerdict ==
  ASSUME NEW s \in SlvType, NEW r, NEW to \in States \cup Unknown, NEW code \in Codes,
         r.s \in SlvType, Learns(r, s, to), Outputs(r, s, to)
  PROVE  LET t == Conclude(r, to, code) IN
         Verdict(s, t, to, code, s.id) /\ LeavesOp(s, t) /\ KeepsId(s, t)
<1> DEFINE t    == Conclude(r, to, code)
           quit == /\ r.res # NoErr \/ code # NoErr
                   /\ to \in {"OP", "UNKNOWNOP"} \/ r.s.st = "OP"
           u    == IF quit THEN ShutOutputs(r.s) ELSE r.s
<1> SUFFICES Verdict(s, t, to, code, s.id) /\ LeavesOp(s, t) /\ KeepsId(s, t)
  OBVIOUS
<1>0. s.st \in States /\ r.s.st \in States /\ r.s.id \in BOOLEAN /\ s.alReg.err \in BOOLEAN
  BY DEF SlvType
<1>1. CASE r.res = InWork
  <2>1. t = [r.s EXCEPT !.bEcatWaitForAlControlRes = TRUE, !.EsmTimeoutCounter = EsmTimeout]
    BY <1>1 DEF Conclude
  <2>2. t.alReg = r.s.alReg /\ t.bEcatWaitForAlControlRes /\ KeepsId(r.s, t)
    BY <2>1 DEF SlvType, KeepsId
  <2> HIDE DEF t
  <2> QED
    BY <1>1, <2>2 DEF Learns, Verdict, Pends, LeavesOp, KeepsId
<1>2. CASE r.res # InWork /\ to = r.s.st
  <2>1. t = SetALStatus(Calm(r.s), r.s.st, FALSE, NoErr)
    BY <1>2 DEF Conclude, Calm
  <2> HIDE DEF t
  <2>2. Published(t, r.s, r.s.st, FALSE)
    BY <2>1, SetALStatusPublishes, Zenon
  <2>3. Verdict(s, t, to, code, s.id)
    BY <1>2, <2>2 DEF Published, Learns, Verdict, Acks, Falls
  <2>4. LeavesOp(s, t)
    BY <1>2, <2>2 DEF Published, Outputs, LeavesOp
  <2> QED
    BY <2>2, <2>3, <2>4 DEF Published, KeepsId, Learns
<1>3. /\ u \in SlvType /\ u.st = r.s.st /\ u.id = r.s.id
      /\ u.bExplicitDevIdRequested = r.s.bExplicitDevIdRequested /\ PdMain(u) = PdMain(r.s)
      /\ quit => PdMain(r.s) \subseteq u.off /\ ~u.bEcatOutputUpdateRunning
      /\ ~quit => u = r.s
  BY ShutOutputsShuts
<1>4. CASE r.res # InWork /\ to # r.s.st /\ r.res # NoErr
  <2> DEFINE st == IF u.st = "OP" /\ ~u.id THEN "SAFEOP" ELSE u.st
  <2>1. t = SetALStatus(Calm(u), st, TRUE, r.res)
    BY <1>4 DEF Conclude, Calm
  <2>2. quit <=> to \in {"OP", "UNKNOWNOP"} \/ r.s.st = "OP"
    BY <1>4
  <2> HIDE DEF t, u, quit
  <2>3. Published(t, u, st, TRUE)
    BY <1>3, <2>1, SetALStatusPublishes, Zenon
  <2>4. \/ st = s.st /\ (s.st = "OP" => s.id)
        \/ Below(st, s.st)
    <3>1. Below("SAFEOP", "OP") /\ ~Below("OP", s.st)
      BY <1>0, Ranks DEF States
    <3> QED
      BY <1>0, <1>3, <3>1 DEF Learns
  <2>5. Verdict(s, t, to, code, s.id)
    BY <2>3, <2>4 DEF Published, Verdict, Refuses, Falls
  <2>6. ASSUME s.st = "OP"
        PROVE  /\ PdMain(s) \subseteq u.off /\ ~u.bEcatOutputUpdateRunning
               /\ st = "OP" => PdMain(u) = PdMain(s)
    <3>1. CASE r.s.st = "OP"
      BY <1>3, <2>2, <2>6, <3>1 DEF Outputs
    <3>2. CASE r.s.st # "OP"
      <4>1. PdMain(s) \subseteq r.s.off /\ ~r.s.bEcatOutputUpdateRunning
        BY <2>6, <3>2 DEF Outputs
      <4>2. r.s.off \subseteq u.off
        BY <1>3 DEF ShutOutputs, Disable, StopOutputHandler, u, SlvType
      <4>3. ~u.bEcatOutputUpdateRunning /\ st # "OP"
        BY <1>3, <3>2, <4>1
      <4> QED
        BY <4>1, <4>2, <4>3
    <3> QED
      BY <3>1, <3>2
  <2>7. LeavesOp(s, t)
    BY <2>3, <2>6 DEF Published, LeavesOp
  <2> QED
    BY <1>3, <2>3, <2>5, <2>7 DEF Published, KeepsId, Learns
<1>5. CASE to # r.s.st /\ r.res = NoErr
  <2>1. t = SetALStatus(Calm(u), to, code # NoErr, code)
    BY <1>5 DEF Conclude, Calm, NoErr, InWork
  <2>2. quit <=> code # NoErr /\ (to \in {"OP", "UNKNOWNOP"} \/ r.s.st = "OP")
    BY <1>5
  <2> HIDE DEF t, u, quit
  <2>3. Published(t, u, to, code # NoErr)
    BY <1>3, <2>1, SetALStatusPublishes, Zenon
  <2>4. r.s.st = s.st /\ (<<s.st, to>> \in E!Rises \/ Below(to, s.st))
    BY <1>5 DEF Learns
  <2>5. Verdict(s, t, to, code, s.id)
    BY <2>3, <2>4 DEF Published, Verdict, Rises, Falls
  <2>6. s.st = "OP" => to # "OP"
    BY <1>5, <2>4
  <2>7. LeavesOp(s, t)
    BY <1>3, <2>2, <2>3, <2>4, <2>6 DEF Published, LeavesOp, Outputs
  <2> QED
    BY <1>3, <2>3, <2>5, <2>7 DEF Published, KeepsId, Learns
<1> QED
  BY <1>1, <1>2, <1>4, <1>5

\* The verdict of AL_ControlInd on a request that is heard.
LEMMA AL_ControlIndVerdict ==
  ASSUME NEW s, SlvInv(s), NEW req \in States \cup Unknown, NEW ack \in BOOLEAN,
         NEW code \in Codes, NEW x \in Found, pdCfg \in PdAddrs \cup PdFaults,
         ~Ignored(s, req, ack)
  PROVE  LET t == AL_ControlInd(s, req, ack, code, x) IN
         Verdict(s, t, req, code, s.id /\ ack) /\ LeavesOp(s, t) /\ KeepsId(s, t)
<1>1. PICK s2, r : /\ Heard(s, s2, r, req, ack, x)
                   /\ AL_ControlInd(s, req, ack, code, x) = Conclude(r, req, code)
  BY AL_ControlIndHeard
<1>2. s2 \in SlvType /\ Fit(s2, s2.st)
  BY <1>1 DEF Heard
<1>3. r.s \in SlvType
  BY <1>1, TransitionOutcome, FallBackOutcome DEF Heard, Outcome
<1>4. Learns(r, s2, req) /\ Outputs(r, s2, req)
  BY <1>1, <1>2, TransitionLearns, FallBackLearns DEF Heard
<1> DEFINE t == Conclude(r, req, code)
<1>5. Verdict(s2, t, req, code, s2.id) /\ LeavesOp(s2, t) /\ KeepsId(s2, t)
  BY <1>2, <1>3, <1>4, ConcludeVerdict
<1> HIDE DEF t
<1>6. /\ s2.alReg = s.alReg /\ s2.st = s.st /\ s2.id = (s.id /\ ack)
      /\ s2.bExplicitDevIdRequested = s.bExplicitDevIdRequested
      /\ s2.bEcatOutputUpdateRunning = s.bEcatOutputUpdateRunning
      /\ s.st = "OP" => PdMain(s2) = PdMain(s)
  BY <1>1 DEF Heard
<1>7. Verdict(s, t, req, code, s.id /\ ack)
  BY <1>5, <1>6 DEF Verdict, Pends, Acks, Rises, Falls, Refuses
<1>8. LeavesOp(s, t)
  BY <1>5, <1>6 DEF LeavesOp
<1>9. KeepsId(s, t)
  BY <1>5, <1>6 DEF KeepsId
<1> QED
  BY <1>1, <1>7, <1>8, <1>9 DEF t

\* A request that is ignored leaves AL Status, the flags and the outputs alone.
LEMMA IgnoredKeeps ==
  ASSUME NEW s, SlvInv(s), NEW req, NEW ack, NEW code, NEW x, Ignored(s, req, ack)
  PROVE  LET t == AL_ControlInd(s, req, ack, code, x) IN
         /\ Tells(t, s) /\ t.err = s.err
         /\ t.bEcatWaitForAlControlRes = s.bEcatWaitForAlControlRes
         /\ t.off = s.off /\ t.bEcatOutputUpdateRunning = s.bEcatOutputUpdateRunning
         /\ PdMain(t) = PdMain(s)
<1>1. s \in SlvType
  BY DEF SlvInv
<1>2. AL_ControlInd(s, req, ack, code, x)
        = [s EXCEPT !.EsmTimeoutCounter = -1, !.bApplEsmPending = TRUE]
  BY DEF AL_ControlInd
<1> QED
  BY <1>1, <1>2 DEF Tells, PdMain, PdChannels, SlvType
-------------------------------------------------------------------------------
(* The entry to OP.                                                          *)

\* No request and no local event raises the slave to OP at once.
LEMMA AL_ControlIndStaysBelow ==
  ASSUME NEW s, SlvInv(s), s.alReg.st # "OP", NEW req \in States \cup Unknown,
         NEW ack \in BOOLEAN, NEW code \in Codes, NEW x \in Found,
         pdCfg \in PdAddrs \cup PdFaults
  PROVE  AL_ControlInd(s, req, ack, code, x).alReg.st # "OP"
<1> DEFINE t == AL_ControlInd(s, req, ack, code, x)
<1> SUFFICES t.alReg.st # "OP"
  OBVIOUS
<1>1. CASE Ignored(s, req, ack)
  BY <1>1, IgnoredKeeps DEF Tells
<1>2. CASE ~Ignored(s, req, ack)
  <2>1. Verdict(s, t, req, code, s.id /\ ack)
    BY <1>2, AL_ControlIndVerdict
  <2>2. s.st = s.alReg.st /\ s.st \in States
    BY DEF SlvInv, Shown, SlvType
  <2> HIDE DEF t
  <2>3. ~Below("OP", s.st)
    BY <2>2, Ranks DEF States
  <2> QED
    BY <2>1, <2>2, <2>3 DEF Verdict, Pends, Acks, Rises, Falls, Refuses, E!Rises
<1> QED
  BY <1>1, <1>2

\* The same for a call that the slave makes itself.
LEMMA LocalIndStaysBelow ==
  ASSUME NEW s, SlvInv(s), s.alReg.st # "OP", NEW req \in States, NEW code \in Codes,
         pdCfg \in PdAddrs \cup PdFaults
  PROVE  LocalInd(s, req, code).alReg.st # "OP"
<1>1. (CHOOSE x \in Found : TRUE) \in Found
  BY FoundInhabited
<1> QED
  BY <1>1, AL_ControlIndStaysBelow DEF LocalInd

\* What AL Status shows is written by SetALStatus only: the timer and the
\* interrupts leave it alone, and an error in the main loop never asks for OP.
LEMMA CheckIfEcatErrorStaysBelow ==
  ASSUME NEW s, SlvInv(s), s.alReg.st # "OP", pdCfg \in PdAddrs \cup PdFaults
  PROVE  CheckIfEcatError(s).alReg.st # "OP"
<1> DEFINE s1 == IF OutputsLost(s) THEN [s EXCEPT !.bEcatFirstOutputsReceived = FALSE] ELSE s
<1>1. SlvInv(s1)
  BY FirstOutputsInv
<1>2. s1.alReg.st # "OP"
  BY DEF SlvInv, SlvType
<1>3. "SAFEOP" \in States /\ {"SMWATCHDOG", "FATALSYNCERROR", "SYNCERROR"} \subseteq Codes
  BY DEF States, Codes
<1>4. CheckIfEcatError(s) \in {LocalInd(s, "SAFEOP", "SMWATCHDOG"), s1,
         LocalInd(s1, "SAFEOP", "FATALSYNCERROR"), LocalInd(s1, "SAFEOP", "SYNCERROR")}
  BY DEF CheckIfEcatError
<1> HIDE DEF s1
<1> QED
  BY <1>1, <1>2, <1>3, <1>4, LocalIndStaysBelow

\* What must hold at the moment the slave enters OP.
EntryCondition ==
  /\ slv.bEcatWaitForAlControlRes
  /\ IF slv.dc.bDcSyncActive
     THEN slv.dc.bDcRunning /\ slv.dc.bSmSyncSequenceValid
     ELSE slv.nPdOutputSize => slv.bEcatFirstOutputsReceived

\* AL_ControlRes confirms OP either because the PLL wait is over (then the
\* invariant says that the sequence is valid), or because the first outputs
\* have come, or at the timeout, which asks for the same again.
LEMMA PollEntersSafely ==
  ASSUME SlvInv(slv), PllInv, slv.bEcatWaitForAlControlRes,
         AL_ControlRes(slv).alReg.st = "OP", slv.alReg.st # "OP"
  PROVE  EntryCondition
<1>1. slv \in SlvType /\ Fit(slv, slv.st)
  BY DEF SlvInv
<1>2. slv.dc.bSmSyncSequenceValid => slv.dc.bDcRunning
  BY <1>1 DEF Fit
<1>3. CASE slv.EsmTimeoutCounter = 0
  <2> DEFINE t == [StopOutputHandler(slv) EXCEPT !.bEcatWaitForAlControlRes = FALSE]
  <2>1. t \in SlvType
    BY <1>1, SetHandler, SetFlag, Zenon DEF StopOutputHandler
  <2> HIDE DEF t
  <2>2. SetALStatus(t, "SAFEOP", TRUE, OpTimeoutCode(slv)).alReg.st = "SAFEOP"
    BY <2>1 DEF SetALStatus, SlvType
  <2>3. OpTimeoutCode(slv) = NoErr
    BY <1>3, <2>2 DEF AL_ControlRes, OpTimedOut, t
  <2> QED
    BY <1>1, <2>3 DEF OpTimeoutCode, NoErr, EntryCondition, SlvType, DcType
<1>4. CASE slv.EsmTimeoutCounter # 0
  <2>1. OpReady(slv)
    BY <1>4 DEF AL_ControlRes
  <2>2. CASE slv.dc.bDcSyncActive
    <3>1. slv.dc.i16WaitForPllRunningTimeout \in {0, PllTime} /\ slv.dc.i16WaitForPllRunningCnt \in 0..PllTime
      BY <1>1 DEF SlvType, DcType
    <3>2. PllFull(slv)
      BY <2>1, <2>2, <3>1, TimeAssumption DEF OpReady, PllFull
    <3> QED
      BY <1>2, <2>2, <3>2 DEF PllInv, EntryCondition
  <2>3. CASE ~slv.dc.bDcSyncActive
    BY <2>1, <2>3 DEF OpReady, EntryCondition
  <2> QED
    BY <2>2, <2>3
<1> QED
  BY <1>3, <1>4

\* The handling of a request, of a change of the sync managers, and of a
\* closed SM1 does not raise the slave to OP.
LEMMA IndicationsStayBelow ==
  ASSUME IInv, slv.alReg.st # "OP", AlControlEvent \/ SmChangeEvent \/ CheckSm1
  PROVE  slv'.alReg.st # "OP"
<1>1. /\ SlvInv(slv) /\ slv \in SlvType /\ slv.st \in States /\ NoErr \in Codes
      /\ pdCfg \in PdAddrs \cup PdFaults
      /\ ctl.id \in BOOLEAN /\ ctl.ack \in BOOLEAN /\ ctl.req \in States \cup Unknown
  BY RequestsAssumption DEF IInv, TypeOK, SlvType, Codes
<1>2. CASE AlControlEvent
  <2> DEFINE t == [slv EXCEPT !.bExplicitDevIdRequested = ctl.id]
  <2>1. t \in SlvType
    BY <1>1, SetFlag
  <2>2. Fit(t, t.st) /\ Shown(t) /\ Waits(t) /\ t.alReg.st # "OP"
    BY <1>1 DEF SlvInv, Fit, Shown, Waits, SlvType
  <2>3. \E x \in Found : slv' = AL_ControlInd(t, ctl.req, ctl.ack, NoErr, x)
    BY <1>2 DEF AlControlEvent
  <2> HIDE DEF t
  <2>4. SlvInv(t)
    BY <2>1, <2>2 DEF SlvInv
  <2> QED
    BY <1>1, <2>2, <2>3, <2>4, AL_ControlIndStaysBelow
<1>3. CASE SmChangeEvent
  BY <1>1, <1>3, LocalIndStaysBelow DEF SmChangeEvent
<1>4. CASE CheckSm1
  BY <1>1, <1>4, LocalIndStaysBelow DEF CheckSm1
<1> QED
  BY <1>2, <1>3, <1>4

\* OP is entered only from a transition in work; in DC mode the Sync0 signal
\* runs and the sequence is valid then, otherwise the first outputs have
\* arrived, whatever order the timer, the interrupts and the master act in.
THEOREM EntrySafe == Spec => EnterOpSafely
<1>1. IInv /\ [Next]_vars =>
        [slv.alReg.st # "OP" /\ slv'.alReg.st = "OP" =>
           /\ slv.bEcatWaitForAlControlRes
           /\ IF slv.dc.bDcSyncActive
              THEN slv.dc.bDcRunning /\ slv.dc.bSmSyncSequenceValid
              ELSE slv.nPdOutputSize => slv.bEcatFirstOutputsReceived]_vars
  <2> SUFFICES ASSUME IInv, [Next]_vars, slv.alReg.st # "OP", slv'.alReg.st = "OP"
               PROVE  EntryCondition
    BY DEF EntryCondition
  <2>1. SlvInv(slv) /\ slv \in SlvType /\ PllInv /\ pdCfg \in PdAddrs \cup PdFaults
    BY DEF IInv, SlvInv, TypeOK
  <2>2. CASE PollProcessData
    BY <2>1, <2>2 DEF PollProcessData, SlvType
  <2>3. CASE CheckTimer
    BY <2>1, <2>3 DEF CheckTimer, ECAT_CheckTimer, SlvType
  <2>4. CASE AlControlEvent \/ SmChangeEvent \/ CheckSm1
    BY <2>4, IndicationsStayBelow
  <2>5. CASE PendingTransition
    BY <2>1, <2>5, PollEntersSafely DEF PendingTransition
  <2>6. CASE CheckError
    BY <2>1, <2>6, CheckIfEcatErrorStaysBelow DEF CheckError
  <2>7. CASE PDI_Isr
    BY <2>1, <2>7 DEF PDI_Isr, SlvType
  <2>8. CASE Sync0_Isr
    BY <2>1, <2>8 DEF Sync0_Isr, SlvType
  <2>9. CASE ReadSm1 \/ NoEvent \/ Environment \/ UNCHANGED vars
    BY <2>1, <2>9 DEF ReadSm1, NoEvent, Environment, Tick, WriteAlControl, ConfigureSm, ProcessData,
                      WatchdogExpires, vars
  <2> QED
    BY <2>2, <2>3, <2>4, <2>5, <2>6, <2>7, <2>8, <2>9 DEF Next, MainLoop, Interrupt
<1> QED
  BY <1>1, Invariance, PTL DEF Spec, EnterOpSafely
===============================================================================
