-------------------------- MODULE EcatSlaveESM_proofs --------------------------
(***************************************************************************)
(* Proofs about what the master reads in AL Status: EcatSlave implements    *)
(* ESM, OP is shown only while the outputs run, and leaving OP with an      *)
(* error shuts them.  They rest on the verdicts of AL_ControlInd in         *)
(* EcatSlave_proofs.                                                        *)
(*                                                                         *)
(* The first two need that no request acknowledges in a network where the   *)
(* explicit device ID is asked for: with both, ecatslv.c compares a state   *)
(* that still carries the device ID flag and the promise is broken (the     *)
(* violation run EcatSlaveId shows how).                                    *)
(***************************************************************************)
EXTENDS EcatSlave_proofs

\* The master never acknowledges, or never asks for the device ID.
NoAckWithId == \A r, q \in Requests : ~(r.id /\ q.ack)

\* The device ID is shown and remembered only if some request asks for it.
IdAsked(s) == s.id \/ s.bExplicitDevIdRequested => \E r \in Requests : r.id

\* The error that AL Status shows is also in nAlStatus, except while an
\* acknowledged request is in work.
ErrShown(s) == s.alReg.err => s.err \/ s.bEcatWaitForAlControlRes

\* OP with an error, which only the device ID flag makes possible, has the
\* outputs shut.
OpShut(s) ==
  s.st = "OP" /\ s.alReg.err => PdMain(s) \subseteq s.off /\ ~s.bEcatOutputUpdateRunning

\* Otherwise OP has no error and its outputs run.
OpRuns(s) ==
  NoAckWithId /\ s.st = "OP" => ~s.alReg.err /\ s.bEcatOutputUpdateRunning

ShownInv(s) == IdAsked(s) /\ ErrShown(s) /\ OpShut(s) /\ OpRuns(s)

RInv == IInv /\ ShownInv(slv)

\* A step that changes nothing the master reads and nothing the outputs need.
Quiet(s, t) ==
  /\ Tells(t, s) /\ t.err = s.err
  /\ t.bEcatWaitForAlControlRes = s.bEcatWaitForAlControlRes
  /\ t.off = s.off /\ t.bEcatOutputUpdateRunning = s.bEcatOutputUpdateRunning

\* From s to t the invariant is kept and OP is not left open with an error.
Good(s, t) ==
  /\ ShownInv(t)
  /\ s.st = "OP" /\ t.alReg.err => PdMain(s) \subseteq t.off /\ ~t.bEcatOutputUpdateRunning

\* The outcome of a call of AL_ControlInd: ignored, or a verdict.
Indication(s, t, req, ack, code) ==
  \/ Ignored(s, req, ack) /\ Quiet(s, t)
  \/ /\ ~Ignored(s, req, ack)
     /\ Verdict(s, t, req, code, s.id /\ ack) /\ LeavesOp(s, t) /\ KeepsId(s, t)
-------------------------------------------------------------------------------
(* The invariant over the calls of the main loop.                            *)

\* A quiet step keeps the invariant.
LEMMA QuietGood ==
  ASSUME NEW s, NEW t, ShownInv(s), Quiet(s, t)
  PROVE  Good(s, t)
<1>1. PdMain(t) = PdMain(s)
  BY DEF Quiet, Tells, PdMain, PdChannels
<1> QED
  BY <1>1 DEF Quiet, Tells, Good, ShownInv, IdAsked, ErrShown, OpShut, OpRuns

\* Every call of AL_ControlInd is ignored or ends in a verdict.
LEMMA AL_ControlIndIndicates ==
  ASSUME NEW s, SlvInv(s), NEW req \in States \cup Unknown, NEW ack \in BOOLEAN,
         NEW code \in Codes, NEW x \in Found, pdCfg \in PdAddrs \cup PdFaults
  PROVE  Indication(s, AL_ControlInd(s, req, ack, code, x), req, ack, code)
  BY IgnoredKeeps, AL_ControlIndVerdict DEF Indication, Quiet

\* The same for a call that the slave makes itself.
LEMMA LocalIndIndicates ==
  ASSUME NEW s, SlvInv(s), NEW req \in States, NEW code \in Codes,
         pdCfg \in PdAddrs \cup PdFaults
  PROVE  Indication(s, LocalInd(s, req, code), req, FALSE, code)
<1>1. (CHOOSE x \in Found : TRUE) \in Found
  BY FoundInhabited
<1> QED
  BY <1>1, AL_ControlIndIndicates DEF LocalInd

\* Such a call keeps the invariant, whatever its verdict.
LEMMA IndicationGood ==
  ASSUME NEW s, NEW t, SlvInv(s), ShownInv(s), SlvInv(t),
         NEW req, NEW ack, NEW code,
         NoAckWithId => ~(s.id /\ ack), Indication(s, t, req, ack, code)
  PROVE  Good(s, t)
<1>1. CASE Quiet(s, t)
  BY <1>1, QuietGood
<1>2. CASE Verdict(s, t, req, code, s.id /\ ack) /\ LeavesOp(s, t) /\ KeepsId(s, t)
  <2>1. s.st = s.alReg.st /\ t.st = t.alReg.st /\ s.st \in States
    BY DEF SlvInv, Shown, SlvType
  <2>2. ~Below("OP", s.st)
    BY <2>1, Ranks DEF States
  <2>3. IdAsked(t)
    BY <1>2 DEF ShownInv, IdAsked, KeepsId
  <2>4. ErrShown(t)
    BY <1>2 DEF Verdict, Pends, ErrShown
  <2>5. t.st = "OP" => /\ s.st = "OP"
                       /\ ~t.alReg.err \/ (s.id /\ ack)
    BY <1>2, <2>1, <2>2 DEF Verdict, Pends, Acks, Rises, Falls, Refuses, E!Rises
  <2>6. OpShut(t)
    BY <1>2, <2>1, <2>5 DEF LeavesOp, OpShut
  <2>7. OpRuns(t)
    BY <1>2, <2>1, <2>5 DEF LeavesOp, ShownInv, OpRuns
  <2>8. s.st = "OP" /\ t.alReg.err => PdMain(s) \subseteq t.off /\ ~t.bEcatOutputUpdateRunning
    BY <1>2 DEF LeavesOp
  <2> QED
    BY <2>3, <2>4, <2>6, <2>7, <2>8 DEF ShownInv, Good
<1> QED
  BY <1>1, <1>2 DEF Indication

\* What the end of a SAFEOP-to-OP transition shows: OP with the outputs
\* running, or SAFEOP with an error.
Confirms(s, t) == /\ t.alReg.st = "OP" /\ ~t.alReg.err /\ t.bEcatOutputUpdateRunning
                  /\ ~t.bEcatWaitForAlControlRes /\ KeepsId(s, t)
GivesUp(s, t)  == /\ t.alReg.st = "SAFEOP" /\ t.alReg.err /\ t.err
                  /\ ~t.bEcatWaitForAlControlRes /\ KeepsId(s, t)

\* A poll of the transition in work confirms it, gives it up or leaves it.
LEMMA AL_ControlResShows ==
  ASSUME NEW s \in SlvType
  PROVE  LET t == AL_ControlRes(s) IN Confirms(s, t) \/ GivesUp(s, t) \/ t = s
<1>1. \A u \in SlvType : Confirms(u, OpReached(u))
  BY DEF Confirms, KeepsId, OpReached, SetALStatus, SlvType
<1>2. Confirms(s, OpTimedOut(s)) \/ GivesUp(s, OpTimedOut(s))
  <2> DEFINE t == SetALStatus([StopOutputHandler(s) EXCEPT !.bEcatWaitForAlControlRes = FALSE],
                              "SAFEOP", TRUE, OpTimeoutCode(s))
  <2>1. GivesUp(s, t)
    BY DEF GivesUp, KeepsId, StopOutputHandler, SetALStatus, SlvType
  <2> HIDE DEF t
  <2> QED
    BY <1>1, <2>1 DEF OpTimedOut, t
<1>3. Confirms(s, OpReached([ClearPll(s) EXCEPT !.bApplEsmPending = FALSE]))
  BY DEF Confirms, KeepsId, ClearPll, OpReached, SetALStatus, SlvType
<1> QED
  BY <1>2, <1>3 DEF AL_ControlRes

\* The poll keeps the invariant.
LEMMA AL_ControlResGood ==
  ASSUME NEW s, SlvInv(s), ShownInv(s), s.bEcatWaitForAlControlRes
  PROVE  Good(s, AL_ControlRes(s))
<1> DEFINE t == AL_ControlRes(s)
<1> SUFFICES Good(s, t)
  OBVIOUS
<1>1. SlvInv(t)
  BY AL_ControlResInv
<1>2. Confirms(s, t) \/ GivesUp(s, t) \/ t = s
  BY AL_ControlResShows DEF SlvInv
<1> HIDE DEF t
<1>3. s.st = "SAFEOP" /\ t.st = t.alReg.st
  BY <1>1 DEF SlvInv, Waits, Shown
<1>4. IdAsked(t)
  BY <1>2 DEF Confirms, GivesUp, KeepsId, ShownInv, IdAsked
<1>5. ErrShown(t) /\ OpShut(t) /\ OpRuns(t)
  BY <1>2, <1>3 DEF Confirms, GivesUp, ShownInv, ErrShown, OpShut, OpRuns
<1> QED
  BY <1>3, <1>4, <1>5 DEF Good, ShownInv

\* A request of the master: an indication on a record that differs from slv in
\* the memory of the device ID only.
LEMMA AlControlEventIndicates ==
  ASSUME IInv, AlControlEvent
  PROVE  \E s : /\ SlvInv(s) /\ Indication(s, slv', ctl.req, ctl.ack, NoErr)
                /\ s = [slv EXCEPT !.bExplicitDevIdRequested = ctl.id]
<1> DEFINE s == [slv EXCEPT !.bExplicitDevIdRequested = ctl.id]
<1>1. slv \in SlvType /\ Fit(slv, slv.st) /\ Shown(slv) /\ Waits(slv)
  BY DEF IInv, SlvInv
<1>2. /\ ctl.id \in BOOLEAN /\ ctl.ack \in BOOLEAN /\ ctl.req \in States \cup Unknown
      /\ pdCfg \in PdAddrs \cup PdFaults /\ NoErr \in Codes
  BY RequestsAssumption DEF IInv, TypeOK, Codes
<1>3. s \in SlvType
  BY <1>1, <1>2, SetFlag
<1>4. Fit(s, s.st) /\ Shown(s) /\ Waits(s)
  BY <1>1 DEF Fit, Shown, Waits, SlvType
<1>5. \E x \in Found : slv' = AL_ControlInd(s, ctl.req, ctl.ack, NoErr, x)
  BY DEF AlControlEvent
<1>6. SlvInv(s)
  BY <1>3, <1>4 DEF SlvInv
<1> HIDE DEF s
<1>7. Indication(s, slv', ctl.req, ctl.ack, NoErr)
  BY <1>2, <1>5, <1>6, AL_ControlIndIndicates
<1> QED
  BY <1>6, <1>7 DEF s

\* A change of the sync managers, or a closed SM1, repeats the present state.
LEMMA SameStateIndicates ==
  ASSUME IInv, SmChangeEvent \/ CheckSm1, slv' # slv
  PROVE  /\ Indication(slv, slv', slv.st, FALSE, NoErr)
         /\ ~Ignored(slv, slv.st, FALSE) => ~slv.err
<1>1. SlvInv(slv) /\ slv.st \in States /\ NoErr \in Codes /\ pdCfg \in PdAddrs \cup PdFaults
  BY DEF IInv, SlvInv, TypeOK, SlvType, Codes
<1>2. slv' = LocalInd(slv, slv.st, NoErr)
  BY DEF SmChangeEvent, CheckSm1
<1>3. Indication(slv, slv', slv.st, FALSE, NoErr)
  BY <1>1, <1>2, LocalIndIndicates
<1>4. ~slv.err \/ slv.st # "INIT"
  BY <1>1 DEF SmChangeEvent, CheckSm1, SlvInv, Fit
<1> QED
  BY <1>3, <1>4 DEF Ignored

\* The error check of the main loop is quiet, or asks for SAFEOP with an error
\* while the outputs run.
LEMMA CheckErrorIndicates ==
  ASSUME IInv, CheckError
  PROVE  \/ Quiet(slv, slv')
         \/ \E s, code : /\ SlvInv(s) /\ Quiet(slv, s) /\ s.bEcatOutputUpdateRunning
                         /\ Indication(s, slv', "SAFEOP", FALSE, code) /\ code # NoErr
<1> DEFINE s1 == IF OutputsLost(slv) THEN [slv EXCEPT !.bEcatFirstOutputsReceived = FALSE] ELSE slv
<1>1. SlvInv(slv) /\ slv \in SlvType /\ pdCfg \in PdAddrs \cup PdFaults
  BY DEF IInv, SlvInv, TypeOK
<1>2. SlvInv(s1)
  BY <1>1, FirstOutputsInv
<1>3. Quiet(slv, slv) /\ Quiet(slv, s1)
  BY <1>1 DEF Quiet, Tells, SlvType
<1>4. "SAFEOP" \in States /\ {"SMWATCHDOG", "FATALSYNCERROR", "SYNCERROR"} \subseteq Codes \ {NoErr}
  BY DEF States, Codes, NoErr
<1>5. \/ slv' = s1
      \/ /\ slv.bEcatOutputUpdateRunning
         /\ \E s \in {slv, s1}, code \in {"SMWATCHDOG", "FATALSYNCERROR", "SYNCERROR"} :
              slv' = LocalInd(s, "SAFEOP", code)
  BY DEF CheckError, CheckIfEcatError
<1> HIDE DEF s1
<1>6. CASE slv' = s1
  BY <1>3, <1>6
<1>7. ASSUME slv.bEcatOutputUpdateRunning,
             NEW s \in {slv, s1}, NEW code \in {"SMWATCHDOG", "FATALSYNCERROR", "SYNCERROR"},
             slv' = LocalInd(s, "SAFEOP", code)
      PROVE  /\ SlvInv(s) /\ Quiet(slv, s) /\ s.bEcatOutputUpdateRunning
             /\ Indication(s, slv', "SAFEOP", FALSE, code) /\ code # NoErr
  <2>1. SlvInv(s) /\ Quiet(slv, s) /\ code \in Codes /\ code # NoErr
    BY <1>1, <1>2, <1>3, <1>4, <1>7
  <2>2. Indication(s, slv', "SAFEOP", FALSE, code)
    BY <1>1, <1>4, <1>7, <2>1, LocalIndIndicates
  <2> QED
    BY <1>7, <2>1, <2>2 DEF Quiet
<1> QED
  BY <1>5, <1>6, <1>7

\* The other steps are quiet: the polling of process data, the timer, the
\* interrupts, and what the master and the ESC do.
LEMMA OthersQuiet ==
  ASSUME IInv, \/ PollProcessData \/ CheckTimer \/ ReadSm1 \/ NoEvent \/ Interrupt \/ Environment
               \/ UNCHANGED vars
  PROVE  Quiet(slv, slv')
<1>1. slv \in SlvType
  BY DEF IInv, SlvInv
<1>2. CASE PollProcessData
  BY <1>1, <1>2 DEF PollProcessData, Quiet, Tells, SlvType
<1>3. CASE CheckTimer
  BY <1>1, <1>3 DEF CheckTimer, ECAT_CheckTimer, Quiet, Tells, SlvType
<1>4. CASE Interrupt
  <2>1. CASE PDI_Isr
    BY <1>1, <2>1 DEF PDI_Isr, Quiet, Tells, SlvType
  <2>2. CASE Sync0_Isr
    BY <1>1, <2>2 DEF Sync0_Isr, Quiet, Tells, SlvType
  <2> QED
    BY <1>4, <2>1, <2>2 DEF Interrupt
<1>5. CASE ReadSm1 \/ NoEvent \/ Environment \/ UNCHANGED vars
  <2>1. slv' = slv
    BY <1>5 DEF ReadSm1, NoEvent, Environment, Tick, WriteAlControl, ConfigureSm, ProcessData,
                WatchdogExpires, vars
  <2> QED
    BY <2>1 DEF Quiet, Tells
<1> QED
  BY <1>2, <1>3, <1>4, <1>5
-------------------------------------------------------------------------------
(* The invariant.                                                            *)

\* Under the assumption the flag that an acknowledgement keeps is never up.
LEMMA NoIdKept ==
  ASSUME IInv, IdAsked(slv), NoAckWithId
  PROVE  ~(slv.id /\ ctl.ack)
  BY DEF IInv, TypeOK, IdAsked, NoAckWithId

\* Every step keeps the invariant and leaves no open outputs behind an error.
LEMMA StepGood ==
  ASSUME RInv, [Next]_vars
  PROVE  Good(slv, slv')
<1>1. IInv /\ SlvInv(slv) /\ ShownInv(slv) /\ slv \in SlvType /\ SlvInv(slv')
  BY StepKeeps DEF RInv, IInv, SlvInv
<1>2. CASE \/ PollProcessData \/ CheckTimer \/ ReadSm1 \/ NoEvent \/ Interrupt \/ Environment
           \/ UNCHANGED vars
  BY <1>1, <1>2, OthersQuiet, QuietGood
<1>3. CASE AlControlEvent
  <2>1. PICK s : /\ SlvInv(s) /\ Indication(s, slv', ctl.req, ctl.ack, NoErr)
                 /\ s = [slv EXCEPT !.bExplicitDevIdRequested = ctl.id]
    BY <1>1, <1>3, AlControlEventIndicates
  <2>2. /\ s.st = slv.st /\ s.id = slv.id /\ s.err = slv.err /\ s.alReg = slv.alReg
        /\ s.bExplicitDevIdRequested = ctl.id
        /\ s.bEcatWaitForAlControlRes = slv.bEcatWaitForAlControlRes
        /\ s.off = slv.off /\ s.bEcatOutputUpdateRunning = slv.bEcatOutputUpdateRunning
        /\ PdMain(s) = PdMain(slv)
    BY <1>1, <2>1 DEF SlvType, PdMain, PdChannels
  <2>3. ctl \in Requests
    BY <1>1 DEF IInv, TypeOK
  <2>4. ShownInv(s)
    BY <1>1, <2>2, <2>3 DEF ShownInv, IdAsked, ErrShown, OpShut, OpRuns
  <2>5. NoAckWithId => ~(s.id /\ ctl.ack)
    BY <1>1, <2>2, NoIdKept DEF ShownInv
  <2>6. Good(s, slv')
    BY <1>1, <2>1, <2>4, <2>5, IndicationGood
  <2> QED
    BY <2>2, <2>6 DEF Good
<1>4. CASE SmChangeEvent \/ CheckSm1
  <2>1. CASE slv' = slv
    BY <1>1, <2>1, QuietGood DEF Quiet, Tells
  <2>2. CASE slv' # slv
    <3>1. Indication(slv, slv', slv.st, FALSE, NoErr)
      BY <1>1, <1>4, <2>2, SameStateIndicates
    <3> QED
      BY <1>1, <3>1, IndicationGood
  <2> QED
    BY <2>1, <2>2
<1>5. CASE PendingTransition
  <2>1. CASE slv.bEcatWaitForAlControlRes
    BY <1>1, <1>5, <2>1, AL_ControlResGood DEF PendingTransition
  <2>2. CASE ~slv.bEcatWaitForAlControlRes
    BY <1>1, <1>5, <2>2, QuietGood DEF PendingTransition, Quiet, Tells
  <2> QED
    BY <2>1, <2>2
<1>6. CASE CheckError
  <2>1. CASE Quiet(slv, slv')
    BY <1>1, <2>1, QuietGood
  <2>2. ASSUME NEW s, NEW code, SlvInv(s), Quiet(slv, s),
               Indication(s, slv', "SAFEOP", FALSE, code)
        PROVE  Good(slv, slv')
    <3>1. ShownInv(s) /\ s.st = slv.st /\ PdMain(s) = PdMain(slv)
      BY <1>1, <2>2, QuietGood DEF Good, Quiet, Tells, PdMain, PdChannels
    <3>2. Good(s, slv')
      BY <1>1, <2>2, <3>1, IndicationGood
    <3> QED
      BY <3>1, <3>2 DEF Good
  <2> QED
    BY <1>1, <1>6, <2>1, <2>2, CheckErrorIndicates
<1> QED
  BY <1>2, <1>3, <1>4, <1>5, <1>6 DEF Next, MainLoop

\* The invariant holds in every run, for every list of requests.
THEOREM ShownInvariance == Spec => []RInv
<1>1. Init => RInv
  <2>1. ASSUME Init PROVE ShownInv(slv)
    BY <2>1 DEF Init, SlvInit, ShownInv, IdAsked, ErrShown, OpShut, OpRuns
  <2> QED
    BY <2>1, InitEstablishes DEF RInv
<1>2. RInv /\ [Next]_vars => RInv'
  <2> SUFFICES ASSUME RInv, [Next]_vars PROVE RInv'
    OBVIOUS
  <2>1. IInv'
    BY StepKeeps DEF RInv
  <2>2. ShownInv(slv')
    BY StepGood DEF Good
  <2> QED
    BY <2>1, <2>2 DEF RInv
<1> QED
  BY <1>1, <1>2, PTL DEF Spec

\* Whenever OP is left with an error the sync manager of the outputs is shut
\* and the outputs are stopped in the same step, for every list of requests,
\* device ID included.
THEOREM LeavingOpSafe == Spec => LeavingOpShutsOutputs
<1>1. RInv /\ [Next]_vars =>
        [slv.alReg.st = "OP" /\ slv'.alReg.err =>
           /\ PdMain(slv) \subseteq slv'.off
           /\ ~slv'.bEcatOutputUpdateRunning]_vars
  <2> SUFFICES ASSUME RInv, [Next]_vars, slv.alReg.st = "OP", slv'.alReg.err
               PROVE  PdMain(slv) \subseteq slv'.off /\ ~slv'.bEcatOutputUpdateRunning
    OBVIOUS
  <2>1. slv.st = "OP"
    BY DEF RInv, IInv, SlvInv, Shown
  <2> QED
    BY <2>1, StepGood DEF Good
<1> QED
  BY <1>1, ShownInvariance, PTL DEF Spec, LeavingOpShutsOutputs

\* A master that reads OP can rely on its outputs being applied, unless it
\* both asks for the device ID and acknowledges.
THEOREM OpAppliesOutputs ==
  ASSUME NoAckWithId
  PROVE  Spec => []OpRunsOutputs
<1>1. RInv => OpRunsOutputs
  BY DEF RInv, IInv, SlvInv, Shown, ShownInv, OpRuns, OpRunsOutputs
<1> QED
  BY <1>1, ShownInvariance, PTL
-------------------------------------------------------------------------------
(* The refinement.                                                           *)

\* A quiet step is a step of ESM if only the request changes.
LEMMA QuietMoves ==
  ASSUME Quiet(slv, slv'), ctl' \in Requests
  PROVE  [E!Next]_(E!vars)
  BY DEF Quiet, Tells, E!Next, E!Request, E!vars

\* A request of the master is answered by one move of the diagram.
LEMMA AlControlEventMoves ==
  ASSUME RInv, AlControlEvent, NoAckWithId
  PROVE  [E!Next]_(E!vars)
<1>1. PICK s : /\ SlvInv(s) /\ Indication(s, slv', ctl.req, ctl.ack, NoErr)
               /\ s = [slv EXCEPT !.bExplicitDevIdRequested = ctl.id]
  BY AlControlEventIndicates DEF RInv
<1>2. /\ s.st = slv.st /\ s.id = slv.id /\ s.err = slv.err /\ s.alReg = slv.alReg
      /\ s.bEcatWaitForAlControlRes = slv.bEcatWaitForAlControlRes
  BY <1>1 DEF RInv, IInv, SlvInv, SlvType
<1>3. ~(s.id /\ ctl.ack)
  BY <1>2, NoIdKept DEF RInv, ShownInv
<1>4. ctl' = ctl /\ ~slv.bEcatWaitForAlControlRes /\ slv.st = slv.alReg.st
  BY DEF AlControlEvent, RInv, IInv, SlvInv, Shown
<1>5. CASE Quiet(s, slv')
  BY <1>2, <1>4, <1>5 DEF Quiet, Tells, E!vars
<1>6. CASE ~Ignored(s, ctl.req, ctl.ack) /\ Verdict(s, slv', ctl.req, NoErr, s.id /\ ctl.ack)
  <2>1. E!Heard
    BY <1>2, <1>4, <1>6 DEF Ignored, RInv, ShownInv, ErrShown, E!Heard
  <2>2. slv'.alReg \in [st : States, err : BOOLEAN, code : Codes]
        /\ slv'.bEcatWaitForAlControlRes \in BOOLEAN
    BY StepKeeps DEF RInv, IInv, SlvInv, SlvType, Next, MainLoop
  <2>3. CASE Pends(s, slv', ctl.req)
    BY <1>2, <1>4, <2>1, <2>2, <2>3 DEF Pends, E!Pend, E!Next
  <2>4. ASSUME ~slv'.bEcatWaitForAlControlRes, Acks(s, slv')
        PROVE  E!Next
    BY <1>2, <1>4, <2>1, <2>2, <2>4 DEF Acks, E!Ack, E!Heard, E!Next
  <2>5. ASSUME ~slv'.bEcatWaitForAlControlRes, Rises(s, slv', ctl.req, NoErr)
        PROVE  E!Next
    BY <1>2, <1>4, <2>1, <2>2, <2>5 DEF Rises, E!Rise, E!Next
  <2>6. ASSUME ~slv'.bEcatWaitForAlControlRes, Falls(s, slv', ctl.req, NoErr)
        PROVE  E!Next
    BY <1>2, <1>4, <2>1, <2>2, <2>6 DEF Falls, Below, States, E!States, E!Fall, E!Next
  <2>7. ASSUME ~slv'.bEcatWaitForAlControlRes, Refuses(s, slv', s.id /\ ctl.ack)
        PROVE  E!Next
    BY <1>2, <1>3, <1>4, <2>2, <2>7 DEF Refuses, E!Refuse, E!Next
  <2> QED
    BY <1>6, <2>3, <2>4, <2>5, <2>6, <2>7 DEF Verdict
<1> QED
  BY <1>1, <1>5, <1>6 DEF Indication

\* A repeated state is an acknowledgement, a fall or a refusal.
LEMMA SameStateMoves ==
  ASSUME RInv, SmChangeEvent \/ CheckSm1, NoAckWithId
  PROVE  [E!Next]_(E!vars)
<1>1. ctl' = ctl /\ slv.st = slv.alReg.st /\ slv.st \in States
  BY DEF SmChangeEvent, CheckSm1, masterVars, RInv, IInv, SlvInv, Shown, SlvType
<1>2. CASE slv' = slv
  BY <1>1, <1>2 DEF E!vars
<1>3. CASE slv' # slv
  <2>1. /\ Indication(slv, slv', slv.st, FALSE, NoErr)
        /\ ~Ignored(slv, slv.st, FALSE) => ~slv.err
    BY <1>3, SameStateIndicates DEF RInv
  <2>2. CASE Quiet(slv, slv')
    BY <1>1, <2>2 DEF Quiet, Tells, E!vars
  <2>3. CASE ~slv.err /\ Verdict(slv, slv', slv.st, NoErr, slv.id /\ FALSE)
    <3>1. /\ slv'.alReg \in [st : States, err : BOOLEAN, code : Codes]
          /\ slv'.bEcatWaitForAlControlRes \in BOOLEAN
      BY StepKeeps DEF RInv, IInv, SlvInv, SlvType, Next, MainLoop
    <3>2. slv.alReg.err => slv.bEcatWaitForAlControlRes
      BY <2>3 DEF RInv, ShownInv, ErrShown
    <3>3. ~Below(slv.st, slv.st) /\ <<slv.st, slv.st>> \notin E!Rises
      BY <1>1, Ranks DEF States, E!Rises
    <3>4. CASE Acks(slv, slv') /\ ~slv'.bEcatWaitForAlControlRes
      BY <1>1, <3>1, <3>2, <3>4 DEF Acks, E!Ack, E!Next
    <3>5. CASE Falls(slv, slv', slv.st, NoErr) /\ ~slv'.bEcatWaitForAlControlRes
      <4>1. slv'.alReg.st # slv.st /\ slv'.alReg.err
        BY <3>3, <3>5 DEF Falls
      <4> QED
        BY <1>1, <3>1, <3>5, <4>1 DEF Falls, Below, States, E!States, E!Fall, E!Next
    <3>6. CASE Refuses(slv, slv', slv.id /\ FALSE) /\ ~slv'.bEcatWaitForAlControlRes
      BY <1>1, <3>1, <3>6 DEF Refuses, E!Refuse, E!Next
    <3>7. ~Pends(slv, slv', slv.st) /\ ~Rises(slv, slv', slv.st, NoErr)
      BY <3>3 DEF Pends, Rises
    <3> QED
      BY <2>3, <3>4, <3>5, <3>6, <3>7 DEF Verdict
  <2> QED
    BY <2>1, <2>2, <2>3 DEF Indication
<1> QED
  BY <1>2, <1>3

\* The end of a transition in work is a confirmation or a refusal.
LEMMA PendingTransitionMoves ==
  ASSUME RInv, PendingTransition
  PROVE  [E!Next]_(E!vars)
<1>1. ctl' = ctl /\ slv \in SlvType
  BY DEF PendingTransition, masterVars, RInv, IInv, SlvInv
<1>2. CASE slv' = slv
  BY <1>1, <1>2 DEF E!vars
<1>3. CASE slv.bEcatWaitForAlControlRes /\ slv' = AL_ControlRes(slv)
  <2>1. slv.alReg.st = "SAFEOP"
    BY <1>3 DEF RInv, IInv, SlvInv, Waits, Shown
  <2>2. Confirms(slv, slv') \/ GivesUp(slv, slv') \/ slv' = slv
    BY <1>1, <1>3, AL_ControlResShows
  <2>3. /\ slv'.alReg \in [st : States, err : BOOLEAN, code : Codes]
        /\ slv'.bEcatWaitForAlControlRes \in BOOLEAN
    BY StepKeeps DEF RInv, IInv, SlvInv, SlvType, Next, MainLoop
  <2>4. CASE Confirms(slv, slv')
    BY <1>1, <1>3, <2>3, <2>4 DEF Confirms, E!Confirm, E!Next
  <2>5. CASE GivesUp(slv, slv')
    BY <1>1, <2>1, <2>3, <2>5 DEF GivesUp, E!Refuse, E!Next
  <2> QED
    BY <1>2, <2>2, <2>4, <2>5
<1> QED
  BY <1>2, <1>3 DEF PendingTransition

\* An error in the main loop is a fall from OP, with the error.
LEMMA CheckErrorMoves ==
  ASSUME RInv, CheckError, NoAckWithId
  PROVE  [E!Next]_(E!vars)
<1>1. ctl' = ctl /\ ctl \in Requests
  BY DEF CheckError, masterVars, RInv, IInv, TypeOK
<1>2. CASE Quiet(slv, slv')
  BY <1>1, <1>2, QuietMoves
<1>3. ASSUME NEW s, NEW code, SlvInv(s), Quiet(slv, s), s.bEcatOutputUpdateRunning,
             Indication(s, slv', "SAFEOP", FALSE, code), code # NoErr
      PROVE  [E!Next]_(E!vars)
  <2>1. s.st = "OP" /\ s.alReg = slv.alReg /\ slv.alReg.st = "OP" /\ ~slv.alReg.err
    BY <1>3 DEF SlvInv, Fit, Shown, Quiet, Tells, SlvType
  <2>2. CASE Quiet(s, slv')
    BY <1>1, <1>3, <2>2 DEF Quiet, Tells, E!vars
  <2>3. CASE Verdict(s, slv', "SAFEOP", code, s.id /\ FALSE)
    <3>1. /\ slv'.alReg \in [st : States, err : BOOLEAN, code : Codes]
          /\ slv'.bEcatWaitForAlControlRes \in BOOLEAN
      BY StepKeeps DEF RInv, IInv, SlvInv, SlvType, Next, MainLoop
    <3>2. CASE Acks(s, slv') /\ ~slv'.bEcatWaitForAlControlRes
      BY <1>1, <2>1, <3>1, <3>2 DEF Acks, E!Ack, E!Next
    <3>3. CASE Falls(s, slv', "SAFEOP", code) /\ ~slv'.bEcatWaitForAlControlRes
      BY <1>1, <1>3, <2>1, <3>1, <3>3 DEF Falls, Below, States, E!States, E!Fall, E!Next
    <3>4. ~Pends(s, slv', "SAFEOP") /\ ~Rises(s, slv', "SAFEOP", code)
          /\ ~Refuses(s, slv', s.id /\ FALSE)
      BY <2>1 DEF Pends, Rises, Refuses, E!Rises
    <3> QED
      BY <2>3, <3>2, <3>3, <3>4 DEF Verdict
  <2> QED
    BY <1>3, <2>2, <2>3 DEF Indication
<1> QED
  BY <1>2, <1>3, CheckErrorIndicates DEF RInv

\* What the master reads is a run of the EtherCAT state machine, unless it
\* both asks for the device ID and acknowledges.
THEOREM RefinesESM ==
  ASSUME NoAckWithId
  PROVE  Spec => ImplementsESM
<1>1. Init => E!Init
  BY DEF Init, SlvInit, E!Init
<1>2. RInv /\ RInv' /\ [Next]_vars => [E!Next]_(E!vars)
  <2> SUFFICES ASSUME RInv, RInv', [Next]_vars PROVE [E!Next]_(E!vars)
    OBVIOUS
  <2>1. ctl' \in Requests
    BY DEF RInv, IInv, TypeOK
  <2>2. CASE \/ PollProcessData \/ CheckTimer \/ ReadSm1 \/ NoEvent \/ Interrupt \/ Environment
             \/ UNCHANGED vars
    BY <2>1, <2>2, OthersQuiet, QuietMoves DEF RInv
  <2>3. CASE AlControlEvent
    BY <2>3, AlControlEventMoves
  <2>4. CASE SmChangeEvent \/ CheckSm1
    BY <2>4, SameStateMoves
  <2>5. CASE PendingTransition
    BY <2>5, PendingTransitionMoves
  <2>6. CASE CheckError
    BY <2>6, CheckErrorMoves
  <2> QED
    BY <2>2, <2>3, <2>4, <2>5, <2>6 DEF Next, MainLoop
<1> QED
  BY <1>1, <1>2, ShownInvariance, PTL DEF Spec, ImplementsESM, E!Spec
===============================================================================
