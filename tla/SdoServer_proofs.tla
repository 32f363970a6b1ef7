--------------------------- MODULE SdoServer_proofs ---------------------------
(***************************************************************************)
(* What SdoServer guarantees for any object dictionary (of entries with at *)
(* least one byte) and any size of the mailboxes.                          *)
(***************************************************************************)
EXTENDS SdoServer, TLAPS

(***************************************************************************)
(* The inductive invariant.  While a segment of the master is expected the *)
(* session holds the bytes handled so far, of one value; while an access   *)
(* of it is in work nothing but the mailbox's stop touches the session.    *)
(***************************************************************************)
JobIsTransfer ==
  job = NoJob \/ (job.dir \in {"up", "down"} /\ job.obj \in Objects)

PendIsAccess ==
  /\ pend = NoPend \/ (pend.kind # "none" /\ pend.obj \in Objects)
  /\ pend.kind = "write" => pend.val \in Values
  /\ pend.kind = "segread" => /\ sdo.data # NoData /\ sdo.index = pend.obj
                              /\ ~SmallUp(pend.obj)
  /\ pend.kind = "segwrite" =>
       /\ sdo.data.val \in Values /\ sdo.data = All(sdo.data.val, sdo.complete)
       /\ sdo.complete = Length[pend.obj]
  /\ pend.kind \in {"segread", "segwrite"} => job = NoJob \/ job.wait

WaitsForItsAccess ==
  job.wait => /\ pend.kind = (IF job.dir = "up" THEN "segread" ELSE "segwrite")
              /\ pend.obj = job.obj
              /\ job.dir = "down" => sdo.data.val = job.val

UploadHoldsValue ==
  job.dir = "up" =>
    /\ value[job.obj] \in seen /\ seen \subseteq Values
    /\ ~job.wait => got.val \in seen /\ sdo.data = All(got.val, sdo.complete)

DownloadHoldsValue ==
  job.dir = "down" =>
    /\ job.val \in Values
    /\ ~job.wait => sdo.data = All(job.val, job.done) /\ job.done < Length[job.obj]

Transfer == /\ SessionInStep
            /\ JobIsTransfer
            /\ WaitsForItsAccess
            /\ UploadHoldsValue
            /\ DownloadHoldsValue

IInv == /\ TypeOK
        /\ BufferIsOwned
        /\ NoProtocolError
        /\ ObjectsAreWhole
        /\ PendIsAccess
        /\ Transfer
-----------------------------------------------------------------------------
LEMMA ValuesFacts == Torn \notin Values /\ "null" \notin Values /\ "junk" \notin Values
BY ValuesAssumption

LEMMA LengthFacts == \A o \in Objects : Length[o] \in Nat /\ Length[o] > 0
BY LengthAssumption

LEMMA RoomFacts ==
  /\ InitRoom(SendMbxSize) \in Nat /\ InitRoom(SendMbxSize) > 0
  /\ InitRoom(ReceiveMbxSize) \in Nat /\ InitRoom(ReceiveMbxSize) > 0
  /\ SegRoom(SendMbxSize) \in Nat /\ SegRoom(SendMbxSize) > 0
  /\ SegRoom(ReceiveMbxSize) \in Nat /\ SegRoom(ReceiveMbxSize) > 0
BY MbxAssumption DEF InitRoom, SegRoom

LEMMA AllocatedFacts ==
  ASSUME NEW s
  PROVE  Allocated(s) \in 0..1 /\ (Allocated(s) = 1 <=> s.data # NoData)
BY DEF Allocated

LEMMA AllFacts ==
  ASSUME NEW v \in Values \cup {Torn, "junk"}, NEW n \in Nat
  PROVE  /\ All(v, n) \in Contents /\ All(v, n) # NoData
         /\ All(v, n).val = v /\ All(v, n).len = n
BY ValuesFacts DEF All, Contents, NoData, Torn

LEMMA JunkFacts == Junk \in Contents /\ NoData \in Contents /\ Junk # NoData
BY DEF Junk, NoData, Contents

(***************************************************************************)
(* A new session frees the buffer of the one before.                       *)
(***************************************************************************)
LEMMA NewSessionFacts ==
  ASSUME NEW s \in Sessions, s.blocks = Allocated(s), NEW o \in Objects, NEW d \in Contents
  PROVE  NewSession(s, o, d) =
           [service |-> s.service, data |-> d, blocks |-> IF d = NoData THEN 0 ELSE 1,
            complete |-> Length[o], handled |-> s.handled, toggle |-> "start", index |-> o]
<1>1. s.blocks - Allocated(s) + (IF d = NoData THEN 0 ELSE 1) = IF d = NoData THEN 0 ELSE 1
  BY AllocatedFacts
<1>2. NewSession(s, o, d) =
        [s EXCEPT !.toggle = "start", !.index = o, !.complete = Length[o], !.data = d,
                  !.blocks = IF d = NoData THEN 0 ELSE 1]
  BY <1>1 DEF NewSession
<1> QED BY <1>2 DEF Sessions

LEMMA EndSessionFacts ==
  ASSUME NEW s \in Sessions, s.blocks = Allocated(s)
  PROVE  EndSession(s) =
           [service |-> "down", data |-> NoData, blocks |-> 0, complete |-> s.complete,
            handled |-> 0, toggle |-> s.toggle, index |-> s.index]
<1>1. s.blocks - Allocated(s) = 0
  BY AllocatedFacts
<1>2. EndSession(s) = [[s EXCEPT !.data = NoData, !.blocks = 0] EXCEPT !.handled = 0, !.service = "down"]
  BY <1>1 DEF EndSession, FreeBuffer
<1> QED BY <1>2 DEF Sessions

LEMMA FreeBufferFacts ==
  ASSUME NEW s \in Sessions, s.blocks = Allocated(s)
  PROVE  FreeBuffer(s) =
           [service |-> s.service, data |-> NoData, blocks |-> 0, complete |-> s.complete,
            handled |-> s.handled, toggle |-> s.toggle, index |-> s.index]
<1>1. s.blocks - Allocated(s) = 0
  BY AllocatedFacts
<1>2. FreeBuffer(s) = [s EXCEPT !.data = NoData, !.blocks = 0]
  BY <1>1 DEF FreeBuffer
<1> QED BY <1>2 DEF Sessions

(***************************************************************************)
(* What continues the value before it, is more of this value.              *)
(***************************************************************************)
LEMMA PutFirst ==
  ASSUME NEW v, NEW n \in Nat
  PROVE  Put(Junk, 0, v, 0, n) = All(v, n)
BY JunkFacts DEF Put

LEMMA PutNext ==
  ASSUME NEW v, NEW k \in Nat, NEW n \in Nat
  PROVE  Put(All(v, k), k, v, k, n) = All(v, k + n)
BY DEF Put, All

(***************************************************************************)
(* Without a transfer nothing is claimed of one.                           *)
(***************************************************************************)
LEMMA TransferOver ==
  ASSUME job' = NoJob
  PROVE  Transfer'
BY DEF NoJob, Transfer, SessionInStep, JobIsTransfer, WaitsForItsAccess, UploadHoldsValue,
       DownloadHoldsValue

LEMMA NoJobType ==
  NoJob \in Jobs
BY DEF NoJob, Jobs, Entries

LEMMA NoPendType ==
  NoPend \in Accesses
BY DEF NoPend, Accesses, Entries

(***************************************************************************)
(* The values of the dictionary are values.                                *)
(***************************************************************************)
LEMMA ValueType ==
  ASSUME IInv
  PROVE  value \in [Objects -> Values]
BY DEF IInv, TypeOK, ObjectsAreWhole

LEMMA SdoType ==
  ASSUME IInv
  PROVE  sdo \in Sessions /\ sdo.blocks = Allocated(sdo)
BY DEF IInv, TypeOK, BufferIsOwned, Sessions

LEMMA InitIInv == Init => IInv
<1> SUFFICES ASSUME Init PROVE IInv
  OBVIOUS
<1>1. TypeOK
  BY NoJobType, NoPendType, JunkFacts DEF Init, TypeOK, Sessions, Entries
<1>2. BufferIsOwned /\ NoProtocolError
  BY DEF Init, BufferIsOwned, NoProtocolError, Allocated
<1>3. ObjectsAreWhole
  BY ValuesFacts DEF Init, ObjectsAreWhole
<1>4. PendIsAccess
  BY DEF Init, PendIsAccess, NoPend
<1>5. Transfer
  BY DEF Init, NoJob, Transfer, SessionInStep, JobIsTransfer, WaitsForItsAccess, UploadHoldsValue,
         DownloadHoldsValue
<1> QED BY <1>1, <1>2, <1>3, <1>4, <1>5 DEF IInv
-----------------------------------------------------------------------------
(* Steps beside the transfer.  *)

(***************************************************************************)
(* An object changes, by a request in one mail or by the application.      *)
(***************************************************************************)
LEMMA ValueChanges ==
  ASSUME IInv, value' \in [Objects -> Values], See(value'),
         UNCHANGED <<sdo, job, got, result>>,
         pend' = pend \/ (pend' = NoPend /\ ~job.wait)
  PROVE  IInv'
<1>1. job.dir = "up" => job.obj \in Objects
  BY DEF IInv, Transfer, JobIsTransfer, NoJob
<1>2. seen' \subseteq Values \cup {Torn} /\ (job.dir = "up" => seen' \subseteq Values)
  <2>1. CASE job.dir = "up"
    <3>1. seen' = seen \cup {value'[job.obj]}
      BY <2>1 DEF See
    <3>2. seen \subseteq Values
      BY <2>1 DEF IInv, Transfer, UploadHoldsValue
    <3> QED BY <1>1, <2>1, <3>1, <3>2
  <2>2. CASE job.dir # "up"
    BY <2>2 DEF See, IInv, TypeOK
  <2> QED BY <2>1, <2>2
<1>3. TypeOK'
  BY <1>2, NoPendType DEF IInv, TypeOK
<1>4. BufferIsOwned' /\ NoProtocolError'
  BY DEF IInv, BufferIsOwned, NoProtocolError, Allocated
<1>5. ObjectsAreWhole'
  BY ValuesFacts DEF ObjectsAreWhole
<1>6. PendIsAccess'
  BY DEF IInv, PendIsAccess, NoPend
<1>7. SessionInStep' /\ JobIsTransfer' /\ WaitsForItsAccess' /\ DownloadHoldsValue'
  BY DEF IInv, Transfer, SessionInStep, JobIsTransfer, WaitsForItsAccess, DownloadHoldsValue
<1>8. UploadHoldsValue'
  BY <1>1, <1>2 DEF See, IInv, Transfer, UploadHoldsValue
<1> QED BY <1>3, <1>4, <1>5, <1>6, <1>7, <1>8 DEF IInv, Transfer

(***************************************************************************)
(* An access in one mail is in work, or a read of this kind ends.          *)
(***************************************************************************)
LEMMA SmallAccess ==
  ASSUME IInv, ~job.wait,
         UNCHANGED <<sdo, value, job, got, result, seen>>,
         \/ pend' = NoPend
         \/ \E o \in Objects : pend' = [kind |-> "read", obj |-> o, val |-> Torn]
         \/ \E o \in Objects, v \in Values : pend' = [kind |-> "write", obj |-> o, val |-> v]
  PROVE  IInv'
<1>1. pend' \in Accesses
  BY NoPendType DEF Accesses, Entries
<1>2. TypeOK'
  BY <1>1 DEF IInv, TypeOK
<1>3. BufferIsOwned' /\ NoProtocolError' /\ ObjectsAreWhole'
  BY DEF IInv, BufferIsOwned, NoProtocolError, ObjectsAreWhole, Allocated
<1>4. PendIsAccess'
  BY DEF PendIsAccess, NoPend
<1>5. Transfer'
  BY DEF IInv, Transfer, SessionInStep, JobIsTransfer, WaitsForItsAccess, DownloadHoldsValue,
         UploadHoldsValue
<1> QED BY <1>2, <1>3, <1>4, <1>5 DEF IInv

LEMMA FreeMeansNoWait ==
  ASSUME IInv, Free
  PROVE  ~job.wait
BY DEF IInv, Free, Transfer, WaitsForItsAccess, NoPend

LEMMA ReadLaterIInv ==
  ASSUME IInv, NEW o \in Objects, ReadLater(o)
  PROVE  IInv'
<1>1. pend' = [kind |-> "read", obj |-> o, val |-> Torn]
  BY DEF ReadLater, NoPend
<1> QED BY <1>1, FreeMeansNoWait, SmallAccess DEF ReadLater

LEMMA WriteLaterIInv ==
  ASSUME IInv, NEW o \in Objects, NEW v \in Values, WriteLater(o, v)
  PROVE  IInv'
BY FreeMeansNoWait, SmallAccess DEF WriteLater

(***************************************************************************)
(* A write of all bytes of a value leaves values in the dictionary.        *)
(***************************************************************************)
LEMMA WriteFacts ==
  ASSUME IInv, NEW o \in Objects, NEW v \in Values
  PROVE  /\ OBJ_Write(o, All(v, Length[o]), Length[o]) = [value EXCEPT ![o] = v]
         /\ [value EXCEPT ![o] = v] \in [Objects -> Values]
<1>1. All(v, Length[o]).len = Length[o] /\ All(v, Length[o]).val = v
  BY DEF All
<1>2. OBJ_Write(o, All(v, Length[o]), Length[o]) = [value EXCEPT ![o] = v]
  BY <1>1 DEF OBJ_Write
<1>3. [value EXCEPT ![o] = v] \in [Objects -> Values]
  BY ValueType
<1> QED BY <1>2, <1>3

LEMMA WriteNowIInv ==
  ASSUME IInv, NEW o \in Objects, NEW v \in Values, WriteNow(o, v)
  PROVE  IInv'
<1>1. value' = [value EXCEPT ![o] = v]
  BY WriteFacts DEF WriteNow
<1>2. value' \in [Objects -> Values]
  BY <1>1, WriteFacts
<1> QED BY <1>2, ValueChanges DEF WriteNow

LEMMA ChangeIInv ==
  ASSUME IInv, NEW o \in Objects, Change(o)
  PROVE  IInv'
<1>1. PICK v \in Values : value' = [value EXCEPT ![o] = v]
  BY DEF Change
<1>2. value' \in [Objects -> Values]
  BY <1>1, ValueType
<1> QED BY <1>2, ValueChanges DEF Change

LEMMA LateSmallIInv ==
  ASSUME IInv, LateSmall
  PROVE  IInv'
<1>1. CASE Finish("read") /\ UNCHANGED <<sdo, value, job, got, result, seen>>
  <2>1. ~job.wait
    BY <1>1 DEF IInv, Transfer, WaitsForItsAccess, Finish
  <2> QED BY <1>1, <2>1, SmallAccess DEF Finish
<1>2. CASE /\ Finish("write")
           /\ value' \in {value, OBJ_Write(pend.obj, All(pend.val, Length[pend.obj]), Length[pend.obj])}
           /\ See(value')
           /\ UNCHANGED <<sdo, job, got, result>>
  <2>1. ~job.wait
    BY <1>2 DEF IInv, Transfer, WaitsForItsAccess, Finish
  <2>2. pend.obj \in Objects /\ pend.val \in Values
    BY <1>2 DEF IInv, PendIsAccess, Finish, NoPend
  <2>3. value' \in [Objects -> Values]
    <3>1. value' = value \/ value' = [value EXCEPT ![pend.obj] = pend.val]
      BY <1>2, <2>2, WriteFacts
    <3> QED BY <2>2, <3>1, ValueType, WriteFacts
  <2> QED BY <1>2, <2>1, <2>3, ValueChanges DEF Finish
<1> QED BY <1>1, <1>2 DEF LateSmall
-----------------------------------------------------------------------------
(* The transfer: its first request.  *)

(***************************************************************************)
(* A step that ends the transfer, for whatever reason but an error of the  *)
(* protocol, and leaves a session with its buffer or none.                 *)
(***************************************************************************)
LEMMA TransferEnds ==
  ASSUME IInv, NEW how \in {"done", "refused", "given up", "stopped"}, End(how),
         sdo' \in Sessions, sdo'.blocks = Allocated(sdo'),
         value' \in [Objects -> Values], got' \in Contents, UNCHANGED seen,
         pend' = NoPend \/ UNCHANGED <<sdo, pend>>
  PROVE  IInv'
<1>1. TypeOK'
  <2>1. pend' \in Accesses
    BY NoPendType DEF IInv, TypeOK
  <2> QED BY <2>1, NoJobType DEF IInv, TypeOK, End
<1>2. BufferIsOwned' /\ NoProtocolError' /\ ObjectsAreWhole'
  BY ValuesFacts DEF BufferIsOwned, NoProtocolError, ObjectsAreWhole, End, Allocated
<1>3. PendIsAccess'
  <2>1. CASE pend' = NoPend
    BY <2>1 DEF PendIsAccess, NoPend
  <2>2. CASE UNCHANGED <<sdo, pend>>
    BY <2>2 DEF IInv, PendIsAccess, End
  <2> QED BY <2>1, <2>2
<1>4. Transfer'
  BY TransferOver DEF End
<1> QED BY <1>1, <1>2, <1>3, <1>4 DEF IInv

LEMMA GotType == ASSUME IInv PROVE got \in Contents
BY DEF IInv, TypeOK

LEMMA UploadRefusedIInv ==
  ASSUME IInv, NEW o \in Objects, UploadRefused(o)
  PROVE  IInv'
<1>1. /\ NewSession(sdo, o, NoData) =
           [service |-> sdo.service, data |-> NoData, blocks |-> 0, complete |-> Length[o],
            handled |-> sdo.handled, toggle |-> "start", index |-> o]
      /\ NewSession(sdo, o, Junk) =
           [service |-> sdo.service, data |-> Junk, blocks |-> 1, complete |-> Length[o],
            handled |-> sdo.handled, toggle |-> "start", index |-> o]
  BY NewSessionFacts, SdoType, JunkFacts
<1>2. sdo' \in Sessions /\ sdo'.blocks = Allocated(sdo')
  <2>1. CASE sdo' = NewSession(sdo, o, NoData)
    BY <1>1, <2>1, SdoType, LengthFacts, JunkFacts DEF Sessions, Entries, Allocated
  <2>2. CASE sdo' = [NewSession(sdo, o, Junk) EXCEPT !.handled = InitRoom(SendMbxSize)]
    <3>1. sdo' = [service |-> sdo.service, data |-> Junk, blocks |-> 1, complete |-> Length[o],
                  handled |-> InitRoom(SendMbxSize), toggle |-> "start", index |-> o]
      BY <1>1, <2>2
    <3> QED BY <3>1, SdoType, LengthFacts, RoomFacts, JunkFacts DEF Sessions, Entries, Allocated
  <2> QED BY <2>1, <2>2 DEF UploadRefused
<1>3. pend' = NoPend /\ End("refused")
  BY DEF UploadRefused, Idle, Free
<1> QED BY <1>2, <1>3, ValueType, GotType, TransferEnds DEF UploadRefused

LEMMA DownloadRefusedIInv ==
  ASSUME IInv, NEW o \in Objects, DownloadRefused(o)
  PROVE  IInv'
<1>1. sdo' = [service |-> sdo.service, data |-> NoData, blocks |-> 0, complete |-> Length[o],
              handled |-> sdo.handled, toggle |-> "start", index |-> o]
  BY NewSessionFacts, SdoType, JunkFacts DEF DownloadRefused
<1>2. sdo' \in Sessions /\ sdo'.blocks = Allocated(sdo')
  BY <1>1, SdoType, LengthFacts, JunkFacts DEF Sessions, Entries, Allocated
<1>3. pend' = NoPend /\ End("refused")
  BY DEF DownloadRefused, Idle, Free
<1> QED BY <1>2, <1>3, ValueType, GotType, TransferEnds DEF DownloadRefused

LEMMA StartUploadIInv ==
  ASSUME IInv, NEW o \in Objects, StartUpload(o)
  PROVE  IInv'
<1> DEFINE n == InitRoom(SendMbxSize)
<1>1. value[o] \in Values /\ Length[o] \in Nat /\ n \in Nat /\ n < Length[o]
  BY ValueType, LengthFacts, RoomFacts DEF StartUpload, SmallUp
<1>2. sdo' = [service |-> "up", data |-> All(value[o], Length[o]), blocks |-> 1,
              complete |-> Length[o], handled |-> n, toggle |-> "start", index |-> o]
  <2>1. All(value[o], Length[o]) \in Contents /\ All(value[o], Length[o]) # NoData
    BY <1>1, AllFacts
  <2>2. NewSession(sdo, o, All(value[o], Length[o])) =
          [service |-> sdo.service, data |-> All(value[o], Length[o]), blocks |-> 1,
           complete |-> Length[o], handled |-> sdo.handled, toggle |-> "start", index |-> o]
    BY <2>1, NewSessionFacts, SdoType
  <2>3. sdo' = [NewSession(sdo, o, All(value[o], Length[o])) EXCEPT !.service = "up", !.handled = n]
    BY DEF StartUpload, Uploading
  <2> HIDE DEF n
  <2>5. sdo' = [[service |-> sdo.service, data |-> All(value[o], Length[o]), blocks |-> 1,
                 complete |-> Length[o], handled |-> sdo.handled, toggle |-> "start", index |-> o]
                  EXCEPT !.service = "up", !.handled = n]
    BY <2>2, <2>3, Zenon
  <2> QED BY <2>5
<1>3. job' = [dir |-> "up", obj |-> o, val |-> Torn, done |-> 0, toggle |-> "0", wait |-> FALSE]
  BY DEF StartUpload, NoJob
<1>4. got' = All(value[o], n)
  BY <1>1, PutFirst DEF StartUpload
<1>5. /\ All(value[o], Length[o]) \in Contents /\ All(value[o], Length[o]) # NoData
      /\ got' \in Contents /\ got'.val = value[o] /\ got'.len = n
  BY <1>1, <1>4, AllFacts
<1> HIDE DEF n
<1>6. UNCHANGED <<pend, value, result>> /\ seen' = {value[o]} /\ pend' = NoPend
  BY DEF StartUpload, Idle, Free
<1>7. TypeOK'
  <2>1. sdo' \in Sessions
    BY <1>1, <1>2, <1>5 DEF Sessions, Entries
  <2>2. job' \in Jobs
    BY <1>3 DEF Jobs, Entries
  <2> QED BY <1>1, <1>5, <1>6, <2>1, <2>2 DEF IInv, TypeOK
<1>8. BufferIsOwned'
  BY <1>2, <1>5 DEF BufferIsOwned, Allocated
<1>9. NoProtocolError' /\ ObjectsAreWhole'
  BY <1>6 DEF IInv, NoProtocolError, ObjectsAreWhole
<1>10. PendIsAccess'
  BY <1>6 DEF PendIsAccess, NoPend
<1>11. SessionInStep'
  BY <1>1, <1>2, <1>3, <1>5 DEF SessionInStep
<1>12. JobIsTransfer' /\ WaitsForItsAccess' /\ DownloadHoldsValue'
  BY <1>3 DEF JobIsTransfer, WaitsForItsAccess, DownloadHoldsValue
<1>13. UploadHoldsValue'
  BY <1>1, <1>2, <1>3, <1>5, <1>6 DEF UploadHoldsValue
<1> QED BY <1>7, <1>8, <1>9, <1>10, <1>11, <1>12, <1>13 DEF IInv, Transfer

LEMMA StartUploadLaterIInv ==
  ASSUME IInv, NEW o \in Objects, StartUploadLater(o)
  PROVE  IInv'
<1>1. value[o] \in Values /\ Length[o] \in Nat
  BY ValueType, LengthFacts
<1>2. sdo' = [service |-> "up", data |-> Junk, blocks |-> 1, complete |-> Length[o],
              handled |-> sdo.handled, toggle |-> "start", index |-> o]
  <2>1. NewSession(sdo, o, Junk) =
          [service |-> sdo.service, data |-> Junk, blocks |-> 1, complete |-> Length[o],
           handled |-> sdo.handled, toggle |-> "start", index |-> o]
    BY NewSessionFacts, SdoType, JunkFacts
  <2> QED BY <2>1 DEF StartUploadLater
<1>3. job' = [dir |-> "up", obj |-> o, val |-> Torn, done |-> 0, toggle |-> "0", wait |-> TRUE]
  BY DEF StartUploadLater, NoJob
<1>4. pend' = [kind |-> "segread", obj |-> o, val |-> Torn]
  BY DEF StartUploadLater, NoPend
<1>5. UNCHANGED <<value, got, result>> /\ seen' = {value[o]} /\ ~SmallUp(o)
  BY DEF StartUploadLater
<1>6. TypeOK'
  <2>1. sdo' \in Sessions
    BY <1>1, <1>2, SdoType, JunkFacts DEF Sessions, Entries
  <2>2. job' \in Jobs
    BY <1>3 DEF Jobs, Entries
  <2>3. pend' \in Accesses
    BY <1>4 DEF Accesses, Entries
  <2> QED BY <1>1, <1>5, <2>1, <2>2, <2>3 DEF IInv, TypeOK
<1>7. BufferIsOwned'
  BY <1>2, JunkFacts DEF BufferIsOwned, Allocated
<1>8. NoProtocolError' /\ ObjectsAreWhole'
  BY <1>5 DEF IInv, NoProtocolError, ObjectsAreWhole
<1>9. PendIsAccess'
  BY <1>2, <1>3, <1>4, <1>5, JunkFacts DEF PendIsAccess, SmallUp
<1>10. SessionInStep' /\ JobIsTransfer' /\ WaitsForItsAccess' /\ DownloadHoldsValue'
  BY <1>3, <1>4 DEF SessionInStep, JobIsTransfer, WaitsForItsAccess, DownloadHoldsValue
<1>11. UploadHoldsValue'
  BY <1>1, <1>3, <1>5 DEF UploadHoldsValue
<1> QED BY <1>6, <1>7, <1>8, <1>9, <1>10, <1>11 DEF IInv, Transfer

LEMMA StartDownloadIInv ==
  ASSUME IInv, NEW o \in Objects, NEW v \in Values, StartDownload(o, v)
  PROVE  IInv'
<1> DEFINE n == InitRoom(ReceiveMbxSize)
<1>1. Length[o] \in Nat /\ n \in Nat /\ n < Length[o]
  BY LengthFacts, RoomFacts DEF StartDownload, SmallDown
<1>2. sdo' = [service |-> "down", data |-> All(v, n), blocks |-> 1, complete |-> Length[o],
              handled |-> n, toggle |-> "start", index |-> o]
  <2>1. Put(Junk, 0, v, 0, n) = All(v, n)
    BY <1>1, PutFirst
  <2>2. All(v, n) \in Contents /\ All(v, n) # NoData
    BY <1>1, AllFacts
  <2>3. NewSession(sdo, o, All(v, n)) =
          [service |-> sdo.service, data |-> All(v, n), blocks |-> 1,
           complete |-> Length[o], handled |-> sdo.handled, toggle |-> "start", index |-> o]
    BY <2>2, NewSessionFacts, SdoType
  <2>4. sdo' = [NewSession(sdo, o, All(v, n)) EXCEPT !.service = "down", !.handled = n]
    BY <2>1 DEF StartDownload, Downloading
  <2> HIDE DEF n
  <2>5. sdo' = [[service |-> sdo.service, data |-> All(v, n), blocks |-> 1,
                 complete |-> Length[o], handled |-> sdo.handled, toggle |-> "start", index |-> o]
                  EXCEPT !.service = "down", !.handled = n]
    BY <2>3, <2>4, Zenon
  <2> QED BY <2>5
<1>3. job' = [dir |-> "down", obj |-> o, val |-> v, done |-> n, toggle |-> "0", wait |-> FALSE]
  BY DEF StartDownload, NoJob
<1>4. All(v, n) \in Contents /\ All(v, n) # NoData
  BY <1>1, AllFacts
<1> HIDE DEF n
<1>5. UNCHANGED <<pend, value, got, result, seen>> /\ pend' = NoPend
  BY DEF StartDownload, Idle, Free
<1>6. TypeOK'
  <2>1. sdo' \in Sessions
    BY <1>1, <1>2, <1>4 DEF Sessions, Entries
  <2>2. job' \in Jobs
    BY <1>1, <1>3 DEF Jobs, Entries
  <2> QED BY <1>5, <2>1, <2>2 DEF IInv, TypeOK
<1>7. BufferIsOwned'
  BY <1>2, <1>4 DEF BufferIsOwned, Allocated
<1>8. NoProtocolError' /\ ObjectsAreWhole'
  BY <1>5 DEF IInv, NoProtocolError, ObjectsAreWhole
<1>9. PendIsAccess'
  BY <1>5 DEF PendIsAccess, NoPend
<1>10. SessionInStep'
  BY <1>1, <1>2, <1>3, <1>4 DEF SessionInStep
<1>11. JobIsTransfer' /\ WaitsForItsAccess' /\ UploadHoldsValue'
  BY <1>3 DEF JobIsTransfer, WaitsForItsAccess, UploadHoldsValue
<1>12. DownloadHoldsValue'
  BY <1>1, <1>2, <1>3 DEF DownloadHoldsValue
<1> QED BY <1>6, <1>7, <1>8, <1>9, <1>10, <1>11, <1>12 DEF IInv, Transfer

LEMMA GiveUpIInv ==
  ASSUME IInv, GiveUp
  PROVE  IInv'
BY SdoType, ValueType, GotType, TransferEnds DEF GiveUp
-----------------------------------------------------------------------------
(* The transfer: its segments.  *)

(***************************************************************************)
(* A segment of an upload continues what the master has, and the last one  *)
(* completes it.                                                           *)
(***************************************************************************)
LEMMA UploadInStep ==
  ASSUME IInv, MayAsk("up")
  PROVE  /\ sdo.service = "up" /\ sdo.toggle # job.toggle /\ sdo.index = job.obj
         /\ job.obj \in Objects /\ sdo.complete = Length[job.obj] /\ sdo.complete \in Nat
         /\ sdo.handled = got.len /\ sdo.handled \in Nat /\ sdo.handled <= sdo.complete
         /\ sdo.data = All(got.val, sdo.complete) /\ got = All(got.val, got.len)
         /\ got.val \in Values /\ got.val \in seen /\ pend = NoPend
<1>1. job # NoJob /\ job.dir = "up" /\ ~job.wait /\ pend = NoPend
  BY DEF MayAsk, Free, NoJob
<1>2. job.obj \in Objects
  BY <1>1 DEF IInv, Transfer, JobIsTransfer
<1>3. SessionInStep /\ UploadHoldsValue
  BY DEF IInv, Transfer
<1>4. got = All(got.val, got.len)
  BY DEF IInv, TypeOK, Contents, All
<1> QED BY <1>1, <1>2, <1>3, <1>4, SdoType DEF SessionInStep, UploadHoldsValue, Sessions

LEMMA UploadBytes ==
  ASSUME IInv, UploadSegment
  PROVE  /\ SizeUp(sdo) \in Nat
         /\ got' = All(got.val, sdo.handled + SizeUp(sdo))
         /\ sdo.handled + SizeUp(sdo) <= sdo.complete
         /\ LastUp(sdo) => sdo.handled + SizeUp(sdo) = sdo.complete
         /\ sdo' = UploadSegmentInd(sdo, job.toggle)
         /\ IF LastUp(sdo) THEN End("done")
            ELSE job' = [job EXCEPT !.toggle = Toggled(@)] /\ UNCHANGED result
<1>1. MayAsk("up")
  BY DEF UploadSegment
<1>2. /\ SizeUp(sdo) \in Nat /\ sdo.handled + SizeUp(sdo) <= sdo.complete
      /\ LastUp(sdo) => sdo.handled + SizeUp(sdo) = sdo.complete
  BY <1>1, UploadInStep, RoomFacts DEF SizeUp, LastUp
<1>3. /\ sdo' = UploadSegmentInd(sdo, job.toggle)
      /\ got' = Put(got, got.len, Part(sdo.data, sdo.handled, SizeUp(sdo)), sdo.handled, SizeUp(sdo))
      /\ IF LastUp(sdo) THEN End("done")
         ELSE job' = [job EXCEPT !.toggle = Toggled(@)] /\ UNCHANGED result
  BY <1>1, UploadInStep DEF UploadSegment
<1>4. Part(sdo.data, sdo.handled, SizeUp(sdo)) = got.val
  BY <1>1, <1>2, UploadInStep DEF Part, All
<1>5. got' = All(got.val, sdo.handled + SizeUp(sdo))
  <2>1. got' = Put(All(got.val, sdo.handled), sdo.handled, got.val, sdo.handled, SizeUp(sdo))
    BY <1>1, <1>3, <1>4, UploadInStep
  <2> QED BY <1>1, <1>2, <2>1, UploadInStep, PutNext
<1> QED BY <1>2, <1>3, <1>5

LEMMA UploadSegmentIInv ==
  ASSUME IInv, UploadSegment
  PROVE  IInv'
<1> DEFINE n == sdo.handled + SizeUp(sdo)
<1>1. MayAsk("up") /\ pend' = NoPend /\ UNCHANGED <<pend, value, seen>>
  BY DEF UploadSegment, MayAsk, Free
<1>2. /\ n \in Nat /\ n <= sdo.complete /\ got' = All(got.val, n)
      /\ got' \in Contents /\ got'.len = n /\ got'.val = got.val
  BY <1>1, UploadBytes, UploadInStep, AllFacts
<1> DEFINE m == [sdo EXCEPT !.toggle = job.toggle]
<1>3. job.toggle \in {"0", "1"} /\ Toggled(job.toggle) \in {"0", "1"} /\ Toggled(job.toggle) # job.toggle
  BY DEF IInv, TypeOK, Jobs, Toggled
<1>4. /\ m = [service |-> sdo.service, data |-> sdo.data, blocks |-> sdo.blocks,
              complete |-> sdo.complete, handled |-> sdo.handled, toggle |-> job.toggle,
              index |-> sdo.index]
      /\ m \in Sessions /\ m.blocks = Allocated(m)
  BY <1>3, SdoType DEF Sessions, Allocated
<1>5. CASE LastUp(sdo)
  <2>1. sdo' = EndSession(m) /\ End("done")
    BY <1>5, UploadBytes DEF UploadSegmentInd
  <2> HIDE DEF m
  <2>2. sdo' = [service |-> "down", data |-> NoData, blocks |-> 0, complete |-> m.complete,
                handled |-> 0, toggle |-> m.toggle, index |-> m.index]
    BY <1>4, <2>1, EndSessionFacts
  <2>3. sdo' \in Sessions /\ sdo'.blocks = Allocated(sdo')
    BY <1>4, <2>2, JunkFacts DEF Sessions, Allocated
  <2> QED BY <1>1, <1>2, <2>1, <2>3, ValueType, TransferEnds
<1>6. CASE ~LastUp(sdo)
  <2>1. /\ sdo' = [m EXCEPT !.handled = n]
        /\ job' = [job EXCEPT !.toggle = Toggled(@)] /\ result' = result
    <3>1. sdo' = [m EXCEPT !.handled = @ + SizeUp(sdo)]
      BY <1>6, UploadBytes DEF UploadSegmentInd
    <3>2. m.handled = sdo.handled
      BY <1>4
    <3> QED BY <1>6, <3>1, <3>2, UploadBytes
  <2> HIDE DEF m, n
  <2>2. sdo' = [service |-> sdo.service, data |-> sdo.data, blocks |-> sdo.blocks,
                complete |-> sdo.complete, handled |-> n, toggle |-> job.toggle,
                index |-> sdo.index]
    BY <1>4, <2>1
  <2>3. job' = [dir |-> job.dir, obj |-> job.obj, val |-> job.val, done |-> job.done,
                toggle |-> Toggled(job.toggle), wait |-> job.wait]
    BY <2>1 DEF IInv, TypeOK, Jobs
  <2>4. TypeOK'
    <3>1. sdo' \in Sessions
      BY <1>2, <1>3, <2>2, SdoType DEF Sessions
    <3>2. job' \in Jobs
      BY <1>3, <2>3 DEF IInv, TypeOK, Jobs
    <3> QED BY <1>1, <1>2, <2>1, <3>1, <3>2 DEF IInv, TypeOK
  <2>5. BufferIsOwned' /\ NoProtocolError' /\ ObjectsAreWhole'
    BY <1>1, <2>1, <2>2 DEF IInv, BufferIsOwned, Allocated, NoProtocolError, ObjectsAreWhole
  <2>6. PendIsAccess'
    BY <1>1 DEF PendIsAccess, NoPend
  <2>7. job.dir = "up" /\ ~job.wait
    BY <1>1 DEF MayAsk
  <2>8. SessionInStep'
    <3>1. sdo.data # NoData
      BY <2>7 DEF IInv, Transfer, SessionInStep, NoJob
    <3> QED BY <1>1, <1>2, <1>3, <2>2, <2>3, <2>7, <3>1, UploadInStep DEF SessionInStep
  <2>9. JobIsTransfer' /\ WaitsForItsAccess' /\ DownloadHoldsValue'
    BY <1>1, <2>3, <2>7, UploadInStep DEF JobIsTransfer, WaitsForItsAccess, DownloadHoldsValue
  <2>10. UploadHoldsValue'
    BY <1>1, <1>2, <2>2, <2>3, <2>7, UploadInStep DEF UploadHoldsValue, IInv, Transfer
  <2> QED BY <2>4, <2>5, <2>6, <2>8, <2>9, <2>10 DEF IInv, Transfer
<1> QED BY <1>5, <1>6
(***************************************************************************)
(* A segment of a download is accepted, and its bytes continue those in    *)
(* the buffer.                                                             *)
(***************************************************************************)
LEMMA DownloadInStep ==
  ASSUME IInv, MayAsk("down")
  PROVE  /\ sdo.service = "down" /\ sdo.toggle # job.toggle /\ sdo.index = job.obj
         /\ sdo.data # NoData /\ sdo.data = All(job.val, job.done)
         /\ job.obj \in Objects /\ sdo.complete = Length[job.obj] /\ sdo.complete \in Nat
         /\ sdo.handled = job.done /\ job.done \in Nat /\ job.done < sdo.complete
         /\ job.val \in Values /\ pend = NoPend
<1>1. job # NoJob /\ job.dir = "down" /\ ~job.wait /\ pend = NoPend
  BY DEF MayAsk, Free, NoJob
<1>2. job.obj \in Objects
  BY <1>1 DEF IInv, Transfer, JobIsTransfer
<1>3. SessionInStep /\ DownloadHoldsValue
  BY DEF IInv, Transfer
<1>4. job.done \in Nat
  BY DEF IInv, TypeOK, Jobs
<1> QED BY <1>1, <1>2, <1>3, <1>4, LengthFacts DEF SessionInStep, DownloadHoldsValue

LEMMA SegmentAccepted ==
  ASSUME IInv, MayAsk("down")
  PROVE  /\ Accepted
         /\ SizeDown \in Nat /\ SizeDown = Saved(sdo, LastDown)
         /\ ~LastDown => SizeDown = Saved(sdo, FALSE)
         /\ LastDown => job.done + SizeDown = sdo.complete
         /\ ~LastDown => job.done + SizeDown < sdo.complete
<1>1. /\ SizeDown \in Nat
      /\ LastDown => job.done + SizeDown = sdo.complete
      /\ ~LastDown => job.done + SizeDown < sdo.complete
  BY DownloadInStep, RoomFacts DEF SizeDown, LastDown
<1>2. SizeDown = Saved(sdo, LastDown) /\ (~LastDown => SizeDown = Saved(sdo, FALSE))
  BY DownloadInStep DEF SizeDown, Saved, Rest
<1>3. LengthOk(sdo, LastDown, SizeDown)
  BY DownloadInStep, RoomFacts DEF SizeDown, LastDown, LengthOk, Rest
<1>4. Accepted
  BY <1>3, DownloadInStep DEF Accepted
<1> QED BY <1>1, <1>2, <1>4

LEMMA ReceivedFacts ==
  ASSUME IInv, MayAsk("down"), NEW last \in BOOLEAN, last = LastDown
  PROVE  /\ Received(sdo, job.toggle, job.val, job.done, last) =
              [service |-> "down", data |-> All(job.val, job.done + SizeDown),
               blocks |-> sdo.blocks, complete |-> sdo.complete, handled |-> sdo.handled,
               toggle |-> job.toggle, index |-> job.obj]
         /\ Received(sdo, job.toggle, job.val, job.done, last) \in Sessions
         /\ Received(sdo, job.toggle, job.val, job.done, last).blocks =
              Allocated(Received(sdo, job.toggle, job.val, job.done, last))
<1> DEFINE s == Received(sdo, job.toggle, job.val, job.done, last)
           d == All(job.val, job.done + SizeDown)
<1>1. Saved(sdo, last) = SizeDown
  BY SegmentAccepted
<1>2. Put(sdo.data, sdo.handled, job.val, job.done, Saved(sdo, last)) = d
  BY <1>1, DownloadInStep, SegmentAccepted, PutNext
<1>3. s = [sdo EXCEPT !.toggle = job.toggle, !.data = d]
  BY <1>2 DEF Received
<1>4. d \in Contents /\ d # NoData
  BY DownloadInStep, SegmentAccepted, AllFacts
<1>5. s = [service |-> "down", data |-> d, blocks |-> sdo.blocks, complete |-> sdo.complete,
           handled |-> sdo.handled, toggle |-> job.toggle, index |-> job.obj]
  <2> HIDE DEF s, d
  <2> QED BY <1>3, SdoType, DownloadInStep DEF Sessions
<1>6. sdo.blocks = 1 /\ job.toggle \in {"0", "1"}
  BY SdoType, DownloadInStep DEF Allocated, IInv, TypeOK, Jobs
<1>7. s \in Sessions /\ s.blocks = Allocated(s)
  <2> HIDE DEF s, d
  <2> QED BY <1>4, <1>5, <1>6, SdoType, DownloadInStep DEF Sessions, Allocated, Entries
<1> QED BY <1>5, <1>7

LEMMA DownloadSegmentIInv ==
  ASSUME IInv, DownloadSegment
  PROVE  IInv'
<1>1. MayAsk("down") /\ ~LastDown /\ UNCHANGED <<pend, value, got, seen>> /\ pend' = NoPend
  BY DEF DownloadSegment, MayAsk, Free
<1> DEFINE n == job.done + SizeDown
           s == Received(sdo, job.toggle, job.val, job.done, FALSE)
<1>2. n \in Nat /\ n < sdo.complete
  <2>1. SizeDown \in Nat /\ job.done + SizeDown < sdo.complete
    BY <1>1, SegmentAccepted, Zenon
  <2>2. job.done \in Nat
    BY <1>1, DownloadInStep
  <2> QED BY <2>1, <2>2
<1> FALSE = LastDown
  BY <1>1 DEF LastDown
<1>3. s = [service |-> "down", data |-> All(job.val, n), blocks |-> sdo.blocks,
           complete |-> sdo.complete, handled |-> sdo.handled, toggle |-> job.toggle,
           index |-> job.obj]
  BY <1>1, ReceivedFacts
<1>4. /\ sdo' = [s EXCEPT !.handled = @ + Saved(sdo, FALSE)]
      /\ job' = [job EXCEPT !.toggle = Toggled(@), !.done = @ + SizeDown] /\ UNCHANGED result
  BY <1>1, SegmentAccepted DEF DownloadSegment
<1>5. Saved(sdo, FALSE) = SizeDown
  BY <1>1, SegmentAccepted
<1>6. s \in Sessions /\ s.blocks = Allocated(s)
  BY <1>1, ReceivedFacts
<1>7. sdo' = [s EXCEPT !.handled = n]
  <2> HIDE DEF s
  <2> QED BY <1>1, <1>3, <1>4, <1>5, DownloadInStep
<1>8. All(job.val, n) \in Contents /\ All(job.val, n) # NoData
  BY <1>1, <1>2, DownloadInStep, AllFacts
<1>9. job' = [dir |-> job.dir, obj |-> job.obj, val |-> job.val, done |-> n,
              toggle |-> Toggled(job.toggle), wait |-> job.wait]
  BY <1>4 DEF IInv, TypeOK, Jobs
<1>10. job.toggle \in {"0", "1"} /\ Toggled(job.toggle) \in {"0", "1"} /\ Toggled(job.toggle) # job.toggle
  BY DEF IInv, TypeOK, Jobs, Toggled
<1> HIDE DEF s, n
<1>11. sdo' = [service |-> "down", data |-> All(job.val, n), blocks |-> sdo.blocks,
               complete |-> sdo.complete, handled |-> n, toggle |-> job.toggle,
               index |-> job.obj]
  BY <1>3, <1>7
<1>12. TypeOK'
  <2>1. sdo' \in Sessions
    BY <1>1, <1>2, <1>8, <1>10, <1>11, SdoType, DownloadInStep DEF Sessions, Entries
  <2>2. job' \in Jobs
    BY <1>2, <1>9, <1>10 DEF IInv, TypeOK, Jobs
  <2> QED BY <1>1, <1>4, <2>1, <2>2 DEF IInv, TypeOK
<1>13. BufferIsOwned'
  BY <1>1, <1>8, <1>11, SdoType, DownloadInStep DEF BufferIsOwned, Allocated
<1>14. NoProtocolError' /\ ObjectsAreWhole'
  BY <1>1, <1>4 DEF IInv, NoProtocolError, ObjectsAreWhole
<1>15. PendIsAccess'
  BY <1>1 DEF PendIsAccess, NoPend
<1>16. job.dir = "down" /\ ~job.wait
  BY <1>1 DEF MayAsk
<1>17. SessionInStep'
  BY <1>1, <1>2, <1>8, <1>9, <1>10, <1>11, <1>16, DownloadInStep DEF SessionInStep
<1>18. JobIsTransfer' /\ WaitsForItsAccess' /\ UploadHoldsValue'
  BY <1>1, <1>9, <1>16, DownloadInStep DEF JobIsTransfer, WaitsForItsAccess, UploadHoldsValue
<1>19. DownloadHoldsValue'
  BY <1>1, <1>2, <1>9, <1>11, DownloadInStep DEF DownloadHoldsValue
<1> QED BY <1>12, <1>13, <1>14, <1>15, <1>17, <1>18, <1>19 DEF IInv, Transfer

(***************************************************************************)
(* What the last segment hands to OBJ_Write.                               *)
(***************************************************************************)
LEMMA LastSegmentData ==
  ASSUME IInv, MayAsk("down"), LastDown
  PROVE  LET s == Received(sdo, job.toggle, job.val, job.done, TRUE)
         IN  /\ s = [service |-> "down", data |-> All(job.val, Length[job.obj]),
                     blocks |-> sdo.blocks, complete |-> Length[job.obj],
                     handled |-> sdo.handled, toggle |-> job.toggle, index |-> job.obj]
             /\ s \in Sessions /\ s.blocks = Allocated(s)
             /\ OBJ_Write(s.index, s.data, s.complete) = [value EXCEPT ![job.obj] = job.val]
<1> DEFINE s == Received(sdo, job.toggle, job.val, job.done, TRUE)
<1>1. s \in Sessions /\ s.blocks = Allocated(s)
  BY ReceivedFacts
<1>2. s = [service |-> "down", data |-> All(job.val, Length[job.obj]),
           blocks |-> sdo.blocks, complete |-> Length[job.obj],
           handled |-> sdo.handled, toggle |-> job.toggle, index |-> job.obj]
  BY ReceivedFacts, SegmentAccepted, DownloadInStep
<1> HIDE DEF s
<1>3. OBJ_Write(s.index, s.data, s.complete) = [value EXCEPT ![job.obj] = job.val]
  BY <1>2, WriteFacts, DownloadInStep
<1> QED BY <1>1, <1>2, <1>3 DEF s

LEMMA LastSegmentIInv ==
  ASSUME IInv, LastSegment
  PROVE  IInv'
<1> DEFINE s == Received(sdo, job.toggle, job.val, job.done, TRUE)
<1>1. MayAsk("down") /\ LastDown /\ UNCHANGED <<pend, got, seen>> /\ pend' = NoPend
  BY DEF LastSegment, MayAsk, Free
<1>2. /\ sdo' = EndSession(s)
      /\ \/ value' = [value EXCEPT ![job.obj] = job.val] /\ End("done")
         \/ UNCHANGED value /\ End("refused")
  BY <1>1, SegmentAccepted, LastSegmentData DEF LastSegment
<1>3. s \in Sessions /\ s.blocks = Allocated(s)
  BY <1>1, LastSegmentData
<1>4. sdo' \in Sessions /\ sdo'.blocks = Allocated(sdo')
  <2> HIDE DEF s
  <2> QED BY <1>2, <1>3, EndSessionFacts, JunkFacts DEF Sessions, Allocated
<1>5. value' \in [Objects -> Values]
  BY <1>1, <1>2, ValueType, DownloadInStep
<1> HIDE DEF s
<1> QED BY <1>1, <1>2, <1>4, <1>5, GotType, TransferEnds

LEMMA LastSegmentLaterIInv ==
  ASSUME IInv, LastSegmentLater
  PROVE  IInv'
<1> DEFINE s == Received(sdo, job.toggle, job.val, job.done, TRUE)
           d == All(job.val, Length[job.obj])
<1>1. MayAsk("down") /\ LastDown /\ UNCHANGED <<value, got, result, seen>>
  BY DEF LastSegmentLater
<1>2. /\ sdo' = [s EXCEPT !.service = "down", !.handled = 0]
      /\ pend' = [NoPend EXCEPT !.kind = "segwrite", !.obj = s.index]
      /\ job' = [job EXCEPT !.wait = TRUE]
  BY DEF LastSegmentLater
<1>3. s = [service |-> "down", data |-> d, blocks |-> sdo.blocks, complete |-> Length[job.obj],
           handled |-> sdo.handled, toggle |-> job.toggle, index |-> job.obj]
  BY <1>1, LastSegmentData
<1>4. s \in Sessions /\ s.blocks = Allocated(s)
  BY <1>1, LastSegmentData
<1>5. d \in Contents /\ d # NoData /\ d.val = job.val /\ d = All(d.val, Length[job.obj])
  BY <1>1, DownloadInStep, AllFacts
<1> HIDE DEF s, d
<1>6. sdo' = [service |-> "down", data |-> d, blocks |-> sdo.blocks, complete |-> Length[job.obj],
              handled |-> 0, toggle |-> job.toggle, index |-> job.obj]
  BY <1>2, <1>3
<1>7. pend' = [kind |-> "segwrite", obj |-> job.obj, val |-> Torn]
  BY <1>2, <1>3 DEF NoPend
<1>8. job' = [dir |-> "down", obj |-> job.obj, val |-> job.val, done |-> job.done,
              toggle |-> job.toggle, wait |-> TRUE]
  BY <1>1, <1>2 DEF IInv, TypeOK, Jobs, MayAsk
<1>9. TypeOK'
  <2>1. sdo' \in Sessions
    BY <1>3, <1>4, <1>5, <1>6 DEF Sessions
  <2>2. job' \in Jobs
    BY <1>8 DEF IInv, TypeOK, Jobs
  <2>3. pend' \in Accesses
    BY <1>1, <1>7, DownloadInStep DEF Accesses, Entries
  <2> QED BY <1>1, <2>1, <2>2, <2>3 DEF IInv, TypeOK
<1>10. BufferIsOwned'
  BY <1>3, <1>4, <1>5, <1>6 DEF BufferIsOwned, Allocated
<1>11. NoProtocolError' /\ ObjectsAreWhole'
  BY <1>1 DEF IInv, NoProtocolError, ObjectsAreWhole
<1>12. PendIsAccess'
  BY <1>1, <1>5, <1>6, <1>7, <1>8, DownloadInStep DEF PendIsAccess
<1>13. SessionInStep' /\ JobIsTransfer' /\ UploadHoldsValue'
  BY <1>1, <1>8, DownloadInStep DEF SessionInStep, JobIsTransfer, UploadHoldsValue
<1>14. WaitsForItsAccess' /\ DownloadHoldsValue'
  BY <1>1, <1>5, <1>6, <1>7, <1>8, DownloadInStep DEF WaitsForItsAccess, DownloadHoldsValue
<1> QED BY <1>9, <1>10, <1>11, <1>12, <1>13, <1>14 DEF IInv, Transfer
-----------------------------------------------------------------------------
(* Late answers, and the stop of the mailbox.  *)

LEMMA PendInWork ==
  ASSUME IInv, pend.kind # "none"
  PROVE  pend.obj \in Objects /\ PendIsAccess
BY DEF IInv, PendIsAccess, NoPend

LEMMA LateSessionFacts ==
  ASSUME IInv, pend.kind = "segread", NEW v \in Values \cup {Torn}
  PROVE  /\ LateSession(v) =
              [service |-> "up", data |-> All(v, Length[pend.obj]), blocks |-> 1,
               complete |-> Length[pend.obj], handled |-> InitRoom(SendMbxSize),
               toggle |-> "start", index |-> pend.obj]
         /\ LateSession(v) \in Sessions /\ LateSession(v).blocks = Allocated(LateSession(v))
<1>1. sdo.blocks = 1 /\ sdo.index = pend.obj /\ pend.obj \in Objects
  BY PendInWork, SdoType, AllocatedFacts DEF PendIsAccess
<1>2. LateSession(v) =
        [service |-> "up", data |-> All(v, Length[pend.obj]), blocks |-> 1,
         complete |-> Length[pend.obj], handled |-> InitRoom(SendMbxSize),
         toggle |-> "start", index |-> pend.obj]
  <2> DEFINE c == Length[pend.obj]
             d == All(v, c)
             h == InitRoom(SendMbxSize)
  <2>1. LateSession(v) = [sdo EXCEPT !.toggle = "start", !.complete = c, !.service = "up", !.data = d,
                                     !.handled = h]
    BY DEF LateSession
  <2>2. sdo \in Sessions
    BY SdoType
  <2> HIDE DEF c, d, h
  <2>3. LateSession(v) = [service |-> "up", data |-> d, blocks |-> sdo.blocks, complete |-> c,
                          handled |-> h, toggle |-> "start", index |-> sdo.index]
    BY <2>1, <2>2 DEF Sessions
  <2> QED BY <1>1, <2>3 DEF c, d, h
<1>3. All(v, Length[pend.obj]) \in Contents /\ All(v, Length[pend.obj]) # NoData
  BY <1>1, LengthFacts, AllFacts
<1>4. LateSession(v) \in Sessions
  BY <1>1, <1>2, <1>3, LengthFacts, RoomFacts DEF Sessions, Entries
<1>5. LateSession(v).blocks = Allocated(LateSession(v))
  BY <1>2, <1>3 DEF Allocated
<1> QED BY <1>2, <1>4, <1>5

(***************************************************************************)
(* Without a transfer any session with its buffer will do.                 *)
(***************************************************************************)
LEMMA NobodyWaits ==
  ASSUME IInv, pend.kind \in {"segread", "segwrite"}, ~job.wait, pend' = NoPend,
         sdo' \in Sessions, sdo'.blocks = Allocated(sdo'), value' \in [Objects -> Values],
         UNCHANGED <<job, got, result, seen>>
  PROVE  IInv'
<1>1. job = NoJob
  BY DEF IInv, PendIsAccess
<1>2. TypeOK'
  BY NoPendType, ValueType DEF IInv, TypeOK
<1>3. BufferIsOwned' /\ NoProtocolError' /\ ObjectsAreWhole'
  BY ValuesFacts DEF IInv, BufferIsOwned, NoProtocolError, ObjectsAreWhole, Allocated
<1>4. PendIsAccess'
  BY DEF PendIsAccess, NoPend
<1>5. Transfer'
  BY <1>1, TransferOver
<1> QED BY <1>2, <1>3, <1>4, <1>5 DEF IInv

LEMMA LateUploadIInv ==
  ASSUME IInv, LateUpload
  PROVE  IInv'
<1>1. /\ pend.kind = "segread" /\ pend' = NoPend /\ UNCHANGED <<value, seen>>
      /\ pend.obj \in Objects
  BY PendInWork DEF LateUpload, Finish
<1>2. value[pend.obj] \in Values /\ Length[pend.obj] \in Nat
  BY <1>1, ValueType, LengthFacts
<1>3. sdo' = LateSession(value[pend.obj]) \/ sdo' = LateSession(Torn)
  BY DEF LateUpload
<1>4. sdo' \in Sessions /\ sdo'.blocks = Allocated(sdo')
  BY <1>1, <1>2, <1>3, LateSessionFacts
<1>5. CASE ~job.wait
  <2>1. UNCHANGED <<job, got, result>>
    BY <1>5 DEF LateUpload
  <2> QED BY <1>1, <1>4, <1>5, <2>1, ValueType, NobodyWaits
<1>6. CASE job.wait /\ End("refused") /\ UNCHANGED got
  BY <1>1, <1>4, <1>6, ValueType, GotType, TransferEnds
<1>7. CASE /\ job.wait /\ sdo' = LateSession(value[pend.obj]) /\ UNCHANGED result
           /\ job' = [job EXCEPT !.wait = FALSE]
           /\ got' = Put(Junk, 0, value[pend.obj], 0, InitRoom(SendMbxSize))
  <2> DEFINE v == value[pend.obj]
             n == InitRoom(SendMbxSize)
  <2>1. pend.obj = job.obj /\ job.dir = "up" /\ value[job.obj] \in seen /\ seen \subseteq Values
    BY <1>1, <1>7 DEF IInv, Transfer, WaitsForItsAccess, UploadHoldsValue
  <2>2. got' = All(v, n) /\ n \in Nat
    BY <1>7, RoomFacts, PutFirst
  <2>3. got' \in Contents /\ got'.val = v /\ got'.len = n
    BY <1>2, <2>2, AllFacts
  <2>4. All(v, Length[pend.obj]) # NoData
    BY <1>2, AllFacts
  <2>5. sdo' = [service |-> "up", data |-> All(v, Length[pend.obj]), blocks |-> 1,
                complete |-> Length[pend.obj], handled |-> n, toggle |-> "start",
                index |-> pend.obj]
    BY <1>1, <1>2, <1>7, LateSessionFacts
  <2>6. job' = [dir |-> "up", obj |-> job.obj, val |-> job.val, done |-> job.done,
                toggle |-> job.toggle, wait |-> FALSE]
    BY <1>7, <2>1 DEF IInv, TypeOK, Jobs
  <2>7. n < Length[pend.obj]
    <3>1. ~SmallUp(pend.obj)
      BY <1>1, PendInWork DEF PendIsAccess
    <3> QED BY <1>2, <2>2, <3>1 DEF SmallUp
  <2>8. job.toggle \in {"0", "1"} /\ job' \in Jobs
    BY <2>6 DEF IInv, TypeOK, Jobs
  <2> HIDE DEF v, n
  <2>9. TypeOK'
    BY <1>1, <1>4, <1>7, <2>3, <2>8, NoPendType DEF IInv, TypeOK
  <2>10. BufferIsOwned' /\ NoProtocolError' /\ ObjectsAreWhole'
    BY <1>1, <1>4, <1>7 DEF IInv, BufferIsOwned, NoProtocolError, ObjectsAreWhole, Allocated
  <2>11. PendIsAccess'
    BY <1>1 DEF PendIsAccess, NoPend
  <2>12. SessionInStep'
    BY <1>1, <1>2, <2>1, <2>2, <2>3, <2>4, <2>5, <2>6, <2>7, <2>8 DEF SessionInStep
  <2>13. JobIsTransfer' /\ WaitsForItsAccess' /\ DownloadHoldsValue'
    BY <1>1, <2>1, <2>6 DEF JobIsTransfer, WaitsForItsAccess, DownloadHoldsValue
  <2>14. UploadHoldsValue'
    BY <1>1, <2>1, <2>3, <2>5, <2>6 DEF UploadHoldsValue, v
  <2> QED BY <2>9, <2>10, <2>11, <2>12, <2>13, <2>14 DEF IInv, Transfer
<1> QED BY <1>5, <1>6, <1>7 DEF LateUpload

(***************************************************************************)
(* The buffer kept for OBJ_Write holds all bytes of a value: of the one of *)
(* the master, if it waits.                                                *)
(***************************************************************************)
LEMMA LateDownloadFacts ==
  ASSUME IInv, pend.kind = "segwrite"
  PROVE  /\ pend.obj \in Objects
         /\ OBJ_Write(pend.obj, sdo.data, sdo.complete) = [value EXCEPT ![pend.obj] = sdo.data.val]
         /\ [value EXCEPT ![pend.obj] = sdo.data.val] \in [Objects -> Values]
         /\ job.wait => pend.obj = job.obj /\ job.dir = "down" /\ sdo.data.val = job.val
<1>1. /\ pend.obj \in Objects /\ sdo.data.val \in Values
      /\ sdo.complete = Length[pend.obj] /\ sdo.data = All(sdo.data.val, Length[pend.obj])
  BY PendInWork DEF PendIsAccess
<1>2. job.wait => pend.obj = job.obj /\ job.dir = "down" /\ sdo.data.val = job.val
  BY DEF IInv, Transfer, WaitsForItsAccess, JobIsTransfer, NoJob
<1>3. OBJ_Write(pend.obj, All(sdo.data.val, Length[pend.obj]), Length[pend.obj]) =
        [value EXCEPT ![pend.obj] = sdo.data.val]
      /\ [value EXCEPT ![pend.obj] = sdo.data.val] \in [Objects -> Values]
  BY <1>1, WriteFacts
<1> QED BY <1>1, <1>2, <1>3

LEMMA LateDownloadIInv ==
  ASSUME IInv, LateDownload
  PROVE  IInv'
<1>1. pend.kind = "segwrite" /\ pend' = NoPend /\ sdo' = FreeBuffer(sdo) /\ UNCHANGED <<got, seen>>
  BY DEF LateDownload, Finish
<1>2. sdo' \in Sessions /\ sdo'.blocks = Allocated(sdo')
  <2>1. sdo' = [service |-> sdo.service, data |-> NoData, blocks |-> 0, complete |-> sdo.complete,
                handled |-> sdo.handled, toggle |-> sdo.toggle, index |-> sdo.index]
    BY <1>1, SdoType, FreeBufferFacts
  <2> QED BY <2>1, SdoType, JunkFacts DEF Sessions, Allocated
<1>3. value' \in [Objects -> Values]
  BY <1>1, LateDownloadFacts, ValueType DEF LateDownload
<1>4. CASE job.wait
  <2>1. End("done") \/ End("refused")
    BY <1>4 DEF LateDownload
  <2> QED BY <1>1, <1>2, <1>3, <2>1, GotType, TransferEnds
<1>5. CASE ~job.wait
  <2>1. UNCHANGED <<job, result>>
    BY <1>5 DEF LateDownload
  <2> QED BY <1>1, <1>2, <1>3, <1>5, <2>1, NobodyWaits
<1> QED BY <1>4, <1>5

LEMMA StopMailboxIInv ==
  ASSUME IInv, StopMailbox
  PROVE  IInv'
<1>1. sdo' = EndSession(sdo) /\ pend' = NoPend /\ UNCHANGED <<value, got, seen>>
  BY DEF StopMailbox, ClearPendingResponse
<1>2. sdo' \in Sessions /\ sdo'.blocks = Allocated(sdo')
  BY <1>1, SdoType, EndSessionFacts, JunkFacts DEF Sessions, Allocated
<1>3. CASE End("stopped")
  BY <1>1, <1>2, <1>3, ValueType, GotType, TransferEnds
<1>4. CASE job = NoJob /\ UNCHANGED <<job, result>>
  <2>1. TypeOK'
    BY <1>1, <1>2, <1>4, NoPendType DEF IInv, TypeOK
  <2>2. BufferIsOwned' /\ NoProtocolError' /\ ObjectsAreWhole'
    BY <1>1, <1>2, <1>4 DEF IInv, BufferIsOwned, NoProtocolError, ObjectsAreWhole, Allocated
  <2>3. PendIsAccess'
    BY <1>1 DEF PendIsAccess, NoPend
  <2>4. Transfer'
    BY <1>4, TransferOver
  <2> QED BY <2>1, <2>2, <2>3, <2>4 DEF IInv
<1> QED BY <1>3, <1>4 DEF StopMailbox

LEMMA NextIInv == IInv /\ [Next]_vars => IInv'
<1> SUFFICES ASSUME IInv, [Next]_vars PROVE IInv'
  OBVIOUS
<1>1. CASE Requests
  BY <1>1, ReadLaterIInv, StartUploadIInv, StartUploadLaterIInv, UploadRefusedIInv,
     DownloadRefusedIInv, ChangeIInv, WriteNowIInv, WriteLaterIInv, StartDownloadIInv DEF Requests
<1>2. CASE Segments
  BY <1>2, UploadSegmentIInv, DownloadSegmentIInv, LastSegmentIInv, LastSegmentLaterIInv DEF Segments
<1>3. CASE GiveUp
  BY <1>3, GiveUpIInv
<1>4. CASE COE_Main
  BY <1>4, LateSmallIInv, LateUploadIInv, LateDownloadIInv DEF COE_Main
<1>5. CASE StopMailbox
  BY <1>5, StopMailboxIInv
<1>6. CASE UNCHANGED vars
  <2>1. TypeOK' /\ BufferIsOwned' /\ NoProtocolError' /\ ObjectsAreWhole'
    BY <1>6 DEF vars, IInv, TypeOK, BufferIsOwned, Allocated, NoProtocolError, ObjectsAreWhole
  <2>2. PendIsAccess'
    BY <1>6 DEF vars, IInv, PendIsAccess
  <2>3. Transfer'
    BY <1>6 DEF vars, IInv, Transfer, SessionInStep, JobIsTransfer, WaitsForItsAccess,
                UploadHoldsValue, DownloadHoldsValue
  <2> QED BY <2>1, <2>2, <2>3 DEF IInv
<1> QED BY <1>1, <1>2, <1>3, <1>4, <1>5, <1>6 DEF Next

(***************************************************************************)
(* The invariant holds in every state of the server.                       *)
(***************************************************************************)
THEOREM Invariance == Spec => []IInv
BY InitIInv, NextIInv, PTL DEF Spec
-----------------------------------------------------------------------------
(* The theorems.  *)

(***************************************************************************)
(* Every variable keeps its type: no request puts a session, an access or  *)
(* an object into a state the code does not know.                          *)
(***************************************************************************)
THEOREM TypeCorrect == Spec => []TypeOK
<1>1. IInv => TypeOK
  BY DEF IInv
<1> QED BY <1>1, Invariance, PTL

(***************************************************************************)
(* The heap holds the buffer pSdoSegData points to and no other, however   *)
(* the transfers end.                                                      *)
(***************************************************************************)
THEOREM BufferSafe == Spec => []BufferIsOwned
<1>1. IInv => BufferIsOwned
  BY DEF IInv
<1> QED BY <1>1, Invariance, PTL

(***************************************************************************)
(* Master and server agree on the transfer in progress, whatever other     *)
(* requests and late answers come between.                                 *)
(***************************************************************************)
THEOREM AgreementSafe == Spec => []SessionInStep
<1>1. IInv => SessionInStep
  BY DEF IInv, Transfer
<1> QED BY <1>1, Invariance, PTL

(***************************************************************************)
(* No segment of a master that keeps to the protocol is refused for its    *)
(* toggle bit, its length or its time, whatever the length of the object   *)
(* and the sizes of the mailboxes.                                         *)
(***************************************************************************)
THEOREM NoErrorSafe == Spec => []NoProtocolError
<1>1. IInv => NoProtocolError
  BY DEF IInv
<1> QED BY <1>1, Invariance, PTL

(***************************************************************************)
(* No object ever holds a mixture of two values.                           *)
(***************************************************************************)
THEOREM ObjectsSafe == Spec => []ObjectsAreWhole
<1>1. IInv => ObjectsAreWhole
  BY DEF IInv
<1> QED BY <1>1, Invariance, PTL

(***************************************************************************)
(* The steps that can tell the master its transfer is done.                *)
(***************************************************************************)
LEMMA DoneSteps ==
  ASSUME IInv, [Next]_vars, job # NoJob, job' = NoJob, result' = "done"
  PROVE  UploadSegment \/ LastSegment \/ (LateDownload /\ job.wait)
<1>1. ~Requests
  BY DEF Requests, ReadLater, StartUpload, StartUploadLater, UploadRefused, DownloadRefused, Change,
         WriteNow, WriteLater, StartDownload, Idle
<1>2. job # job'
  OBVIOUS
<1>3. ~GiveUp /\ ~StopMailbox /\ ~LateSmall /\ ~LateUpload
  <2>1. ~GiveUp /\ ~StopMailbox
    BY DEF GiveUp, StopMailbox, End
  <2>2. ~LateSmall
    BY <1>2 DEF LateSmall
  <2>3. ~LateUpload
    <3> SUFFICES ASSUME LateUpload PROVE FALSE
      OBVIOUS
    <3>1. \/ job' = [job EXCEPT !.wait = FALSE]
          \/ job' = job
          \/ result' = "refused"
      BY DEF LateUpload, End
    <3>2. job' = [job EXCEPT !.wait = FALSE]
      BY <1>2, <3>1
    <3>3. job'.dir = job.dir
      BY <3>2 DEF IInv, TypeOK, Jobs
    <3> QED BY <3>3 DEF IInv, Transfer, JobIsTransfer, NoJob
  <2> QED BY <2>1, <2>2, <2>3
<1>4. ~DownloadSegment
  <2> SUFFICES ASSUME DownloadSegment PROVE FALSE
    OBVIOUS
  <2>1. job' = [job EXCEPT !.toggle = Toggled(@), !.done = @ + SizeDown]
    BY SegmentAccepted DEF DownloadSegment
  <2>2. job'.dir = job.dir
    BY <2>1 DEF IInv, TypeOK, Jobs
  <2> QED BY <2>2 DEF IInv, Transfer, JobIsTransfer, NoJob
<1>5. ~LastSegmentLater
  <2> SUFFICES ASSUME LastSegmentLater PROVE FALSE
    OBVIOUS
  <2>1. job'.wait = TRUE
    BY DEF LastSegmentLater, IInv, TypeOK, Jobs
  <2> QED BY <2>1 DEF NoJob
<1>6. LateDownload => job.wait
  BY <1>2 DEF LateDownload
<1>7. Next
  BY <1>2 DEF vars
<1> QED BY <1>1, <1>3, <1>4, <1>5, <1>6, <1>7 DEF Next, Segments, COE_Main

(***************************************************************************)
(* An upload that ends brought all bytes of one value the object had while *)
(* it ran, whatever the lengths.                                           *)
(***************************************************************************)
THEOREM UploadSafe == Spec => UploadsAreIntact
<1>1. IInv /\ [Next]_vars =>
        (job.dir = "up" /\ job' = NoJob /\ result' = "done" =>
           got'.len = Length[job.obj] /\ got'.val \in seen)
  <2> SUFFICES ASSUME IInv, [Next]_vars, job.dir = "up", job' = NoJob, result' = "done"
               PROVE  got'.len = Length[job.obj] /\ got'.val \in seen
    OBVIOUS
  <2>1. job # NoJob
    BY DEF NoJob
  <2>2. UploadSegment
    <3>1. ~LastSegment
      BY DEF LastSegment, MayAsk
    <3>2. ~(LateDownload /\ job.wait)
      BY LateDownloadFacts DEF LateDownload, Finish
    <3> QED BY <2>1, <3>1, <3>2, DoneSteps
  <2>3. MayAsk("up")
    BY <2>2 DEF UploadSegment
  <2>4. LastUp(sdo)
    <3> SUFFICES ASSUME ~LastUp(sdo) PROVE FALSE
      OBVIOUS
    <3>1. job' = [job EXCEPT !.toggle = Toggled(@)]
      BY <2>2, UploadBytes
    <3>2. job'.dir = job.dir
      BY <3>1 DEF IInv, TypeOK, Jobs
    <3> QED BY <3>2 DEF NoJob
  <2>5. got' = All(got.val, sdo.complete)
    BY <2>2, <2>4, UploadBytes
  <2> QED BY <2>3, <2>5, UploadInStep DEF All
<1> QED BY <1>1, Invariance, PTL DEF Spec, UploadsAreIntact

(***************************************************************************)
(* A download that ends has written what the master sent to the object it  *)
(* named, and changed no other, whatever the lengths.                      *)
(***************************************************************************)
THEOREM DownloadSafe == Spec => DownloadsAreIntact
<1>1. IInv /\ [Next]_vars =>
        (job.dir = "down" /\ job' = NoJob /\ result' = "done" =>
           value' = [value EXCEPT ![job.obj] = job.val])
  <2> SUFFICES ASSUME IInv, [Next]_vars, job.dir = "down", job' = NoJob, result' = "done"
               PROVE  value' = [value EXCEPT ![job.obj] = job.val]
    OBVIOUS
  <2>1. job # NoJob
    BY DEF NoJob
  <2>2. LastSegment \/ (LateDownload /\ job.wait)
    <3>1. ~UploadSegment
      BY DEF UploadSegment, MayAsk
    <3> QED BY <2>1, <3>1, DoneSteps
  <2>3. CASE LastSegment
    <3>1. MayAsk("down") /\ LastDown
      BY <2>3 DEF LastSegment
    <3> QED BY <2>3, <3>1, SegmentAccepted, LastSegmentData DEF LastSegment, End
  <2>4. CASE LateDownload /\ job.wait
    <3>1. pend.kind = "segwrite"
      BY <2>4 DEF LateDownload, Finish
    <3>2. value' = OBJ_Write(pend.obj, sdo.data, sdo.complete)
      BY <2>4 DEF LateDownload, End
    <3> QED BY <2>4, <3>1, <3>2, LateDownloadFacts
  <2> QED BY <2>2, <2>3, <2>4
<1> QED BY <1>1, Invariance, PTL DEF Spec, DownloadsAreIntact
=============================================================================
