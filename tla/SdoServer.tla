------------------------------ MODULE SdoServer ------------------------------
(***************************************************************************)
(* SDO transfers that take more than one mail (sdoserv.c, COE_Main).       *)
(*                                                                         *)
(* The server keeps one session: a buffer of the heap, the number of bytes *)
(* handled, the last toggle bit.  A master runs one segmented transfer at  *)
(* a time; between its segments other requests for small objects come (the *)
(* session does not know who asks), the application may answer an access   *)
(* later, refuse it or change an object, and the mailbox may be stopped.   *)
(* The mails themselves arrive once and in order (module Mailbox), so that *)
(* a request and its reply are one step here.                              *)
(*                                                                         *)
(* Data is the value of an object and how many of its bytes are there:     *)
(* bytes that do not continue what they are put behind make it Torn.       *)
(***************************************************************************)
EXTENDS Integers

CONSTANTS Objects,         \* entries of the object dictionary
          Length,          \* OBJ_GetObjectLength of each of them
          Values,          \* values they can have
          ReceiveMbxSize,  \* u16ReceiveMbxSize
          SendMbxSize      \* u16SendMbxSize

Torn == "torn"

ASSUME ValuesAssumption == {Torn, "null", "junk"} \cap Values = {}
\* Entries without a byte are left out: a request for one sets nSdoSegIndex of
\* the session (sdoserv.c:843), also in the middle of a download.
ASSUME LengthAssumption == Length \in [Objects -> Nat \ {0}]
ASSUME MbxAssumption == /\ ReceiveMbxSize \in Nat /\ ReceiveMbxSize >= 34  \* MIN_MBX_SIZE
                        /\ SendMbxSize \in Nat /\ SendMbxSize >= 34

VARIABLES sdo,     \* globals of sdoserv.c and coeappl.c for the session
          pend,    \* SDO service in work: bSdoInWork, u8PendingSdo, pSdoPendFunc
          value,   \* the object dictionary
          job,     \* master: its segmented transfer
          got,     \* master: what an upload has brought so far
          result,  \* master: how its last transfer ended
          seen     \* values the object of the upload had since it was asked for

vars == <<sdo, pend, value, job, got, result, seen>>

(***************************************************************************)
(* Bytes of an object in an initiate request or response, and in a segment *)
(* (the mailbox and CoE headers take 16 and 9 bytes).                      *)
(***************************************************************************)
InitRoom(size) == size - 16
SegRoom(size)  == size - 9

SmallUp(o)   == Length[o] <= InitRoom(SendMbxSize)
SmallDown(o) == Length[o] <= InitRoom(ReceiveMbxSize)

NoData == [val |-> "null", len |-> 0]
Junk   == [val |-> "junk", len |-> 0]
All(v, n) == [val |-> v, len |-> n]

(***************************************************************************)
(* n bytes of v from offset from are copied to offset at of d.             *)
(***************************************************************************)
Put(d, at, v, from, n) ==
  IF /\ from = at
     /\ (at = 0 /\ d # NoData) \/ (at = d.len /\ v = d.val)
  THEN All(v, at + n) ELSE All(Torn, at + n)

(***************************************************************************)
(* n bytes of d from offset from.                                          *)
(***************************************************************************)
Part(d, from, n) == IF from + n <= d.len THEN d.val ELSE Torn

NoPend == [kind |-> "none", obj |-> "none", val |-> Torn]
NoJob  == [dir |-> "none", obj |-> "none", val |-> Torn, done |-> 0, toggle |-> "0", wait |-> FALSE]

Allocated(s) == IF s.data = NoData THEN 0 ELSE 1
-----------------------------------------------------------------------------
(* The server: an operator of the session for each request.  *)

(***************************************************************************)
(* SDOS_SdoInd, segTransfer: the buffer of the transfer before is freed,   *)
(* whatever became of it, and a new one is asked for: d is what is in it   *)
(* or, if there is no memory, NoData.  An operator ...Mutated, here and    *)
(* below, is the next definition with a slip that a property must find.    *)
(***************************************************************************)
NewSession(s, o, d) ==
  [s EXCEPT !.toggle = "start", !.index = o, !.complete = Length[o], !.data = d,
            !.blocks = @ - Allocated(s) + (IF d = NoData THEN 0 ELSE 1)]

Uploading(s, o, v) ==
  [NewSession(s, o, All(v, Length[o])) EXCEPT !.service = "up", !.handled = InitRoom(SendMbxSize)]

Downloading(s, o, v) ==
  [NewSession(s, o, Put(Junk, 0, v, 0, InitRoom(ReceiveMbxSize)))
     EXCEPT !.service = "down", !.handled = InitRoom(ReceiveMbxSize)]

FreeBuffer(s) == [s EXCEPT !.data = NoData, !.blocks = @ - Allocated(s)]

(***************************************************************************)
(* nSdoSegService is set to 0, which is SDOSERVICE_DOWNLOADSEGMENTREQ too: *)
(* with no session open a download segment is still looked at.             *)
(***************************************************************************)
EndSessionMutated(s) == [s EXCEPT !.data = NoData, !.handled = 0, !.service = "down"]
EndSession(s) == [FreeBuffer(s) EXCEPT !.handled = 0, !.service = "down"]

(***************************************************************************)
(* SdoUploadSegmentInd: with room to spare the segment is the last one.    *)
(***************************************************************************)
LastUp(s) == s.complete < s.handled + SegRoom(SendMbxSize)

SizeUpMutated(s) == SegRoom(SendMbxSize)
SizeUp(s) == IF LastUp(s) THEN s.complete - s.handled ELSE SegRoom(SendMbxSize)

UploadSegmentInd(s, t) ==
  LET m == [s EXCEPT !.toggle = t]
  IN  IF LastUp(s) THEN EndSession(m) ELSE [m EXCEPT !.handled = @ + SizeUp(s)]

(***************************************************************************)
(* SdoDownloadSegmentInd: the checks of the length; n bytes are in the     *)
(* mail.                                                                   *)
(***************************************************************************)
Rest(s) == s.complete - s.handled

LengthOkMutated(s, last, n) ==
  IF last THEN Rest(s) < SegRoom(ReceiveMbxSize) /\ Rest(s) = n
          ELSE Rest(s) > SegRoom(ReceiveMbxSize)
LengthOk(s, last, n) ==
  IF last THEN Rest(s) <= SegRoom(ReceiveMbxSize) /\ Rest(s) = n
          ELSE Rest(s) > SegRoom(ReceiveMbxSize)

SavedMutated(s, last) == SegRoom(ReceiveMbxSize)
Saved(s, last) == IF last THEN Rest(s) ELSE SegRoom(ReceiveMbxSize)

Received(s, t, v, from, last) ==
  [s EXCEPT !.toggle = t, !.data = Put(@, s.handled, v, from, Saved(s, last))]

(***************************************************************************)
(* The dictionary after OBJ_Write of data d for object o.                  *)
(***************************************************************************)
OBJ_Write(o, d, size) ==
  [value EXCEPT ![o] = IF d.len = size /\ size = Length[o] THEN d.val ELSE Torn]

(***************************************************************************)
(* SDOS_ClearPendingResponse.                                              *)
(***************************************************************************)
ClearPendingResponse(s) == EndSession(s)
-----------------------------------------------------------------------------
(* Requests for objects that fit into one mail, from any client.  *)

Free == pend = NoPend

(***************************************************************************)
(* The values of the object of the upload in progress are remembered.      *)
(***************************************************************************)
See(v) == seen' = IF job.dir = "up" THEN seen \cup {v[job.obj]} ELSE seen

ReadLater(o) ==
  /\ Free /\ SmallUp(o)
  /\ pend' = [NoPend EXCEPT !.kind = "read", !.obj = o]
  /\ UNCHANGED <<sdo, value, job, got, result, seen>>

WriteNow(o, v) ==
  /\ Free /\ SmallDown(o)
  /\ value' = OBJ_Write(o, All(v, Length[o]), Length[o])
  /\ See(value')
  /\ UNCHANGED <<sdo, pend, job, got, result>>

WriteLater(o, v) ==
  /\ Free /\ SmallDown(o)
  /\ pend' = [kind |-> "write", obj |-> o, val |-> v]
  /\ UNCHANGED <<sdo, value, job, got, result, seen>>
-----------------------------------------------------------------------------
(* The segmented transfer of the master.  *)

Idle == job = NoJob /\ Free

End(how) == job' = NoJob /\ result' = how

(***************************************************************************)
(* Initiate upload: the first bytes are in the reply.                      *)
(***************************************************************************)
StartUpload(o) ==
  /\ Idle /\ ~SmallUp(o)
  /\ sdo' = Uploading(sdo, o, value[o])
  /\ job' = [NoJob EXCEPT !.dir = "up", !.obj = o]
  /\ got' = Put(Junk, 0, value[o], 0, InitRoom(SendMbxSize))
  /\ seen' = {value[o]}
  /\ UNCHANGED <<pend, value, result>>

(***************************************************************************)
(* OBJ_Read answers ABORTIDX_WORKING.                                      *)
(***************************************************************************)
StartUploadLater(o) ==
  /\ Idle /\ ~SmallUp(o)
  /\ sdo' = [NewSession(sdo, o, Junk) EXCEPT !.service = "up"]
  /\ pend' = [NoPend EXCEPT !.kind = "segread", !.obj = o]
  /\ job' = [NoJob EXCEPT !.dir = "up", !.obj = o, !.wait = TRUE]
  /\ seen' = {value[o]}
  /\ UNCHANGED <<value, got, result>>

(***************************************************************************)
(* No memory, or OBJ_Read refuses: nSdoSegService stays as it was.         *)
(***************************************************************************)
UploadRefused(o) ==
  /\ Idle /\ ~SmallUp(o)
  /\ \/ sdo' = NewSession(sdo, o, NoData)
     \/ sdo' = [NewSession(sdo, o, Junk) EXCEPT !.handled = InitRoom(SendMbxSize)]
  /\ End("refused")
  /\ UNCHANGED <<pend, value, got, seen>>

StartDownload(o, v) ==
  /\ Idle /\ ~SmallDown(o)
  /\ sdo' = Downloading(sdo, o, v)
  /\ job' = [NoJob EXCEPT !.dir = "down", !.obj = o, !.val = v, !.done = InitRoom(ReceiveMbxSize)]
  /\ UNCHANGED <<pend, value, got, result, seen>>

DownloadRefused(o) ==
  /\ Idle /\ ~SmallDown(o)
  /\ sdo' = NewSession(sdo, o, NoData)
  /\ End("refused")
  /\ UNCHANGED <<pend, value, got, seen>>

(***************************************************************************)
(* A segment is asked for or sent.  The master waits for the answer to its *)
(* request before, and while another service is in work it is refused and  *)
(* tries again.                                                            *)
(***************************************************************************)
MayAsk(dir) == Free /\ job.dir = dir /\ ~job.wait

Toggled(t) == IF t = "0" THEN "1" ELSE "0"

UploadSegment ==
  /\ MayAsk("up")
  /\ IF sdo.service = "up" /\ sdo.toggle # job.toggle
     THEN /\ sdo' = UploadSegmentInd(sdo, job.toggle)
          /\ got' = Put(got, got.len, Part(sdo.data, sdo.handled, SizeUp(sdo)), sdo.handled, SizeUp(sdo))
          /\ IF LastUp(sdo) THEN End("done")
             ELSE job' = [job EXCEPT !.toggle = Toggled(@)] /\ UNCHANGED result
     ELSE End("error") /\ UNCHANGED <<sdo, got>>
  /\ UNCHANGED <<pend, value, seen>>

LastDown == Length[job.obj] - job.done <= SegRoom(ReceiveMbxSize)
SizeDown == IF LastDown THEN Length[job.obj] - job.done ELSE SegRoom(ReceiveMbxSize)

(***************************************************************************)
(* The server takes the segment of the master.                             *)
(***************************************************************************)
Accepted == /\ sdo.service = "down" /\ sdo.toggle # job.toggle /\ sdo.data # NoData
            /\ LengthOk(sdo, LastDown, SizeDown)

(***************************************************************************)
(* Any other segment is aborted, and the session ends unless it uploads.   *)
(***************************************************************************)
DownloadError ==
  /\ sdo' = IF sdo.service = "down" THEN [EndSession(sdo) EXCEPT !.toggle = job.toggle] ELSE sdo
  /\ End("error")

DownloadSegment ==
  /\ MayAsk("down") /\ ~LastDown
  /\ IF Accepted
     THEN /\ sdo' = [Received(sdo, job.toggle, job.val, job.done, FALSE)
                       EXCEPT !.handled = @ + Saved(sdo, FALSE)]
          /\ job' = [job EXCEPT !.toggle = Toggled(@), !.done = @ + SizeDown]
          /\ UNCHANGED result
     ELSE DownloadError
  /\ UNCHANGED <<pend, value, got, seen>>

(***************************************************************************)
(* The last segment: OBJ_Write, or its refusal, ends the session.          *)
(***************************************************************************)
LastSegment ==
  /\ MayAsk("down") /\ LastDown
  /\ LET s == Received(sdo, job.toggle, job.val, job.done, TRUE)
     IN  IF Accepted
         THEN /\ sdo' = EndSession(s)
              /\ \/ value' = OBJ_Write(s.index, s.data, s.complete) /\ End("done")
                 \/ UNCHANGED value /\ End("refused")
         ELSE DownloadError /\ UNCHANGED value
  /\ UNCHANGED <<pend, got, seen>>

(***************************************************************************)
(* OBJ_Write answers ABORTIDX_WORKING: the buffer is kept for it.          *)
(***************************************************************************)
LastSegmentLater ==
  /\ MayAsk("down") /\ LastDown /\ Accepted
  /\ LET s == Received(sdo, job.toggle, job.val, job.done, TRUE)
     IN  /\ sdo' = [s EXCEPT !.service = "down", !.handled = 0]
         /\ pend' = [NoPend EXCEPT !.kind = "segwrite", !.obj = s.index]
  /\ job' = [job EXCEPT !.wait = TRUE]
  /\ UNCHANGED <<value, got, result, seen>>

(***************************************************************************)
(* The master aborts its transfer, or stops without a word.  The server    *)
(* knows no abort request: it answers it, but the session stays open.      *)
(***************************************************************************)
GiveUp ==
  /\ job # NoJob
  /\ End("given up")
  /\ UNCHANGED <<sdo, pend, value, got, seen>>
-----------------------------------------------------------------------------
(* COE_Main: the service in work ends, and is answered.  *)

Finish(kind) == pend.kind = kind /\ pend' = NoPend

LateSmall ==
  \/ /\ Finish("read")
     /\ UNCHANGED <<sdo, value, job, got, result, seen>>
  \/ /\ Finish("write")
     /\ value' \in {value, OBJ_Write(pend.obj, All(pend.val, Length[pend.obj]), Length[pend.obj])}
     /\ See(value')
     /\ UNCHANGED <<sdo, job, got, result>>

(***************************************************************************)
(* SDOS_SdoRes sets the session up, also for an upload that was refused.   *)
(***************************************************************************)
LateSessionMutated(v) ==
  [sdo EXCEPT !.toggle = "start", !.complete = Length[pend.obj], !.service = "up",
              !.data = All(v, Length[pend.obj])]
LateSession(v) ==
  [sdo EXCEPT !.toggle = "start", !.complete = Length[pend.obj], !.service = "up",
              !.data = All(v, Length[pend.obj]), !.handled = InitRoom(SendMbxSize)]

LateUpload ==
  /\ Finish("segread")
  /\ \/ /\ sdo' = LateSession(value[pend.obj])
        /\ IF job.wait
           THEN /\ job' = [job EXCEPT !.wait = FALSE]
                /\ got' = Put(Junk, 0, value[pend.obj], 0, InitRoom(SendMbxSize))
           ELSE UNCHANGED <<job, got>>
        /\ UNCHANGED result
     \/ /\ sdo' = LateSession(Torn)
        /\ IF job.wait THEN End("refused") ELSE UNCHANGED <<job, result>>
        /\ UNCHANGED got
  /\ UNCHANGED <<value, seen>>

LateDownloadMutated ==
  /\ Finish("segwrite")
  /\ sdo' = FreeBuffer(sdo)
  /\ value' = OBJ_Write(pend.obj, sdo.data, sdo.complete)
  /\ UNCHANGED <<job, got, result, seen>>
LateDownload ==
  /\ Finish("segwrite")
  /\ sdo' = FreeBuffer(sdo)
  /\ \/ /\ value' = OBJ_Write(pend.obj, sdo.data, sdo.complete)
        /\ IF job.wait THEN End("done") ELSE UNCHANGED <<job, result>>
     \/ /\ IF job.wait THEN End("refused") ELSE UNCHANGED <<job, result>>
        /\ UNCHANGED value
  /\ UNCHANGED <<got, seen>>

COE_Main == LateSmall \/ LateUpload \/ LateDownload
-----------------------------------------------------------------------------
(* The mailbox stops, and with it the transfer. *)
StopMailbox ==
  /\ sdo' = ClearPendingResponse(sdo)
  /\ pend' = NoPend
  /\ IF job # NoJob THEN End("stopped") ELSE UNCHANGED <<job, result>>
  /\ UNCHANGED <<value, got, seen>>

(***************************************************************************)
(* The application changes an object.                                      *)
(***************************************************************************)
Change(o) ==
  /\ \E v \in Values : value' = [value EXCEPT ![o] = v]
  /\ See(value')
  /\ UNCHANGED <<sdo, pend, job, got, result>>

Init ==
  /\ sdo = [service |-> "down", data |-> NoData, blocks |-> 0, complete |-> 0, handled |-> 0,
            toggle |-> "0", index |-> "none"]
  /\ pend = NoPend /\ job = NoJob /\ got = Junk /\ result = "none" /\ seen = {}
  /\ value \in [Objects -> Values]

Segments == UploadSegment \/ DownloadSegment \/ LastSegment \/ LastSegmentLater

Requests ==
  \E o \in Objects :
    \/ ReadLater(o) \/ StartUpload(o) \/ StartUploadLater(o) \/ UploadRefused(o)
    \/ DownloadRefused(o) \/ Change(o)
    \/ \E v \in Values : WriteNow(o, v) \/ WriteLater(o, v) \/ StartDownload(o, v)

Next == Requests \/ Segments \/ GiveUp \/ COE_Main \/ StopMailbox

Spec == Init /\ [][Next]_vars

(***************************************************************************)
(* The application ends what it has in work, and a master that is told to  *)
(* wait asks again until its segment is taken.                             *)
(***************************************************************************)
FairSpec == Spec /\ WF_vars(COE_Main) /\ SF_vars(Segments)
-----------------------------------------------------------------------------
(* Properties.  *)

Contents == [val : Values \cup {Torn, "null", "junk"}, len : Nat]
Entries  == Objects \cup {"none"}

Sessions == [service : {"up", "down"}, data : Contents, blocks : 0..1, complete : Nat,
             handled : Nat, toggle : {"start", "0", "1"}, index : Entries]
Accesses == [kind : {"none", "read", "write", "segread", "segwrite"}, obj : Entries,
             val : Values \cup {Torn}]
Jobs     == [dir : {"none", "up", "down"}, obj : Entries, val : Values \cup {Torn}, done : Nat,
             toggle : {"0", "1"}, wait : BOOLEAN]

TypeOK ==
  /\ sdo \in Sessions
  /\ pend \in Accesses
  /\ value \in [Objects -> Values \cup {Torn}]
  /\ job \in Jobs
  /\ got \in Contents
  /\ result \in {"none", "done", "refused", "error", "given up", "stopped"}
  /\ seen \subseteq Values \cup {Torn}

(***************************************************************************)
(* The buffer of a session is freed exactly once, however the session      *)
(* ends: the heap never holds more than the one pSdoSegData points to.     *)
(***************************************************************************)
BufferIsOwned == sdo.blocks = Allocated(sdo)

(***************************************************************************)
(* Master and server agree on a transfer in progress: direction, object,   *)
(* bytes handled, toggle bit; and the session has its buffer.  What other  *)
(* clients, late answers and given-up transfers leave behind never shows.  *)
(***************************************************************************)
SessionInStep ==
  job # NoJob /\ ~job.wait =>
    /\ sdo.service = job.dir /\ sdo.data # NoData
    /\ sdo.index = job.obj /\ sdo.complete = Length[job.obj]
    /\ sdo.toggle # job.toggle
    /\ sdo.handled = (IF job.dir = "up" THEN got.len ELSE job.done)
    /\ sdo.handled <= sdo.complete

(***************************************************************************)
(* A master that keeps to the protocol is refused by the application or    *)
(* for want of memory only: never for a toggle bit, a length or a segment  *)
(* nobody expects.                                                         *)
(***************************************************************************)
NoProtocolError == result # "error"

(***************************************************************************)
(* No object ever holds a mixture, the ones of a transfer given up         *)
(* included.                                                               *)
(***************************************************************************)
ObjectsAreWhole == \A o \in Objects : value[o] # Torn

(***************************************************************************)
(* An upload that ends brought all bytes of one value, and the object had  *)
(* this value while the upload ran.                                        *)
(***************************************************************************)
UploadsAreIntact ==
  [][job.dir = "up" /\ job' = NoJob /\ result' = "done" =>
       got'.len = Length[job.obj] /\ got'.val \in seen]_vars

(***************************************************************************)
(* A download that ends has written all that the master sent, to the       *)
(* object it named and to no other.                                        *)
(***************************************************************************)
DownloadsAreIntact ==
  [][job.dir = "down" /\ job' = NoJob /\ result' = "done" =>
       value' = [value EXCEPT ![job.obj] = job.val]]_vars

(***************************************************************************)
(* A transfer ends, the one of an object that fills its last segment       *)
(* included.                                                               *)
(***************************************************************************)
TransfersEnd == job # NoJob ~> job = NoJob
=============================================================================
