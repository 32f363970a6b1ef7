-------------------------------- MODULE Mailbox --------------------------------
(***************************************************************************)
(* The mailbox of the slave: the send and receive queues of mailbox.c, the  *)
(* buffers it keeps for a repetition, the CoE services that are answered    *)
(* later or in several mails (ecatcoe.c, sdoserv.c, COE_Main) and the part  *)
(* of ECAT_Main that serves sync managers 0 and 1.                          *)
(*                                                                         *)
(* All of it is the record mb, with the names of the C variables; a C       *)
(* function is an operator from one record to the next.  The master is the  *)
(* environment: it writes requests, may repeat one with the same counter,   *)
(* reads replies, may lose what it read, and then toggles the repeat bit    *)
(* and reads nothing before the slave has acknowledged it.                  *)
(***************************************************************************)
EXTENDS Naturals, Sequences, FiniteSets

CONSTANTS
  Services,     \* kinds of requests the master sends
  Boots,        \* values of bBootMode the mailbox is started with
  Fragments,    \* fragments of an object list after the first
  Counters,     \* mailbox counters run from 1 to Counters (7)
  QueueSize,    \* MAX_MBX_QUEUE_SIZE: one less can be stored
  Pool,         \* mailbox buffers in the heap
  Failures,     \* how many allocations may fail
  MayStop,      \* the master may leave PREOP and come back
  Window        \* requests the master leaves without an answer

\* sdo: answered at once; work: answered by COE_Main; list: an object list;
\* bad: refused by its service; long: too long for the mailbox; foe: no service,
\* and refused or not.
ASSUME ServicesAssumption ==
  /\ Services \subseteq {"sdo", "work", "list", "bad", "long", "foe"}
  /\ Boots \subseteq BOOLEAN /\ Boots # {} /\ MayStop \in BOOLEAN
ASSUME SizesAssumption ==
  /\ Fragments \in Nat \ {0} /\ Counters \in Nat /\ Counters >= 3
  /\ QueueSize \in Nat /\ QueueSize >= 3 /\ Pool \in Nat \ {0}
  /\ Failures \in Nat /\ Window \in Nat \ {0}

VARIABLES
  pc,      \* phase of ECAT_Main
  mb,      \* globals of mailbox.c, ecatcoe.c, sdoserv.c; the ESC's two buffers;
           \* unfreed: a history, the buffers no pointer leads to any more
  act,     \* repeat bit of sm1Activate as ECAT_Main read it
  empty,   \* SM1 was not full when ECAT_Main read sm1Status
  fails,   \* allocations that may still fail
  rep,     \* master: its repeat bit in the SM1 activate register
  lost,    \* master: a mail was taken from SM1 and lost
  got,     \* master: the reply it accepted last
  req,     \* master: the request it wrote last
  open,    \* master: requests without (all of) their answer
  left     \* master: the number of the list fragment it waits for

vars       == <<pc, mb, act, empty, fails, rep, lost, got, req, open, left>>
masterVars == <<rep, lost, got, req, open, left>>

NoMail == [buf |-> 0, cnt |-> 0, what |-> "none", left |-> 0]
Whats  == Services \cup {"err", "frag", "none"}
Mails  == [buf : 0..Pool, cnt : 0..Counters, what : Whats, left : 0..Fragments]

Stopped == [running |-> FALSE, boot |-> FALSE,
            sm0 |-> NoMail, ev0 |-> FALSE, sm1 |-> NoMail,
            recvQ |-> <<>>, sendQ |-> <<>>,
            psReadMbx |-> NoMail, psRepeatMbx |-> NoMail, psStoreMbx |-> NoMail,
            bSendMbxIsFull |-> FALSE, bReceiveMbxIsLocked |-> FALSE,
            u8MailboxSendReqStored |-> FALSE, bMbxRepeatToggle |-> FALSE,
            u8MbxReadCounter |-> 0, u8MbxWriteCounter |-> 0,
            pSdoResStored |-> NoMail, pCoeSendStored |-> NoMail,
            nSdoInfoFragmentsLeft |-> 0, heap |-> {}, unfreed |-> {}]
-------------------------------------------------------------------------------
(* Sending.  An operator ...Mutated, here and below, is the next definition   *)
(* with a slip that a property must find.                                     *)

Free(m, mail) == [m EXCEPT !.heap = @ \ {mail.buf}]

\* A free buffer of the heap.
NewBuffer(m) == CHOOSE b \in 1..Pool : b \notin m.heap

QueueFull(q) == Len(q) = QueueSize - 1

MBX_CopyToSendMailboxMutated(m, mail) == [m EXCEPT !.sm1 = mail, !.psReadMbx = mail]
MBX_CopyToSendMailbox(m, mail) ==
  [m EXCEPT !.sm1 = mail, !.psReadMbx = mail, !.bSendMbxIsFull = TRUE]

\* The counter of the next mail; 0 is only used before the first one.
NextCounterMutated(cnt) == cnt + 1
NextCounter(cnt) == (cnt + 1) % (Counters + 1)

\* Numbers the mail from 1 to Counters and puts it into the send mailbox or the
\* queue.  more: FRAGMENTS_FOLLOW.  The result is that of the C function.
MBX_MailboxSendReq(m, mail, coe, more) ==
  LET cnt == IF m.u8MbxReadCounter = 0 THEN 1 ELSE m.u8MbxReadCounter
      new == [mail EXCEPT !.cnt = cnt]
      m1  == [m EXCEPT !.u8MbxReadCounter = NextCounter(cnt),
                       !.u8MailboxSendReqStored = @ \/ (coe /\ more)]
  IN  CASE ~m.running -> [m |-> m, ok |-> FALSE]
        [] m.running /\ ~m.bSendMbxIsFull ->
             [m |-> MBX_CopyToSendMailbox(m1, new), ok |-> TRUE]
        [] m.running /\ m.bSendMbxIsFull /\ ~QueueFull(m.sendQ) ->
             [m |-> [m1 EXCEPT !.sendQ = Append(@, new)], ok |-> TRUE]
        [] OTHER -> [m |-> [m EXCEPT !.u8MailboxSendReqStored = @ \/ coe], ok |-> FALSE]

\* A mailbox error; the sender does not look whether it could be sent.
SendError(m, mail) ==
  MBX_MailboxSendReq(m, [mail EXCEPT !.what = "err", !.left = 0], FALSE, FALSE).m

\* A CoE reply that cannot be sent now is kept for COE_ContinueInd.
SendCoe(m, mail, more) ==
  LET r == MBX_MailboxSendReq(m, mail, TRUE, more)
  IN  IF r.ok THEN r.m ELSE [r.m EXCEPT !.pCoeSendStored = mail]
-------------------------------------------------------------------------------
(* Services.                                                                 *)

\* One fragment of an object list: the next one of the list in work, or the
\* first of a new one.
SDOS_SdoInfoInd(m, mail) ==
  LET n == IF m.nSdoInfoFragmentsLeft > 0 THEN m.nSdoInfoFragmentsLeft - 1 ELSE Fragments
  IN  SendCoe([m EXCEPT !.nSdoInfoFragmentsLeft = n],
              [mail EXCEPT !.what = "frag", !.left = n], n > 0)

\* Only one SDO service may be in work.
SdoBusy(m) == m.pSdoResStored # NoMail

MailboxServiceInd(m, mail) ==
  CASE \/ m.boot /\ mail.what # "foe"
       \/ mail.what = "bad"
       \/ mail.what \in {"sdo", "work"} /\ SdoBusy(m)        -> SendError(m, mail)
    [] ~m.boot /\ mail.what = "sdo" /\ ~SdoBusy(m)           -> SendCoe(m, mail, FALSE)
    [] ~m.boot /\ mail.what = "work" /\ ~SdoBusy(m)          -> [m EXCEPT !.pSdoResStored = mail]
    [] ~m.boot /\ mail.what = "list"                         -> SDOS_SdoInfoInd(m, mail)
    [] OTHER -> [m EXCEPT !.unfreed = @ \cup {mail.buf}]   \* FoE: neither kept nor freed

\* Sends the stored CoE reply, or the next fragment in a buffer of its own.
COE_ContinueInd(m, ok) ==
  LET r == MBX_MailboxSendReq(m, m.pCoeSendStored, TRUE, FALSE)
      b == NewBuffer(m)
  IN  IF m.pCoeSendStored # NoMail
      THEN IF r.ok THEN [r.m EXCEPT !.pCoeSendStored = NoMail] ELSE r.m
      ELSE IF ~ok THEN [m EXCEPT !.u8MailboxSendReqStored = TRUE]
      ELSE SDOS_SdoInfoInd([m EXCEPT !.heap = @ \cup {b}], [NoMail EXCEPT !.buf = b])
-------------------------------------------------------------------------------
(* Sync manager 1: a reply was read, or is asked for again.                   *)

\* The reply before the last is not needed any more.
ReleaseRepeatMutated(m) ==
  IF /\ m.psRepeatMbx # NoMail /\ m.psStoreMbx = NoMail
     /\ m.psReadMbx # m.psRepeatMbx
  THEN Free(m, m.psReadMbx) ELSE m
ReleaseRepeat(m) ==
  IF /\ m.psRepeatMbx # NoMail /\ m.psStoreMbx = NoMail
     /\ m.psReadMbx # m.psRepeatMbx
  THEN Free(m, m.psRepeatMbx) ELSE m

SendNext(m) ==
  CASE m.psStoreMbx # NoMail ->
         [MBX_CopyToSendMailbox(m, m.psStoreMbx) EXCEPT !.psStoreMbx = NoMail]
    [] m.psStoreMbx = NoMail /\ m.sendQ # <<>> ->
         [MBX_CopyToSendMailbox(m, Head(m.sendQ)) EXCEPT !.sendQ = Tail(@)]
    [] OTHER -> m

MBX_MailboxReadInd(m, ok) ==
  LET m1 == SendNext([ReleaseRepeat(m) EXCEPT !.bSendMbxIsFull = FALSE,
                                              !.psRepeatMbx = m.psReadMbx])
  IN  IF m1.u8MailboxSendReqStored
      THEN COE_ContinueInd([m1 EXCEPT !.u8MailboxSendReqStored = FALSE], ok) ELSE m1

\* A reply not read yet is taken back and stored while the last one is repeated.
TakeBackMutated(m) == m
TakeBack(m) == IF m.bSendMbxIsFull /\ m.psStoreMbx = NoMail
               THEN [m EXCEPT !.psStoreMbx = m.psReadMbx, !.sm1 = NoMail] ELSE m

MBX_MailboxRepeatReq(m) ==
  LET m1 == IF m.psRepeatMbx = NoMail THEN m
            ELSE [MBX_CopyToSendMailbox(TakeBack(m), m.psRepeatMbx)
                    EXCEPT !.psRepeatMbx = NoMail]
  IN  [m1 EXCEPT !.bMbxRepeatToggle = ~@]
-------------------------------------------------------------------------------
(* Sync manager 0: a request was written.                                     *)

\* A request with the counter of the one before is a repetition.
IsRepetitionMutated(m, mail) == FALSE
IsRepetition(m, mail) == mail.cnt # 0 /\ mail.cnt = m.u8MbxWriteCounter

MBX_MailboxWriteInd(m, mail) ==
  IF mail.what = "long" THEN SendError(m, mail)
  ELSE IF IsRepetition(m, mail) THEN Free(m, mail)
  ELSE LET m1 == [m EXCEPT !.u8MbxWriteCounter = mail.cnt]
       IN  IF QueueFull(m.recvQ) THEN SendError(m1, mail)
           ELSE [m1 EXCEPT !.recvQ = Append(@, mail)]

\* Nothing is received while a reply waits to be read or to be sent.
ReceiveBlockedMutated(m) == FALSE
ReceiveBlocked(m) == m.bSendMbxIsFull \/ m.u8MailboxSendReqStored

\* The request stays in sync manager 0, and MBX_Main tries again.
Refuse(m) == [m EXCEPT !.ev0 = FALSE, !.bReceiveMbxIsLocked = TRUE]

\* The request is read into buffer b, which unlocks sync manager 0.
Take(m, b) == [m EXCEPT !.ev0 = FALSE, !.bReceiveMbxIsLocked = FALSE,
                        !.heap = @ \cup {b}, !.sm0 = NoMail]

\* With memory for it, the request is read; without, it stays where it is.
MBX_CheckAndCopyMailbox(m, ok) ==
  LET b == NewBuffer(m)
  IN  IF ReceiveBlocked(m) \/ ~ok THEN Refuse(m)
      ELSE MBX_MailboxWriteInd(Take(m, b), [m.sm0 EXCEPT !.buf = b])

\* The buffers freed when the mailbox stops.
OwnedMutated(m) ==
  {m.psReadMbx.buf, m.psRepeatMbx.buf, m.pSdoResStored.buf}
  \cup {m.recvQ[i].buf : i \in DOMAIN m.recvQ} \cup {m.sendQ[i].buf : i \in DOMAIN m.sendQ}
Owned(m) ==
  {m.psReadMbx.buf, m.psRepeatMbx.buf, m.psStoreMbx.buf, m.pSdoResStored.buf}
  \cup {m.recvQ[i].buf : i \in DOMAIN m.recvQ} \cup {m.sendQ[i].buf : i \in DOMAIN m.sendQ}

\* Neither pCoeSendStored nor nSdoInfoFragmentsLeft is touched.
MBX_StopMailboxHandler(m) ==
  [Stopped EXCEPT !.pCoeSendStored = m.pCoeSendStored,
                  !.nSdoInfoFragmentsLeft = m.nSdoInfoFragmentsLeft,
                  !.heap = m.heap \ Owned(m), !.unfreed = m.unfreed]
-------------------------------------------------------------------------------
(* ECAT_Main and COE_Main, phase by phase.                                    *)

Goto(from, to) == pc = from /\ pc' = to

\* An allocation may fail, and must when the heap is used up.
Alloc(m, ok) ==
  /\ ok \in BOOLEAN
  /\ ok => m.heap # 1..Pool
  /\ ~ok => m.heap = 1..Pool \/ fails > 0
  /\ fails' = IF ok \/ m.heap = 1..Pool THEN fails ELSE fails - 1

CheckAndCopy ==
  IF ReceiveBlocked(mb)
  THEN mb' = MBX_CheckAndCopyMailbox(mb, TRUE) /\ UNCHANGED fails
  ELSE \E ok \in BOOLEAN : Alloc(mb, ok) /\ mb' = MBX_CheckAndCopyMailbox(mb, ok)

\* MBX_Main: the mails of the receive queue one by one.  For FoE MailboxServiceInd
\* returns a variable it never set, so that the mail may be taken for an error.
Serve ==
  /\ Goto("main", "main")
  /\ mb.recvQ # <<>>
  /\ LET mail == Head(mb.recvQ)
         m    == [mb EXCEPT !.recvQ = Tail(@)]
     IN  \/ mb' = MailboxServiceInd(m, mail)
         \/ mail.what = "foe" /\ mb' = SendError(m, mail)
  /\ UNCHANGED <<act, empty, fails, masterVars>>

\* The rest of MBX_Main: the request that was refused is tried again.
Main ==
  /\ Goto("main", "activate")
  /\ mb.recvQ = <<>>
  /\ IF mb.bReceiveMbxIsLocked THEN CheckAndCopy ELSE UNCHANGED <<mb, fails>>
  /\ UNCHANGED <<act, empty, masterVars>>

ReadActivate == /\ Goto("activate", "status")
                /\ act' = (mb.running /\ rep)
                /\ UNCHANGED <<mb, empty, fails, masterVars>>

ReadStatus == /\ Goto("status", "al")
              /\ empty' = (mb.running => mb.sm1 = NoMail)
              /\ UNCHANGED <<mb, act, fails, masterVars>>

\* What AL_ControlInd does to the mailbox; the master knows of it.
NoTransition == Goto("al", "ind") /\ UNCHANGED <<mb, act, empty, fails, masterVars>>

StartMailbox == /\ Goto("al", "ind")
                /\ ~mb.running
                /\ \E boot \in Boots : mb' = [mb EXCEPT !.running = TRUE, !.boot = boot]
                /\ UNCHANGED <<act, empty, fails, masterVars>>

StopMailbox == /\ Goto("al", "ind")
               /\ mb.running /\ MayStop
               /\ mb' = MBX_StopMailboxHandler(mb)
               /\ lost' = FALSE /\ got' = NoMail /\ req' = NoMail
               /\ open' = 0 /\ left' = 0
               /\ UNCHANGED <<act, empty, fails, rep>>

\* The read indication comes before the repeat request.
Indications ==
  /\ Goto("ind", "write")
  /\ LET read      == mb.running /\ empty /\ mb.bSendMbxIsFull
         Repeat(m) == IF m.running /\ act # m.bMbxRepeatToggle THEN MBX_MailboxRepeatReq(m) ELSE m
     IN  IF read /\ (mb.u8MailboxSendReqStored /\ mb.pCoeSendStored = NoMail)
         THEN \E ok \in BOOLEAN : /\ Alloc(ReleaseRepeat(mb), ok)
                                  /\ mb' = Repeat(MBX_MailboxReadInd(mb, ok))
         ELSE /\ mb' = Repeat(IF read THEN MBX_MailboxReadInd(mb, TRUE) ELSE mb)
              /\ UNCHANGED fails
  /\ UNCHANGED <<act, empty, masterVars>>

WriteEvent ==
  /\ Goto("write", "coe")
  /\ IF mb.running /\ mb.ev0 THEN CheckAndCopy ELSE UNCHANGED <<mb, fails>>
  /\ UNCHANGED <<act, empty, masterVars>>

\* COE_Main: the SDO service in work is finished, or not yet.
FinishSdo ==
  /\ Goto("coe", "main")
  /\ SdoBusy(mb)
  /\ mb' = SendCoe([mb EXCEPT !.pSdoResStored = NoMail], mb.pSdoResStored, FALSE)
  /\ UNCHANGED <<act, empty, fails, masterVars>>

SdoStillInWork == Goto("coe", "main") /\ UNCHANGED <<mb, act, empty, fails, masterVars>>

Loop == \/ Serve \/ Main \/ ReadActivate \/ ReadStatus
        \/ NoTransition \/ StartMailbox \/ StopMailbox
        \/ Indications \/ WriteEvent \/ FinishSdo \/ SdoStillInWork
-------------------------------------------------------------------------------
(* The master.                                                               *)

WriteRequest ==
  /\ mb.running /\ mb.sm0 = NoMail /\ open < Window
  /\ \E s \in Services :
       LET r == [NoMail EXCEPT !.cnt = (req.cnt % Counters) + 1, !.what = s]
       IN  /\ mb' = [mb EXCEPT !.sm0 = r, !.ev0 = TRUE]
           /\ req' = r
           /\ left' = IF s = "list" /\ ~mb.boot THEN Fragments ELSE left
           /\ open' = IF s = "foe" THEN open ELSE open + 1
  /\ UNCHANGED <<pc, act, empty, fails, rep, lost, got>>

\* The acknowledgement of the write was lost: the same request again.
WriteAgain ==
  /\ mb.running /\ mb.sm0 = NoMail /\ req # NoMail
  /\ mb' = [mb EXCEPT !.sm0 = req, !.ev0 = TRUE]
  /\ UNCHANGED <<pc, act, empty, fails, masterVars>>

MayRead == mb.running /\ mb.sm1 # NoMail /\ rep = mb.bMbxRepeatToggle /\ ~lost

\* A reply with the counter of the one before is a repetition.
ReadMail ==
  /\ MayRead
  /\ mb' = [mb EXCEPT !.sm1 = NoMail]
  /\ IF mb.sm1.cnt = got.cnt THEN UNCHANGED <<got, open, left>>
     ELSE /\ got' = mb.sm1
          /\ open' = IF mb.sm1.left = 0 /\ open > 0 THEN open - 1 ELSE open
          /\ left' = IF mb.sm1.what = "frag" /\ mb.sm1.left > 0 THEN mb.sm1.left - 1 ELSE left
  /\ UNCHANGED <<pc, act, empty, fails, rep, lost, req>>

LoseMail == /\ MayRead
            /\ mb' = [mb EXCEPT !.sm1 = NoMail] /\ lost' = TRUE
            /\ UNCHANGED <<pc, act, empty, fails, rep, got, req, open, left>>

\* After a loss, or without need when the frame was lost before the slave.
RequestRepeat == /\ mb.running /\ rep = mb.bMbxRepeatToggle
                 /\ rep' = ~rep /\ lost' = FALSE
                 /\ UNCHANGED <<pc, mb, act, empty, fails, got, req, open, left>>

Master == WriteRequest \/ WriteAgain \/ ReadMail \/ LoseMail \/ RequestRepeat

Init == /\ pc = "main" /\ mb = Stopped /\ act = FALSE /\ empty = FALSE
        /\ fails = Failures /\ rep = FALSE /\ lost = FALSE
        /\ got = NoMail /\ req = NoMail /\ open = 0 /\ left = 0

Next == Loop \/ Master

Spec == Init /\ [][Next]_vars

\* The thread loops for ever, the application ends an SDO service it has in
\* work, a master that goes on polling reads a reply without losing it, and it
\* does not for ever ask again for replies that were not lost.
Fairness == /\ WF_vars(Loop) /\ SF_vars(FinishSdo)
            /\ SF_vars(ReadMail) /\ WF_vars(lost /\ RequestRepeat)
            /\ <>[][RequestRepeat => lost]_vars

FairSpec == Spec /\ Fairness
-------------------------------------------------------------------------------
(* Properties.                                                               *)

IfMail(mail) == IF mail = NoMail THEN <<>> ELSE <<mail>>

\* The replies the slave still has, in the order it sent them, and those of
\* them the master has not accepted.
Replies == IfMail(mb.psRepeatMbx)
           \o (IF mb.bSendMbxIsFull THEN <<mb.psReadMbx>> ELSE <<>>)
           \o IfMail(mb.psStoreMbx) \o mb.sendQ

Undelivered ==
  CASE Len(Replies) >= 2 /\ Replies[2] = got -> SubSeq(Replies, 3, Len(Replies))
    [] Len(Replies) >= 1 /\ Replies[1] = got -> Tail(Replies)
    [] OTHER                                 -> Replies

\* The type invariant.
MbType ==
  [running : BOOLEAN, boot : BOOLEAN, sm0 : Mails, ev0 : BOOLEAN, sm1 : Mails,
   recvQ : Seq(Mails), sendQ : Seq(Mails),
   psReadMbx : Mails, psRepeatMbx : Mails, psStoreMbx : Mails,
   bSendMbxIsFull : BOOLEAN, bReceiveMbxIsLocked : BOOLEAN,
   u8MailboxSendReqStored : BOOLEAN, bMbxRepeatToggle : BOOLEAN,
   u8MbxReadCounter : 0..Counters, u8MbxWriteCounter : 0..Counters,
   pSdoResStored : Mails, pCoeSendStored : Mails,
   nSdoInfoFragmentsLeft : 0..Fragments,
   heap : SUBSET (1..Pool), unfreed : SUBSET (1..Pool)]

TypeOK ==
  /\ pc \in {"main", "activate", "status", "al", "ind", "write", "coe"}
  /\ mb \in MbType /\ mb.unfreed \subseteq mb.heap
  /\ {act, empty, rep, lost} \subseteq BOOLEAN /\ fails \in 0..Failures
  /\ {got, req} \subseteq Mails /\ open \in Nat /\ left \in 0..Fragments

\* A loss, a repetition or a full queue never reorders, doubles or drops a
\* reply: to the master the mailbox is a queue.
Q == INSTANCE MailQueue WITH None <- NoMail, queue <- Undelivered, last <- got
ImplementsMailQueue == Q!Spec

\* Every buffer of the heap has one owner but those of FoE mails, which nothing
\* frees (mailbox.c:462), and no owner points to a buffer that was freed; only the
\* last reply read is both psReadMbx and psRepeatMbx.
Owners == {"psRepeatMbx", "psStoreMbx", "pSdoResStored", "pCoeSendStored"}
          \cup IF mb.psReadMbx # mb.psRepeatMbx THEN {"psReadMbx"} ELSE {}
OwnersOf(b) ==
  {<<p, 0>> : p \in {f \in Owners : mb[f].buf = b}}
  \cup {<<"recvQ", i>> : i \in {j \in DOMAIN mb.recvQ : mb.recvQ[j].buf = b}}
  \cup {<<"sendQ", i>> : i \in {j \in DOMAIN mb.sendQ : mb.sendQ[j].buf = b}}
BuffersHaveOneOwner ==
  \A b \in 1..Pool : Cardinality(OwnersOf(b)) = IF b \in mb.heap \ mb.unfreed THEN 1 ELSE 0

\* Refused requests leave the mail in sync manager 0, so that MBX_Main finds it
\* when it tries again.
LockedHasMail == mb.bReceiveMbxIsLocked => mb.running /\ mb.sm0 # NoMail

\* The send queue is deep enough: no reply has to be kept in pCoeSendStored,
\* which would lose the rest of an object list, and no error reply is dropped.
NoReplyStored == mb.pCoeSendStored = NoMail /\ ~QueueFull(mb.sendQ)

\* Requests that will still be answered, those the slave has not seen included.
InWork ==
    (IF mb.sm0 # NoMail /\ mb.sm0.cnt # mb.u8MbxWriteCounter /\ mb.sm0.what # "foe" THEN 1 ELSE 0)
  + Cardinality({i \in DOMAIN mb.recvQ : mb.recvQ[i].what # "foe"})
  + (IF SdoBusy(mb) THEN 1 ELSE 0)
  + (IF mb.nSdoInfoFragmentsLeft > 0 THEN 1 ELSE 0)
  + Cardinality({i \in DOMAIN Undelivered : Undelivered[i].left = 0})

\* Each request is answered exactly once, whatever is repeated on either side.
AnsweredOnce == open = InWork

\* The fragments of an object list arrive complete and in order.  (sdoserv.c:1088
\* says that nSdoInfoFragmentsLeft is 0 for the first call.)
ListInOrder ==
  [][got' # got /\ got'.what = "frag" => got'.left = left]_vars

\* Every request is answered, an object list with all its fragments.
RequestsAreAnswered == open > 0 ~> open = 0

\* mailbox.c:976: what could not be sent for want of memory is sent later.
PendingIsSent == mb.u8MailboxSendReqStored ~> ~mb.u8MailboxSendReqStored
===============================================================================
