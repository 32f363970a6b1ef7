------------------------- MODULE MailboxAnswers_proofs -------------------------
(***************************************************************************)
(* Proof that each request is answered exactly once, and that the fragments *)
(* of an object list arrive complete and in order, for every heap, number   *)
(* of counters, queue and list, as long as the master leaves no more        *)
(* requests without an answer than the send queue has room for, and none at *)
(* all next to an object list.                                              *)
(*                                                                         *)
(* The proof keeps the books of what the slave owes: a request is in sync   *)
(* manager 0, in the receive queue, in work, or in the hands of the C       *)
(* function that serves it, until its (last) reply is under way; so each    *)
(* step of the slave moves it from one account to the next.                 *)
(***************************************************************************)
EXTENDS MailboxOrder_proofs

\* No request is for a service that may answer, or not, as the compiler likes
\* (FoE), and none too long for the mailbox, whose repetition is refused again.
Plain == {"foe", "long"} \cap Services = {}

\* One request after the other, and room for the fragments of a list.
OneByOne == Window = 1 /\ ~MayStop /\ Fragments + 1 < QueueSize

\* No lists, and room for the replies to all that the master may leave open.
NoLists == "list" \notin Services /\ Window < QueueSize

Fits == Plain /\ (OneByOne \/ NoLists)

\* A request as the master writes it.
IsRequest(mail) == mail.cnt # 0 /\ mail.what \in Services /\ mail.left = 0

\* The request in sync manager 0 is not a repetition.
Unseen(m) == IF m.sm0 # NoMail /\ m.sm0.cnt # m.u8MbxWriteCounter THEN 1 ELSE 0

\* An object list was asked for and not begun.
ListComes(m) == \/ Unseen(m) = 1 /\ m.sm0.what = "list"
                \/ \E i \in DOMAIN m.recvQ : m.recvQ[i].what = "list"

\* What the slave keeps are requests, and all it has put off is a fragment.
Kept(m) ==
  /\ m.pCoeSendStored = NoMail
  /\ m.u8MailboxSendReqStored => m.nSdoInfoFragmentsLeft > 0
  /\ m.pSdoResStored # NoMail =>
       m.pSdoResStored.left = 0 /\ m.pSdoResStored.what \in Services
  /\ \A i \in DOMAIN m.recvQ : m.recvQ[i].what \in Services /\ m.recvQ[i].left = 0

\* The replies U that are under way: every one ends an answer, or they are the
\* fragments of one list, down to the one sent last.
UnderWay(m, U) ==
  /\ \A i \in 1..Len(U) : U[i].left > 0 => U[i].what = "frag"
  /\ OneByOne => /\ m.nSdoInfoFragmentsLeft + Len(U) <= Fragments + 1
                 /\ \A i \in 1..Len(U) : U[i].left = m.nSdoInfoFragmentsLeft + Len(U) - i
  /\ ~OneByOne => /\ m.nSdoInfoFragmentsLeft = 0
                  /\ \A i \in 1..Len(U) : U[i].left = 0

\* The answers that are begun and not accepted.
Begun(m, U) == IF ~OneByOne THEN Len(U)
               ELSE IF m.nSdoInfoFragmentsLeft + Len(U) > 0 THEN 1 ELSE 0

\* What the master w (its request, the fragment it waits for, the requests it
\* left open) knows of the slave.
Asked(m, w) ==
  /\ m.sm0 = NoMail => w.req.cnt = m.u8MbxWriteCounter
  /\ m.sm0 # NoMail => m.sm0 = w.req /\ m.running
  /\ w.req # NoMail => IsRequest(w.req)

Expected(m, U, w) ==
  OneByOne =>
    /\ \/ m.nSdoInfoFragmentsLeft > 0
       \/ U # <<>> /\ U[1].what = "frag"
       => w.left + 1 = m.nSdoInfoFragmentsLeft + Len(U)
    /\ ~m.boot /\ ListComes(m) => w.left = Fragments

\* e requests are in the hands of a C function.
Balance(m, U, e, w) ==
  w.open = e + Unseen(m) + Received(m) + Busy(m) + Begun(m, U) /\ w.open <= Window

Books(m, U, e, w) ==
  Kept(m) /\ UnderWay(m, U) /\ Asked(m, w) /\ Expected(m, U, w) /\ Balance(m, U, e, w)

Master1   == [req |-> req, left |-> left, open |-> open]
Awaited   == Rest(Chain(mb), got)
Answering == Books(mb, Awaited, 0, Master1)
-------------------------------------------------------------------------------
(* The books of a record that has changed little.                            *)

\* The fields the books are kept from.
Noted == {"running", "boot", "sm0", "recvQ", "u8MbxWriteCounter", "pSdoResStored",
          "pCoeSendStored", "nSdoInfoFragmentsLeft", "u8MailboxSendReqStored"}

\* What the master may know.
Masters == [req : Mails, left : 0..Fragments, open : Nat]

LEMMA NotedFields ==
  ASSUME NEW m, NEW k, Same(m, k, Noted \ {"nSdoInfoFragmentsLeft", "u8MailboxSendReqStored"})
  PROVE  /\ k.running = m.running /\ k.boot = m.boot /\ k.sm0 = m.sm0 /\ k.recvQ = m.recvQ
         /\ k.u8MbxWriteCounter = m.u8MbxWriteCounter /\ k.pSdoResStored = m.pSdoResStored
         /\ k.pCoeSendStored = m.pCoeSendStored
         /\ Unseen(k) = Unseen(m) /\ Received(k) = Received(m) /\ Busy(k) = Busy(m)
         /\ ListComes(k) <=> ListComes(m)
         /\ \A w : Asked(m, w) => Asked(k, w)
BY DEF Same, Noted, Unseen, Received, Busy, SdoBusy, ListComes, Asked

LEMMA SameBooks ==
  ASSUME NEW m, NEW k, NEW U, NEW e, NEW w, Same(m, k, Noted), Books(m, U, e, w)
  PROVE  Books(k, U, e, w)
<1>1. Same(m, k, Noted \ {"nSdoInfoFragmentsLeft", "u8MailboxSendReqStored"})
  BY DEF Same
<1>2. /\ k.nSdoInfoFragmentsLeft = m.nSdoInfoFragmentsLeft
      /\ k.u8MailboxSendReqStored = m.u8MailboxSendReqStored
  BY DEF Same, Noted
<1>3. Kept(k) /\ UnderWay(k, U) /\ Asked(k, w)
  BY <1>1, <1>2, NotedFields DEF Books, Kept, UnderWay
<1>4. Begun(k, U) = Begun(m, U)
  BY <1>2 DEF Begun
<1>5. Expected(k, U, w)
  BY <1>1, <1>2, NotedFields DEF Books, Expected
<1>6. Balance(k, U, e, w)
  BY <1>1, <1>4, NotedFields DEF Books, Balance
<1> QED  BY <1>3, <1>5, <1>6 DEF Books

LEMMA BookTypes ==
  ASSUME NEW m \in MbType, NEW U \in Seq(Mails)
  PROVE  /\ Unseen(m) \in 0..1 /\ Received(m) \in Nat /\ Busy(m) \in 0..1
         /\ Begun(m, U) \in Nat /\ Len(U) \in Nat /\ Queued(m) \in Nat
         /\ m.nSdoInfoFragmentsLeft \in 0..Fragments
<1>1. /\ Received(m) \in Nat /\ Busy(m) \in 0..1 /\ Queued(m) \in Nat
      /\ m.nSdoInfoFragmentsLeft \in 0..Fragments
  BY LengthTypes
<1>2. Len(U) \in Nat /\ Unseen(m) \in 0..1
  BY LenProperties DEF Unseen
<1>3. Begun(m, U) \in Nat
  BY <1>2 DEF Begun
<1> QED  BY <1>1, <1>2, <1>3

\* While one request is in hand, nothing else is open but to a master that may
\* leave more than one, and then there are no lists.
LEMMA InHand ==
  ASSUME Fits, NEW m \in MbType, NEW U \in Seq(Mails), NEW w \in Masters, Books(m, U, 1, w)
  PROVE  /\ OneByOne => /\ Unseen(m) = 0 /\ Received(m) = 0 /\ Busy(m) = 0 /\ w.open = 1
                        /\ m.nSdoInfoFragmentsLeft = 0 /\ Len(U) = 0 /\ U = <<>>
         /\ ~OneByOne => /\ NoLists /\ m.nSdoInfoFragmentsLeft = 0 /\ Len(U) + 1 <= Window
<1>1. /\ Unseen(m) \in 0..1 /\ Received(m) \in Nat /\ Busy(m) \in 0..1
      /\ Begun(m, U) \in Nat /\ Len(U) \in Nat /\ m.nSdoInfoFragmentsLeft \in Nat
      /\ w.open \in Nat /\ Window \in Nat
  BY BookTypes, SizesAssumption DEF Masters
<1>2. w.open = 1 + Unseen(m) + Received(m) + Busy(m) + Begun(m, U) /\ w.open <= Window
  BY DEF Books, Balance
<1>3. ASSUME OneByOne
      PROVE  /\ Unseen(m) = 0 /\ Received(m) = 0 /\ Busy(m) = 0 /\ w.open = 1
             /\ m.nSdoInfoFragmentsLeft = 0 /\ Len(U) = 0 /\ U = <<>>
  <2>1. Unseen(m) = 0 /\ Received(m) = 0 /\ Busy(m) = 0 /\ w.open = 1 /\ Begun(m, U) = 0
    BY <1>1, <1>2, <1>3 DEF OneByOne
  <2>2. ~(m.nSdoInfoFragmentsLeft + Len(U) > 0)
    BY <1>3, <2>1 DEF Begun
  <2>3. m.nSdoInfoFragmentsLeft = 0 /\ Len(U) = 0
    BY <1>1, <2>2
  <2> QED  BY <2>1, <2>3, EmptySeq
<1>4. ASSUME ~OneByOne
      PROVE  NoLists /\ m.nSdoInfoFragmentsLeft = 0 /\ Len(U) + 1 <= Window
  <2>1. Begun(m, U) = Len(U)
    BY <1>4 DEF Begun
  <2>2. Len(U) + 1 <= Window
    BY <1>1, <1>2, <2>1
  <2> QED  BY <1>4, <2>2 DEF Fits, Books, UnderWay
<1> QED  BY <1>3, <1>4

\* The send queue is never full when a reply is sent.
LEMMA AlwaysRoom ==
  ASSUME Fits, NEW m \in MbType, NEW U \in Seq(Mails), NEW w \in Masters, Queued(m) <= Len(U),
         \/ Books(m, U, 1, w)
         \/ Books(m, U, 0, w) /\ m.nSdoInfoFragmentsLeft > 0
  PROVE  Room(m)
<1>1. /\ Len(U) \in Nat /\ Queued(m) \in Nat /\ m.nSdoInfoFragmentsLeft \in Nat
      /\ Fragments \in Nat /\ QueueSize \in Nat /\ QueueSize >= 3 /\ Window \in Nat
  BY BookTypes, SizesAssumption
<1>2. Len(U) < QueueSize - 1
  <2>1. CASE Books(m, U, 1, w)
    <3>1. CASE OneByOne
      <4>1. Len(U) = 0
        BY <2>1, <3>1, InHand
      <4> QED  BY <1>1, <4>1
    <3>2. CASE ~OneByOne
      <4>1. Window < QueueSize /\ Len(U) + 1 <= Window
        BY <2>1, <3>2, InHand DEF NoLists
      <4> QED  BY <1>1, <4>1
    <3> QED  BY <3>1, <3>2
  <2>2. CASE Books(m, U, 0, w) /\ m.nSdoInfoFragmentsLeft > 0
    <3>1. OneByOne /\ m.nSdoInfoFragmentsLeft + Len(U) <= Fragments + 1
      BY <1>1, <2>2 DEF Books, UnderWay
    <3>2. Fragments + 1 < QueueSize
      BY <3>1 DEF OneByOne
    <3> QED  BY <1>1, <2>2, <3>1, <3>2
  <2> QED  BY <2>1, <2>2
<1>3. Len(m.sendQ) # QueueSize - 1
  BY <1>1, <1>2 DEF Queued
<1> QED  BY <1>3 DEF Room, QueueFull
-------------------------------------------------------------------------------
(* A reply more.                                                             *)

\* x went into the send mailbox or to the end of the queue.
Posted(m, k, x) ==
  /\ k.bSendMbxIsFull
  /\ IF m.bSendMbxIsFull THEN k.sendQ = Append(m.sendQ, x)
     ELSE k.sm1 = x /\ k.sendQ = m.sendQ

\* U is under way in m, and V in k.
Extended(m, k, U, V) ==
  \/ Same(m, k, Chained) /\ V = U
  \/ \E x \in Mails : Posted(m, k, x) /\ V = Append(U, x)

LEMMA SameExtended ==
  ASSUME NEW m, NEW l, NEW k, NEW U, NEW V, Same(m, l, Chained), Extended(l, k, U, V)
  PROVE  Extended(m, k, U, V)
<1>1. CASE Same(l, k, Chained) /\ V = U
  BY <1>1 DEF Extended, Same
<1>2. CASE \E x \in Mails : Posted(l, k, x) /\ V = Append(U, x)
  BY <1>2, ChainedFields DEF Extended, Posted
<1> QED  BY <1>1, <1>2 DEF Extended

LEMMA ExtendedSame ==
  ASSUME NEW m, NEW l, NEW k, NEW U, NEW V, Extended(m, l, U, V), Same(l, k, Chained)
  PROVE  Extended(m, k, U, V)
<1>1. CASE Same(m, l, Chained) /\ V = U
  BY <1>1 DEF Extended, Same
<1>2. CASE \E x \in Mails : Posted(m, l, x) /\ V = Append(U, x)
  BY <1>2, ChainedFields DEF Extended, Posted
<1> QED  BY <1>1, <1>2 DEF Extended

LEMMA SameAppend ==
  ASSUME NEW q \in Seq(Mails), NEW x \in Mails, NEW y \in Mails
  PROVE  /\ Append(q, x) # q
         /\ Append(q, x) = Append(q, y) => x = y
<1>1. /\ Len(Append(q, x)) = Len(q) + 1 /\ Len(q) \in Nat
      /\ Append(q, x)[Len(q) + 1] = x /\ Append(q, y)[Len(q) + 1] = y
  BY AppendProperties, LenProperties
<1> QED  BY <1>1

\* The reply that is posted is the one the master will find last.
LEMMA PostedRest ==
  ASSUME NEW m, NEW k, Sound(m, {}), Sound(k, {}), Sends(m, k),
         NEW x \in Mails, Posted(m, k, x), NEW g \in Mails, Known(m, g)
  PROVE  Rest(Chain(k), g) = Append(Rest(Chain(m), g), x)
<1> DEFINE R == Chain(m)
<1>1. m \in MbType /\ Shape(m) /\ m.sendQ \in Seq(Mails)
  BY DEF Sound, MbType
<1>2. R \in Seq(Mails) /\ Numbered(R, Upcoming(m)) /\ Upcoming(m) \in 1..Counters
  BY <1>1, ChainForms, UpcomingTurns DEF Known, Linked
<1>3. Accepted(g, R)
  BY SeenAccepted DEF Known
<1>4. R = <<>> => After(g.cnt) = Upcoming(m)
  <2> SUFFICES ASSUME R = <<>> PROVE After(g.cnt) = Upcoming(m)
    OBVIOUS
  <2>1. g = NoMail /\ m.u8MbxReadCounter = 0
    BY DEF Known, Seen, Linked
  <2> QED  BY <2>1, AfterDiffers, SizesAssumption DEF NoMail, Upcoming
<1>5. ~Same(m, k, Chained)
  <2> SUFFICES ASSUME Same(m, k, Chained) PROVE FALSE
    OBVIOUS
  <2>1. k.bSendMbxIsFull = m.bSendMbxIsFull /\ k.sendQ = m.sendQ
    BY ChainedFields
  <2> QED  BY <1>1, <2>1, SameAppend DEF Posted
<1>6. Sends1(m, k)
  BY <1>5 DEF Sends
<1>7. PICK y \in Mails : /\ y.cnt = Upcoming(m) /\ Chain(k) = Append(R, y)
                         /\ ~m.bSendMbxIsFull => k.sm1 = y
                         /\ m.bSendMbxIsFull => k.sendQ = Append(m.sendQ, y)
  BY <1>6, SendsAppends
<1>8. x = y
  BY <1>1, <1>7, SameAppend DEF Posted
<1> HIDE DEF R
<1>9. Rest(Append(R, x), g) = Append(Rest(R, g), x)
  BY <1>2, <1>3, <1>4, <1>7, <1>8, RestAppend
<1> QED  BY <1>7, <1>8, <1>9 DEF R

LEMMA ExtendedRest ==
  ASSUME NEW m, NEW k, Sound(m, {}), Sound(k, {}), Sends(m, k), NEW g \in Mails, Known(m, g),
         NEW V, Extended(m, k, Rest(Chain(m), g), V)
  PROVE  V = Rest(Chain(k), g)
<1>1. CASE Same(m, k, Chained) /\ V = Rest(Chain(m), g)
  BY <1>1, SameKnown
<1>2. CASE \E x \in Mails : Posted(m, k, x) /\ V = Append(Rest(Chain(m), g), x)
  BY <1>2, PostedRest
<1> QED  BY <1>1, <1>2 DEF Extended

\* All the replies in the queue are under way.
LEMMA QueueUnderWay ==
  ASSUME NEW m, Sound(m, {}), NEW g \in Mails, Known(m, g)
  PROVE  Queued(m) <= Len(Rest(Chain(m), g)) /\ Rest(Chain(m), g) \in Seq(Mails)
<1> DEFINE R == Chain(m)
           q == m.sendQ
           r == m.psReadMbx
           p == m.psRepeatMbx
           s == IfMail(m.psStoreMbx)
<1>1. /\ m \in MbType /\ Shape(m) /\ q \in Seq(Mails) /\ r \in Mails /\ p \in Mails
      /\ R \in Seq(Mails) /\ Numbered(R, Upcoming(m)) /\ s \o q \in Seq(Mails)
      /\ Len(q) \in Nat
  BY ChainForms, LenProperties DEF Sound, Known, Linked
<1>2. Accepted(g, R) /\ Rest(R, g) \in Seq(Mails)
  BY SeenAccepted DEF Known
<1>3. Len(Rest(R, g)) \in Nat
  BY <1>2, LenProperties
<1>4. CASE ~m.bSendMbxIsFull
  <2>1. q = <<>>
    BY <1>1, <1>4 DEF Shape
  <2>2. Len(q) = 0
    BY <2>1
  <2> HIDE DEF q, R
  <2> QED  BY <1>2, <1>3, <2>2 DEF Queued, q, R
<1>5. CASE m.bSendMbxIsFull /\ p # NoMail
  <2> DEFINE t == <<r>> \o q
  <2>1. R = <<p>> \o t
    BY <1>1, <1>5, ChainForms
  <2>2. t \in Seq(Mails) /\ Tail(t) = q /\ Len(t) = 1 + Len(q)
    BY <1>1, Cons
  <2> HIDE DEF t, R
  <2>3. Tail(R) = t /\ Len(R) = 1 + Len(t) /\ R # <<>>
    BY <1>1, <2>1, <2>2, Cons
  <2> HIDE DEF q, p, r
  <2>4. Len(R) = 2 + Len(q) /\ Len(R) >= 2
    BY <1>1, <2>2, <2>3
  <2>5. CASE Before(g, R)
    <3>1. Rest(R, g) = R
      BY <1>1, <2>5, RestNew
    <3> QED  BY <1>1, <1>2, <2>4, <3>1 DEF Queued, q, R
  <2>6. CASE g = R[1]
    <3>1. Rest(R, g) = t
      BY <1>1, <2>3, <2>6, RestFirst
    <3> QED  BY <1>1, <1>2, <2>2, <3>1 DEF Queued, q, R
  <2>7. CASE g = R[2]
    <3>1. Rest(R, g) = q
      BY <1>1, <2>2, <2>3, <2>4, <2>7, RestSecond
    <3> QED  BY <1>1, <1>2, <3>1 DEF Queued, q, R
  <2> QED  BY <1>2, <2>5, <2>6, <2>7 DEF Accepted
<1>6. CASE m.bSendMbxIsFull /\ p = NoMail
  <2> DEFINE t == s \o q
  <2>1. R = <<r>> \o t
    BY <1>1, <1>6, ChainForms
  <2>2. t \in Seq(Mails) /\ Len(t) \in Nat /\ Len(q) <= Len(t)
    <3>1. s \in Seq(Mails) /\ Len(s) \in Nat
      <4>1. m.psStoreMbx \in Mails
        BY <1>1 DEF MbType
      <4>2. s \in Seq(Mails)
        BY <4>1, EmptySeq DEF IfMail
      <4> QED  BY <4>2, LenProperties
    <3> HIDE DEF s, q
    <3>2. Len(t) = Len(s) + Len(q)
      BY <1>1, <3>1, ConcatProperties
    <3> QED  BY <1>1, <3>1, <3>2
  <2> HIDE DEF t, R
  <2>3. Tail(R) = t /\ Len(R) = 1 + Len(t) /\ R # <<>>
    BY <1>1, <2>1, <2>2, Cons
  <2> HIDE DEF q
  <2>4. CASE Before(g, R)
    <3>1. Rest(R, g) = R
      BY <1>1, <2>4, RestNew
    <3>2. Len(q) <= Len(R)
      BY <1>1, <2>2, <2>3
    <3> QED  BY <1>2, <3>1, <3>2 DEF Queued, q, R
  <2>5. CASE g = R[1]
    <3>1. Rest(R, g) = t
      BY <1>1, <2>3, <2>5, RestFirst
    <3> QED  BY <1>2, <2>2, <3>1 DEF Queued, q, R
  <2>6. Before(g, R) \/ g = R[1]
    BY <1>6, <2>3 DEF Known, Seen, Before, R
  <2> QED  BY <2>4, <2>5, <2>6
<1> QED  BY <1>4, <1>5, <1>6
-------------------------------------------------------------------------------
(* A request in hand goes into another account.                               *)

LEMMA OneMore ==
  ASSUME NEW U \in Seq(Mails), NEW x \in Mails
  PROVE  LET V == Append(U, x)
         IN  /\ V \in Seq(Mails) /\ Len(V) = Len(U) + 1 /\ Len(U) \in Nat /\ V # <<>>
             /\ \A i \in 1..Len(U) : V[i] = U[i]
             /\ V[Len(U) + 1] = x
             /\ U # <<>> => V[1] = U[1]
             /\ U = <<>> => V[1] = x /\ Len(V) = 1
<1>1. /\ Append(U, x) \in Seq(Mails) /\ Len(Append(U, x)) = Len(U) + 1 /\ Len(U) \in Nat
      /\ \A i \in 1..Len(U) : Append(U, x)[i] = U[i]
      /\ Append(U, x)[Len(U) + 1] = x /\ Append(U, x) # <<>>
  BY AppendProperties, LenProperties
<1>2. U # <<>> => 1 \in 1..Len(U)
  BY <1>1, EmptySeq
<1>3. U = <<>> => Len(U) = 0
  BY EmptySeq
<1> QED  BY <1>1, <1>2, <1>3

\* It was answered.
LEMMA AnswerBooks ==
  ASSUME Fits, NEW m \in MbType, NEW U \in Seq(Mails), NEW w \in Masters, Books(m, U, 1, w),
         NEW x \in Mails, x.left = 0, x.what # "frag"
  PROVE  Books(m, Append(U, x), 0, w)
<1> DEFINE V == Append(U, x)
           n == m.nSdoInfoFragmentsLeft
<1>1. /\ V \in Seq(Mails) /\ Len(V) = Len(U) + 1 /\ Len(U) \in Nat /\ V # <<>>
      /\ \A i \in 1..Len(U) : V[i] = U[i]
      /\ V[Len(U) + 1] = x
      /\ U = <<>> => V[1] = x /\ Len(V) = 1
  BY OneMore
<1> HIDE DEF V
<1>2. /\ Unseen(m) \in 0..1 /\ Received(m) \in Nat /\ Busy(m) \in 0..1
      /\ Begun(m, U) \in Nat /\ n \in Nat /\ n = 0 /\ w.open \in Nat /\ Fragments \in Nat
  BY BookTypes, InHand, SizesAssumption DEF Masters
<1>3. ASSUME NEW i \in 1..Len(V)
      PROVE  V[i].left = 0
  <2>1. CASE i = Len(U) + 1
    BY <1>1, <2>1
  <2>2. CASE i # Len(U) + 1
    <3>1. i \in 1..Len(U) /\ V[i] = U[i]
      BY <1>1, <2>2
    <3>2. ~OneByOne
      BY <1>1, <3>1, InHand
    <3> QED  BY <3>1, <3>2 DEF Books, UnderWay
  <2> QED  BY <2>1, <2>2
<1>4. CASE OneByOne
  <2>1. Len(V) = 1 /\ V[1] = x /\ Begun(m, U) = 0
    BY <1>1, <1>2, <1>4, InHand DEF Begun
  <2>2. Begun(m, V) = 1
    BY <1>2, <1>4, <2>1 DEF Begun
  <2>3. UnderWay(m, V)
    <3>1. \A i \in 1..Len(V) : V[i].left = n + Len(V) - i
      BY <1>2, <1>3, <2>1
    <3>2. n + Len(V) <= Fragments + 1
      BY <1>2, <2>1
    <3>3. \A i \in 1..Len(V) : ~(V[i].left > 0)
      BY <1>3
    <3> QED  BY <1>4, <3>1, <3>2, <3>3 DEF UnderWay
  <2>4. Balance(m, V, 0, w)
    BY <1>2, <2>1, <2>2 DEF Books, Balance
  <2>5. Expected(m, V, w)
    BY <1>2, <2>1 DEF Books, Expected
  <2> QED  BY <2>3, <2>4, <2>5 DEF Books, V
<1>5. CASE ~OneByOne
  <2>1. Begun(m, V) = Begun(m, U) + 1
    BY <1>1, <1>5 DEF Begun
  <2>2. UnderWay(m, V)
    <3>1. \A i \in 1..Len(V) : ~(V[i].left > 0)
      BY <1>3
    <3> QED  BY <1>2, <1>3, <1>5, <3>1 DEF UnderWay
  <2>3. Balance(m, V, 0, w)
    <3>1. /\ w.open = 1 + Unseen(m) + Received(m) + Busy(m) + Begun(m, U)
          /\ w.open <= Window
      BY DEF Books, Balance
    <3>2. /\ Unseen(m) \in Nat /\ Received(m) \in Nat /\ Busy(m) \in Nat
          /\ Begun(m, U) \in Nat
      BY <1>2
    <3>3. w.open = 0 + Unseen(m) + Received(m) + Busy(m) + Begun(m, V)
      BY <2>1, <3>1, <3>2
    <3> QED  BY <3>1, <3>3 DEF Balance
  <2>4. Expected(m, V, w)
    BY <1>5 DEF Expected
  <2> QED  BY <2>2, <2>3, <2>4 DEF Books, V
<1> QED  BY <1>4, <1>5

\* The next fragment of the list in work.
LEMMA NextFragmentBooks ==
  ASSUME Fits, NEW m \in MbType, NEW k, NEW U \in Seq(Mails), NEW w \in Masters,
         Books(m, U, 0, w), m.nSdoInfoFragmentsLeft > 0,
         Same(m, k, Noted \ {"nSdoInfoFragmentsLeft", "u8MailboxSendReqStored"}),
         k.nSdoInfoFragmentsLeft = m.nSdoInfoFragmentsLeft - 1,
         k.u8MailboxSendReqStored => k.nSdoInfoFragmentsLeft > 0,
         NEW x \in Mails, x.left = k.nSdoInfoFragmentsLeft, x.what = "frag"
  PROVE  Books(k, Append(U, x), 0, w)
<1> DEFINE V == Append(U, x)
           n == m.nSdoInfoFragmentsLeft
           j == k.nSdoInfoFragmentsLeft
<1>1. /\ V \in Seq(Mails) /\ Len(V) = Len(U) + 1 /\ Len(U) \in Nat /\ V # <<>>
      /\ \A i \in 1..Len(U) : V[i] = U[i]
      /\ V[Len(U) + 1] = x
      /\ U # <<>> => V[1] = U[1]
      /\ U = <<>> => V[1] = x /\ Len(V) = 1
  BY OneMore
<1> HIDE DEF V
<1>2. /\ Begun(m, U) \in Nat /\ n \in Nat /\ n > 0 /\ j = n - 1 /\ OneByOne
  BY BookTypes DEF Books, UnderWay
<1> HIDE DEF n, j
<1>3. j + Len(V) = n + Len(U) /\ j \in Nat
  BY <1>1, <1>2
<1>4. Begun(k, V) = Begun(m, U)
  <2>1. j + Len(V) > 0 /\ n + Len(U) > 0
    BY <1>1, <1>2, <1>3
  <2> QED  BY <1>2, <2>1 DEF Begun, n, j
<1>5. UnderWay(k, V)
  <2>1. j + Len(V) <= Fragments + 1
    BY <1>2, <1>3 DEF Books, UnderWay, n
  <2>2. ASSUME NEW i \in 1..Len(V)
        PROVE  V[i].left = j + Len(V) - i /\ (V[i].left > 0 => V[i].what = "frag")
    <3>1. CASE i = Len(U) + 1
      <4>1. j + (Len(U) + 1) - (Len(U) + 1) = j
        BY <1>1, <1>3
      <4> QED  BY <1>1, <3>1, <4>1 DEF j
    <3>2. CASE i # Len(U) + 1
      <4>1. i \in 1..Len(U) /\ V[i] = U[i]
        BY <1>1, <3>2
      <4>2. U[i].left = n + Len(U) - i /\ (U[i].left > 0 => U[i].what = "frag")
        BY <1>2, <4>1 DEF Books, UnderWay, n
      <4>3. n + Len(U) - i = j + Len(V) - i
        BY <1>1, <1>2, <1>3
      <4> QED  BY <4>1, <4>2, <4>3
    <3> QED  BY <3>1, <3>2
  <2> QED  BY <1>2, <2>1, <2>2 DEF UnderWay, j
<1>6. w.left + 1 = j + Len(V)
  BY <1>2, <1>3 DEF Books, Expected, n
<1>7. Expected(k, V, w)
  BY <1>2, <1>6, NotedFields DEF Books, Expected, j
<1>8. Balance(k, V, 0, w)
  BY <1>4, NotedFields DEF Books, Balance
<1>9. Kept(k) /\ Asked(k, w)
  BY NotedFields DEF Books, Kept
<1> QED  BY <1>5, <1>7, <1>8, <1>9 DEF Books, V

\* The first fragment of a list.
LEMMA FirstFragmentBooks ==
  ASSUME Fits, OneByOne, NEW m \in MbType, NEW k, NEW U \in Seq(Mails), NEW w \in Masters,
         Books(m, U, 1, w), w.left = Fragments,
         Same(m, k, Noted \ {"nSdoInfoFragmentsLeft", "u8MailboxSendReqStored"}),
         k.nSdoInfoFragmentsLeft = Fragments,
         NEW x \in Mails, x.left = Fragments, x.what = "frag"
  PROVE  Books(k, Append(U, x), 0, w)
<1> DEFINE V == Append(U, x)
<1>1. /\ V \in Seq(Mails) /\ V # <<>> /\ U = <<>> /\ V[1] = x /\ Len(V) = 1
      /\ Unseen(m) = 0 /\ Received(m) = 0 /\ Busy(m) = 0 /\ w.open = 1
  BY OneMore, InHand
<1> HIDE DEF V
<1>2. Fragments \in Nat /\ Fragments > 0
  BY SizesAssumption
<1>3. Begun(k, V) = 1
  BY <1>1, <1>2 DEF Begun
<1>4. UnderWay(k, V)
  <2>1. \A i \in 1..Len(V) : i = 1 /\ V[i].left = Fragments + Len(V) - i /\ V[i].what = "frag"
    BY <1>1, <1>2
  <2> QED  BY <1>1, <1>2, <2>1 DEF UnderWay
<1>5. Expected(k, V, w)
  BY <1>1, <1>2 DEF Expected
<1>6. Balance(k, V, 0, w)
  <2>1. Unseen(k) = 0 /\ Received(k) = 0 /\ Busy(k) = 0
    BY <1>1, NotedFields
  <2>2. w.open <= Window
    BY DEF Books, Balance
  <2> QED  BY <1>1, <1>3, <2>1, <2>2 DEF Balance
<1>7. Kept(k) /\ Asked(k, w)
  BY <1>2, NotedFields DEF Books, Kept
<1> QED  BY <1>4, <1>5, <1>6, <1>7 DEF Books, V
-------------------------------------------------------------------------------
(* What the C functions send.                                                *)

Posts(m, k, what, n) == \E x \in Mails : x.what = what /\ x.left = n /\ Posted(m, k, x)

LEMMA NotedAside ==
  ASSUME NEW m, NEW k, Same(m, k, Aside)
  PROVE  Same(m, k, Noted \ {"u8MailboxSendReqStored"})
BY DEF Same, Aside, Noted

\* k is m with mail sent, and the fragments that follow are put off.
Mailed(m, k, mail, coe, more) ==
  /\ k \in MbType /\ Posts(m, k, mail.what, mail.left)
  /\ Same(m, k, Noted \ {"u8MailboxSendReqStored"})
  /\ k.u8MailboxSendReqStored = (m.u8MailboxSendReqStored \/ (coe /\ more))

LEMMA SendReqPosts ==
  ASSUME NEW m \in MbType, NEW mail \in Mails, NEW coe, NEW more, m.running, Room(m)
  PROVE  LET r == MBX_MailboxSendReq(m, mail, coe, more)
         IN  r.ok /\ Mailed(m, r.m, mail, coe, more)
<1> DEFINE cnt == Upcoming(m)
           new == [mail EXCEPT !.cnt = cnt]
           m1  == [m EXCEPT !.u8MbxReadCounter = NextCounter(cnt),
                            !.u8MailboxSendReqStored = @ \/ (coe /\ more)]
           r   == MBX_MailboxSendReq(m, mail, coe, more)
<1>1. cnt \in 0..Counters /\ NextCounter(cnt) \in 0..Counters
  <2>1. cnt \in 0..Counters
    BY UpcomingTurns
  <2> QED  BY <2>1, NextCounterType
<1>2. new \in Mails /\ new.what = mail.what /\ new.left = mail.left
  BY <1>1 DEF Mails
<1>3. /\ r.ok /\ r.m \in MbType /\ Same(m, r.m, Noted \ {"u8MailboxSendReqStored"})
      /\ r.m.u8MailboxSendReqStored = (m.u8MailboxSendReqStored \/ (coe /\ more))
      /\ r.m.bSendMbxIsFull
  <2>1. Answer(r, m, mail, coe, more)
    BY MBX_MailboxSendReqSends
  <2> HIDE DEF r
  <2> QED  BY <2>1, NotedAside DEF Answer, Sent
<1>4. /\ m1 \in MbType /\ m1.sendQ = m.sendQ
  BY <1>1 DEF MbType
<1>5. Posted(m, r.m, new)
  <2>1. CASE ~m.bSendMbxIsFull
    <3>1. r.m = MBX_CopyToSendMailbox(m1, new)
      BY <2>1 DEF MBX_MailboxSendReq, Upcoming
    <3> HIDE DEF new, m1, r
    <3>2. r.m.sm1 = new /\ r.m.sendQ = m.sendQ
      BY <1>4, <3>1 DEF MBX_CopyToSendMailbox, MbType
    <3> QED  BY <1>3, <2>1, <3>2 DEF Posted
  <2>2. CASE m.bSendMbxIsFull
    <3>1. r.m = [m1 EXCEPT !.sendQ = Append(@, new)]
      BY <2>2 DEF MBX_MailboxSendReq, Upcoming, Room
    <3> HIDE DEF new, m1, r
    <3>2. r.m.sendQ = Append(m.sendQ, new)
      BY <1>4, <3>1 DEF MbType
    <3> QED  BY <1>3, <2>2, <3>2 DEF Posted
  <2> QED  BY <2>1, <2>2
<1> HIDE DEF new, r
<1>6. Posts(m, r.m, mail.what, mail.left)
  BY <1>2, <1>5 DEF Posts
<1> QED  BY <1>3, <1>6 DEF Mailed, r

LEMMA SendErrorPosts ==
  ASSUME NEW m \in MbType, NEW mail \in Mails, m.running, Room(m)
  PROVE  LET k == SendError(m, mail)
         IN  k \in MbType /\ Posts(m, k, "err", 0) /\ Same(m, k, Noted)
<1> DEFINE e == [mail EXCEPT !.what = "err", !.left = 0]
           r == MBX_MailboxSendReq(m, e, FALSE, FALSE)
<1>1. e \in Mails /\ e.what = "err" /\ e.left = 0
  <2>1. e \in Mails
    BY MailFacts
  <2>2. e.what = "err" /\ e.left = 0
    BY DEF Mails
  <2> QED  BY <2>1, <2>2
<1>2. SendError(m, mail) = r.m
  BY DEF SendError
<1> HIDE DEF e
<1>3. Mailed(m, r.m, e, FALSE, FALSE)
  BY <1>1, SendReqPosts
<1> HIDE DEF r
<1>4. /\ r.m \in MbType /\ Posts(m, r.m, e.what, e.left)
      /\ Same(m, r.m, Noted \ {"u8MailboxSendReqStored"})
      /\ r.m.u8MailboxSendReqStored = (m.u8MailboxSendReqStored \/ (FALSE /\ FALSE))
  BY <1>3 DEF Mailed
<1>5. r.m.u8MailboxSendReqStored = m.u8MailboxSendReqStored
  BY <1>4 DEF MbType
<1>6. Same(m, r.m, Noted)
  BY <1>4, <1>5 DEF Same
<1> QED  BY <1>1, <1>2, <1>4, <1>6

LEMMA SendCoePosts ==
  ASSUME NEW m \in MbType, NEW mail \in Mails, NEW more \in BOOLEAN, m.running, Room(m)
  PROVE  LET k == SendCoe(m, mail, more)
         IN  Mailed(m, k, mail, TRUE, more)
<1> DEFINE r == MBX_MailboxSendReq(m, mail, TRUE, more)
<1>1. r.ok /\ Mailed(m, r.m, mail, TRUE, more)
  BY SendReqPosts
<1>2. SendCoe(m, mail, more) = r.m
  BY <1>1 DEF SendCoe
<1> HIDE DEF r
<1> QED  BY <1>1, <1>2

LEMMA SDOS_SdoInfoIndPosts ==
  ASSUME NEW m \in MbType, NEW mail \in Mails, m.running, Room(m)
  PROVE  LET k == SDOS_SdoInfoInd(m, mail)
         IN  /\ k \in MbType /\ Posts(m, k, "frag", NextLeft(m))
             /\ Same(m, k, Noted \ {"nSdoInfoFragmentsLeft", "u8MailboxSendReqStored"})
             /\ ListGoesOn(m, k)
<1> DEFINE n == NextLeft(m)
           l == [m EXCEPT !.nSdoInfoFragmentsLeft = n]
           f == [mail EXCEPT !.what = "frag", !.left = n]
           k == SendCoe(l, f, n > 0)
<1>1. SDOS_SdoInfoInd(m, mail) = k
  BY DEF SDOS_SdoInfoInd, NextLeft
<1>2. n \in 0..Fragments
  BY LengthTypes
<1>3. f \in Mails /\ f.what = "frag" /\ f.left = n
  <2> HIDE DEF n
  <2>1. f \in Mails
    BY <1>2, MailFacts
  <2>2. f.what = "frag" /\ f.left = n
    BY DEF Mails
  <2> QED  BY <2>1, <2>2
<1>4. (n > 0) \in BOOLEAN
  OBVIOUS
<1> HIDE DEF n
<1>5. /\ l \in MbType /\ Same(m, l, Chained) /\ l.nSdoInfoFragmentsLeft = n
      /\ Same(m, l, Noted \ {"nSdoInfoFragmentsLeft"})
  BY <1>2 DEF MbType, Same, Chained, Noted
<1> HIDE DEF l, f
<1>6. /\ l.running /\ Room(l) /\ l.u8MailboxSendReqStored = m.u8MailboxSendReqStored
  BY <1>5, ChainedFields DEF Same, Noted, Room
<1>7. Mailed(l, k, f, TRUE, n > 0)
  BY <1>3, <1>4, <1>5, <1>6, SendCoePosts
<1> HIDE DEF k
<1>8. /\ k \in MbType /\ Posts(l, k, f.what, f.left)
      /\ Same(l, k, Noted \ {"u8MailboxSendReqStored"})
      /\ k.u8MailboxSendReqStored = (l.u8MailboxSendReqStored \/ (TRUE /\ n > 0))
  BY <1>7 DEF Mailed
<1>9. Posts(m, k, "frag", n)
  BY <1>3, <1>5, <1>8, ChainedFields DEF Posts, Posted
<1>10. /\ Same(m, k, Noted \ {"nSdoInfoFragmentsLeft", "u8MailboxSendReqStored"})
      /\ k.nSdoInfoFragmentsLeft = n
  BY <1>5, <1>8 DEF Same, Noted
<1>11. ListGoesOn(m, k)
  BY <1>6, <1>8, <1>10 DEF ListGoesOn, n
<1> QED  BY <1>1, <1>8, <1>9, <1>10, <1>11 DEF n
-------------------------------------------------------------------------------
(* The books of what the C functions do.                                      *)

\* A step from m to k when U is under way: nothing is left in hand.
Does(m, k, U, w) ==
  k \in MbType /\ \E V \in Seq(Mails) : Extended(m, k, U, V) /\ Books(k, V, 0, w)

LEMMA SameDoes ==
  ASSUME NEW m, NEW l, NEW k, NEW U, NEW w, Same(m, l, Chained), Does(l, k, U, w)
  PROVE  Does(m, k, U, w)
BY SameExtended DEF Does

LEMMA AnswerDoes ==
  ASSUME Fits, NEW m \in MbType, NEW k \in MbType, NEW U \in Seq(Mails), NEW w \in Masters,
         Books(m, U, 1, w), NEW what, what # "frag", Posts(m, k, what, 0), Same(m, k, Noted)
  PROVE  Does(m, k, U, w)
<1>1. PICK x \in Mails : x.what = what /\ x.left = 0 /\ Posted(m, k, x)
  BY DEF Posts
<1> DEFINE V == Append(U, x)
<1>2. V \in Seq(Mails) /\ Books(m, V, 0, w)
  BY <1>1, OneMore, AnswerBooks
<1>3. Extended(m, k, U, V)
  BY <1>1 DEF Extended
<1> HIDE DEF V
<1>4. Books(k, V, 0, w)
  BY <1>2, SameBooks
<1> QED  BY <1>2, <1>3, <1>4 DEF Does

LEMMA SendErrorDoes ==
  ASSUME Fits, NEW m \in MbType, NEW mail \in Mails, m.running,
         NEW U \in Seq(Mails), NEW w \in Masters, Books(m, U, 1, w), Queued(m) <= Len(U)
  PROVE  Does(m, SendError(m, mail), U, w)
<1> DEFINE k == SendError(m, mail)
<1>1. Room(m)
  BY AlwaysRoom
<1>2. k \in MbType /\ Posts(m, k, "err", 0) /\ Same(m, k, Noted)
  BY <1>1, SendErrorPosts
<1> HIDE DEF k
<1>3. Does(m, k, U, w)
  BY <1>2, AnswerDoes
<1> QED  BY <1>3 DEF k

LEMMA SendCoeDoes ==
  ASSUME Fits, NEW m \in MbType, NEW mail \in Mails, m.running, mail.left = 0,
         mail.what # "frag",
         NEW U \in Seq(Mails), NEW w \in Masters, Books(m, U, 1, w), Queued(m) <= Len(U)
  PROVE  Does(m, SendCoe(m, mail, FALSE), U, w)
<1> DEFINE k == SendCoe(m, mail, FALSE)
<1>1. Room(m)
  BY AlwaysRoom
<1>2. Mailed(m, k, mail, TRUE, FALSE)
  BY <1>1, SendCoePosts
<1> HIDE DEF k
<1>3. k \in MbType /\ Posts(m, k, mail.what, 0)
  BY <1>2 DEF Mailed
<1>4. k.u8MailboxSendReqStored = m.u8MailboxSendReqStored
  BY <1>2 DEF Mailed, MbType
<1>5. Same(m, k, Noted)
  BY <1>2, <1>4 DEF Mailed, Same
<1>6. Does(m, k, U, w)
  BY <1>3, <1>5, AnswerDoes
<1> QED  BY <1>6 DEF k

\* An object list is begun only while no other is in work: sdoserv.c:1088.
LEMMA FirstFragmentDoes ==
  ASSUME Fits, OneByOne, NEW m \in MbType, NEW mail \in Mails, m.running,
         NEW U \in Seq(Mails), NEW w \in Masters, Books(m, U, 1, w), Queued(m) <= Len(U),
         w.left = Fragments
  PROVE  Does(m, SDOS_SdoInfoInd(m, mail), U, w)
<1> DEFINE k == SDOS_SdoInfoInd(m, mail)
<1>1. Room(m) /\ m.nSdoInfoFragmentsLeft = 0
  BY AlwaysRoom, InHand
<1>2. /\ k \in MbType /\ Posts(m, k, "frag", NextLeft(m))
      /\ Same(m, k, Noted \ {"nSdoInfoFragmentsLeft", "u8MailboxSendReqStored"})
      /\ ListGoesOn(m, k)
  BY <1>1, SDOS_SdoInfoIndPosts
<1> HIDE DEF k
<1>3. NextLeft(m) = Fragments /\ k.nSdoInfoFragmentsLeft = Fragments
  BY <1>1, <1>2 DEF NextLeft, ListGoesOn
<1>4. PICK x \in Mails : x.what = "frag" /\ x.left = Fragments /\ Posted(m, k, x)
  BY <1>2, <1>3 DEF Posts
<1> DEFINE V == Append(U, x)
<1>5. V \in Seq(Mails) /\ Books(k, V, 0, w)
  BY <1>2, <1>3, <1>4, OneMore, FirstFragmentBooks
<1>6. Extended(m, k, U, V)
  BY <1>4 DEF Extended
<1> HIDE DEF V
<1> QED  BY <1>2, <1>5, <1>6 DEF Does, k

LEMMA NextFragmentDoes ==
  ASSUME Fits, NEW m \in MbType, NEW mail \in Mails, m.running, ~m.u8MailboxSendReqStored,
         NEW U \in Seq(Mails), NEW w \in Masters, Books(m, U, 0, w), Queued(m) <= Len(U),
         m.nSdoInfoFragmentsLeft > 0
  PROVE  Does(m, SDOS_SdoInfoInd(m, mail), U, w)
<1> DEFINE k == SDOS_SdoInfoInd(m, mail)
<1>1. Room(m) /\ NextLeft(m) = m.nSdoInfoFragmentsLeft - 1
  BY AlwaysRoom DEF NextLeft
<1>2. /\ k \in MbType /\ Posts(m, k, "frag", NextLeft(m))
      /\ Same(m, k, Noted \ {"nSdoInfoFragmentsLeft", "u8MailboxSendReqStored"})
      /\ ListGoesOn(m, k)
  BY <1>1, SDOS_SdoInfoIndPosts
<1> HIDE DEF k
<1>3. /\ k.nSdoInfoFragmentsLeft = m.nSdoInfoFragmentsLeft - 1
      /\ k.nSdoInfoFragmentsLeft = NextLeft(m)
      /\ k.u8MailboxSendReqStored => k.nSdoInfoFragmentsLeft > 0
  BY <1>1, <1>2 DEF ListGoesOn
<1>4. PICK x \in Mails : /\ x.what = "frag" /\ x.left = k.nSdoInfoFragmentsLeft
                         /\ Posted(m, k, x)
  BY <1>2, <1>3 DEF Posts
<1> DEFINE V == Append(U, x)
<1>5. V \in Seq(Mails)
  BY OneMore
<1>6. Extended(m, k, U, V)
  BY <1>4 DEF Extended
<1>7. Books(k, V, 0, w)
  BY <1>2, <1>3, <1>4, NextFragmentBooks
<1> HIDE DEF V
<1> QED  BY <1>2, <1>5, <1>6, <1>7 DEF Does, k

\* What is asked of the SDO server and not answered at once is in work.
LEMMA WorkDoes ==
  ASSUME NEW m \in MbType, NEW mail \in Mails, mail.left = 0, mail.what \in Services,
         ~SdoBusy(m), NEW U \in Seq(Mails), NEW w \in Masters, Books(m, U, 1, w)
  PROVE  Does(m, [m EXCEPT !.pSdoResStored = mail], U, w)
<1> DEFINE k == [m EXCEPT !.pSdoResStored = mail]
<1>1. /\ k \in MbType /\ Same(m, k, Noted \ {"pSdoResStored"}) /\ k.pSdoResStored = mail
      /\ Same(m, k, Chained)
  <2>1. k \in MbType /\ k.pSdoResStored = mail
    BY DEF MbType
  <2>2. Same(m, k, Noted \ {"pSdoResStored"})
    BY DEF MbType, Same, Noted
  <2>3. Same(m, k, Chained)
    BY DEF MbType, Same, Chained
  <2> QED  BY <2>1, <2>2, <2>3
<1> HIDE DEF k
<1>2. /\ k.running = m.running /\ k.boot = m.boot /\ k.sm0 = m.sm0 /\ k.recvQ = m.recvQ
      /\ k.u8MbxWriteCounter = m.u8MbxWriteCounter /\ k.pCoeSendStored = m.pCoeSendStored
      /\ k.nSdoInfoFragmentsLeft = m.nSdoInfoFragmentsLeft
      /\ k.u8MailboxSendReqStored = m.u8MailboxSendReqStored
  BY <1>1 DEF Same, Noted
<1>3. mail # NoMail
  BY ServicesAssumption DEF NoMail
<1>4. Kept(k) /\ UnderWay(k, U) /\ Asked(k, w)
  BY <1>1, <1>2 DEF Books, Kept, UnderWay, Asked
<1>5. /\ Unseen(k) = Unseen(m) /\ Received(k) = Received(m) /\ Begun(k, U) = Begun(m, U)
      /\ Busy(m) = 0 /\ Busy(k) = 1 /\ (ListComes(k) <=> ListComes(m))
  BY <1>1, <1>2, <1>3 DEF Unseen, Received, Begun, Busy, SdoBusy, ListComes
<1>6. Expected(k, U, w)
  BY <1>2, <1>5 DEF Books, Expected
<1>7. Balance(k, U, 0, w)
  <2>1. /\ Unseen(m) \in 0..1 /\ Received(m) \in Nat /\ Begun(m, U) \in Nat
    BY BookTypes
  <2> QED  BY <1>5, <2>1 DEF Books, Balance
<1>8. Extended(m, k, U, U)
  BY <1>1 DEF Extended
<1> QED  BY <1>1, <1>4, <1>6, <1>7, <1>8 DEF Does, Books, k

LEMMA MailboxServiceIndDoes ==
  ASSUME Fits, NEW m \in MbType, NEW mail \in Mails, m.running,
         mail.left = 0, mail.what \in Services,
         NEW U \in Seq(Mails), NEW w \in Masters, Books(m, U, 1, w), Queued(m) <= Len(U),
         OneByOne /\ ~m.boot /\ mail.what = "list" => w.left = Fragments
  PROVE  Does(m, MailboxServiceInd(m, mail), U, w)
<1>1. mail.what \in {"sdo", "work", "list", "bad"}
  BY ServicesAssumption DEF Fits, Plain
<1>2. CASE \/ m.boot
           \/ mail.what = "bad"
           \/ mail.what \in {"sdo", "work"} /\ SdoBusy(m)
  <2>1. MailboxServiceInd(m, mail) = SendError(m, mail)
    BY <1>1, <1>2 DEF MailboxServiceInd
  <2> QED  BY <2>1, SendErrorDoes
<1>3. CASE ~m.boot /\ mail.what = "sdo" /\ ~SdoBusy(m)
  <2>1. MailboxServiceInd(m, mail) = SendCoe(m, mail, FALSE)
    BY <1>3 DEF MailboxServiceInd
  <2> QED  BY <1>3, <2>1, SendCoeDoes
<1>4. CASE ~m.boot /\ mail.what = "work" /\ ~SdoBusy(m)
  <2>1. MailboxServiceInd(m, mail) = [m EXCEPT !.pSdoResStored = mail]
    BY <1>4 DEF MailboxServiceInd
  <2> QED  BY <1>4, <2>1, WorkDoes
<1>5. CASE ~m.boot /\ mail.what = "list"
  <2>1. MailboxServiceInd(m, mail) = SDOS_SdoInfoInd(m, mail)
    BY <1>5 DEF MailboxServiceInd
  <2>2. OneByOne
    BY <1>5 DEF Fits, NoLists
  <2> QED  BY <1>5, <2>1, <2>2, FirstFragmentDoes
<1> QED  BY <1>1, <1>2, <1>3, <1>4, <1>5
-------------------------------------------------------------------------------
(* A request is received.                                                    *)

\* The globals when the request was read from sync manager 0.
Cleared(m, l) ==
  /\ l \in MbType /\ Same(m, l, Noted \ {"sm0"}) /\ l.sm0 = NoMail /\ Same(m, l, Chained)

LEMMA ClearedFields ==
  ASSUME NEW m, NEW l, Cleared(m, l)
  PROVE  /\ l.running = m.running /\ l.boot = m.boot /\ l.recvQ = m.recvQ
         /\ l.u8MbxWriteCounter = m.u8MbxWriteCounter /\ l.pCoeSendStored = m.pCoeSendStored
         /\ l.pSdoResStored = m.pSdoResStored
         /\ l.nSdoInfoFragmentsLeft = m.nSdoInfoFragmentsLeft
         /\ l.u8MailboxSendReqStored = m.u8MailboxSendReqStored
         /\ l.sendQ = m.sendQ /\ l.sm0 = NoMail
         /\ Unseen(l) = 0 /\ Received(l) = Received(m) /\ Busy(l) = Busy(m)
         /\ \A U : Begun(l, U) = Begun(m, U)
         /\ ListComes(l) => ListComes(m)
BY DEF Cleared, Same, Noted, Chained, Unseen, Received, Busy, SdoBusy, Begun, ListComes

\* A repetition is forgotten.
LEMMA RepetitionBooks ==
  ASSUME NEW m \in MbType, NEW l, Cleared(m, l), m.sm0 # NoMail,
         m.sm0.cnt = m.u8MbxWriteCounter,
         NEW U \in Seq(Mails), NEW w, Books(m, U, 0, w)
  PROVE  Books(l, U, 0, w)
<1>1. /\ l.boot = m.boot /\ l.recvQ = m.recvQ
      /\ l.u8MbxWriteCounter = m.u8MbxWriteCounter /\ l.pCoeSendStored = m.pCoeSendStored
      /\ l.pSdoResStored = m.pSdoResStored
      /\ l.nSdoInfoFragmentsLeft = m.nSdoInfoFragmentsLeft
      /\ l.u8MailboxSendReqStored = m.u8MailboxSendReqStored /\ l.sm0 = NoMail
      /\ Unseen(l) = 0 /\ Received(l) = Received(m) /\ Busy(l) = Busy(m)
      /\ Begun(l, U) = Begun(m, U) /\ (ListComes(l) => ListComes(m))
  BY ClearedFields
<1>2. Unseen(m) = 0
  BY DEF Unseen
<1>3. Kept(l) /\ UnderWay(l, U) /\ Asked(l, w)
  BY <1>1 DEF Books, Kept, UnderWay, Asked
<1>4. Expected(l, U, w)
  BY <1>1 DEF Books, Expected
<1>5. Balance(l, U, 0, w)
  BY <1>1, <1>2 DEF Books, Balance
<1> QED  BY <1>3, <1>4, <1>5 DEF Books

\* A new request is in hand, once its counter is noted.
LEMMA RequestBooks ==
  ASSUME NEW m \in MbType, NEW l, Cleared(m, l), m.sm0 # NoMail,
         m.sm0.cnt # m.u8MbxWriteCounter,
         NEW k, Same(l, k, Noted \ {"u8MbxWriteCounter"}), k.u8MbxWriteCounter = m.sm0.cnt,
         NEW U \in Seq(Mails), NEW w, Books(m, U, 0, w)
  PROVE  Books(k, U, 1, w)
<1>1. /\ l.boot = m.boot /\ l.recvQ = m.recvQ
      /\ l.pCoeSendStored = m.pCoeSendStored /\ l.pSdoResStored = m.pSdoResStored
      /\ l.nSdoInfoFragmentsLeft = m.nSdoInfoFragmentsLeft
      /\ l.u8MailboxSendReqStored = m.u8MailboxSendReqStored /\ l.sm0 = NoMail
  BY ClearedFields
<1>2. /\ k.boot = m.boot /\ k.recvQ = m.recvQ
      /\ k.pCoeSendStored = m.pCoeSendStored /\ k.pSdoResStored = m.pSdoResStored
      /\ k.nSdoInfoFragmentsLeft = m.nSdoInfoFragmentsLeft
      /\ k.u8MailboxSendReqStored = m.u8MailboxSendReqStored /\ k.sm0 = NoMail
  BY <1>1 DEF Same, Noted
<1>3. /\ Unseen(m) = 1 /\ Unseen(k) = 0 /\ Received(k) = Received(m) /\ Busy(k) = Busy(m)
      /\ Begun(k, U) = Begun(m, U) /\ (ListComes(k) => ListComes(m))
  BY <1>2 DEF Unseen, Received, Busy, SdoBusy, Begun, ListComes
<1>4. Kept(k) /\ UnderWay(k, U) /\ Asked(k, w)
  BY <1>2 DEF Books, Kept, UnderWay, Asked
<1>5. Expected(k, U, w)
  BY <1>2, <1>3 DEF Books, Expected
<1>6. Balance(k, U, 1, w)
  <2>1. /\ Received(m) \in Nat /\ Busy(m) \in Nat /\ Begun(m, U) \in Nat
    BY BookTypes
  <2> QED  BY <1>3, <2>1 DEF Books, Balance
<1> QED  BY <1>4, <1>5, <1>6 DEF Books

\* It is put into the receive queue.
LEMMA QueuedBooks ==
  ASSUME NEW m \in MbType, NEW mail \in Mails, mail.left = 0, mail.what \in Services,
         NEW U \in Seq(Mails), NEW w, Books(m, U, 1, w),
         OneByOne /\ ~m.boot /\ mail.what = "list" => w.left = Fragments
  PROVE  Does(m, [m EXCEPT !.recvQ = Append(@, mail)], U, w)
<1> DEFINE q == m.recvQ
           k == [m EXCEPT !.recvQ = Append(@, mail)]
<1>1. q \in Seq(Mails)
  BY DEF MbType
<1>2. /\ Append(q, mail) \in Seq(Mails) /\ Len(Append(q, mail)) = Len(q) + 1 /\ Len(q) \in Nat
      /\ \A i \in 1..Len(q) : Append(q, mail)[i] = q[i]
      /\ Append(q, mail)[Len(q) + 1] = mail
  BY <1>1, OneMore
<1>3. /\ k \in MbType /\ k.recvQ = Append(q, mail) /\ Same(m, k, Noted \ {"recvQ"})
      /\ Same(m, k, Chained)
  <2>1. k \in MbType /\ k.recvQ = Append(q, mail)
    BY <1>2 DEF MbType
  <2>2. Same(m, k, Noted \ {"recvQ"})
    BY DEF MbType, Same, Noted
  <2>3. Same(m, k, Chained)
    BY DEF MbType, Same, Chained
  <2> QED  BY <2>1, <2>2, <2>3
<1> HIDE DEF k
<1>4. /\ k.running = m.running /\ k.boot = m.boot /\ k.sm0 = m.sm0
      /\ k.u8MbxWriteCounter = m.u8MbxWriteCounter /\ k.pCoeSendStored = m.pCoeSendStored
      /\ k.pSdoResStored = m.pSdoResStored
      /\ k.nSdoInfoFragmentsLeft = m.nSdoInfoFragmentsLeft
      /\ k.u8MailboxSendReqStored = m.u8MailboxSendReqStored
  BY <1>3 DEF Same, Noted
<1>5. ASSUME NEW i \in DOMAIN k.recvQ
      PROVE  k.recvQ[i] = mail \/ (i \in DOMAIN q /\ k.recvQ[i] = q[i])
  <2>1. DOMAIN q = 1..Len(q) /\ i \in 1..(Len(q) + 1)
    BY <1>1, <1>2, <1>3, LenProperties
  <2> HIDE DEF q
  <2>2. CASE i = Len(q) + 1
    BY <1>2, <1>3, <2>2
  <2>3. CASE i # Len(q) + 1
    <3>1. i \in 1..Len(q)
      BY <1>2, <2>1, <2>3
    <3> QED  BY <1>2, <1>3, <2>1, <3>1
  <2> QED  BY <2>2, <2>3
<1>6. Kept(k)
  BY <1>4, <1>5 DEF Books, Kept
<1>7. UnderWay(k, U) /\ Asked(k, w)
  BY <1>4 DEF Books, UnderWay, Asked
<1>8. /\ Unseen(k) = Unseen(m) /\ Received(k) = Received(m) + 1 /\ Busy(k) = Busy(m)
      /\ Begun(k, U) = Begun(m, U) /\ (ListComes(k) => ListComes(m) \/ mail.what = "list")
  <2>1. ListComes(k) => ListComes(m) \/ mail.what = "list"
    BY <1>4, <1>5 DEF ListComes, Unseen
  <2> QED  BY <1>2, <1>3, <1>4, <2>1 DEF Unseen, Received, Busy, SdoBusy, Begun
<1>9. Expected(k, U, w)
  BY <1>4, <1>8 DEF Books, Expected
<1>10. Balance(k, U, 0, w)
  <2>1. /\ Unseen(m) \in Nat /\ Received(m) \in Nat /\ Busy(m) \in Nat /\ Begun(m, U) \in Nat
    BY BookTypes
  <2> QED  BY <1>8, <2>1 DEF Books, Balance
<1>11. Extended(m, k, U, U)
  BY <1>3 DEF Extended
<1> QED  BY <1>3, <1>6, <1>7, <1>9, <1>10, <1>11 DEF Does, Books, k

LEMMA MBX_MailboxWriteIndDoes ==
  ASSUME Fits, NEW m \in MbType, NEW l, Cleared(m, l), m.sm0 # NoMail,
         NEW mail \in Mails, mail.cnt = m.sm0.cnt, mail.what = m.sm0.what, mail.left = m.sm0.left,
         NEW U \in Seq(Mails), NEW w \in Masters, Books(m, U, 0, w), Queued(m) <= Len(U)
  PROVE  Does(m, MBX_MailboxWriteInd(l, mail), U, w)
<1> DEFINE n == [l EXCEPT !.u8MbxWriteCounter = mail.cnt]
           f == Free(l, mail)
           k == MBX_MailboxWriteInd(l, mail)
<1>1. /\ l \in MbType /\ Same(m, l, Chained) /\ l.u8MbxWriteCounter = m.u8MbxWriteCounter
      /\ l.running = m.running /\ l.boot = m.boot
  BY ClearedFields DEF Cleared
<1>2. mail.cnt # 0 /\ mail.what \in Services /\ mail.left = 0 /\ m.running
  BY DEF Books, Asked, IsRequest
<1>3. mail.what # "long"
  BY <1>2 DEF Fits, Plain
<1>4. CASE mail.cnt = m.u8MbxWriteCounter
  <2>1. k = f
    BY <1>1, <1>2, <1>3, <1>4 DEF MBX_MailboxWriteInd, IsRepetition
  <2>2. f \in MbType /\ Same(l, f, Chained) /\ Same(l, f, Noted)
    BY <1>1 DEF Free, MbType, Same, Chained, Noted
  <2> HIDE DEF f, k
  <2>3. Books(l, U, 0, w)
    BY <1>4, RepetitionBooks
  <2>4. Books(f, U, 0, w)
    BY <2>2, <2>3, SameBooks
  <2>5. Extended(m, f, U, U)
    BY <1>1, <2>2 DEF Extended, Same
  <2> QED  BY <2>1, <2>2, <2>4, <2>5 DEF Does, k
<1>5. CASE mail.cnt # m.u8MbxWriteCounter
  <2>1. k = IF QueueFull(n.recvQ) THEN SendError(n, mail) ELSE [n EXCEPT !.recvQ = Append(@, mail)]
    <3>1. k = IF QueueFull(l.recvQ) THEN SendError(n, mail)
              ELSE [n EXCEPT !.recvQ = Append(@, mail)]
      BY <1>1, <1>3, <1>5 DEF MBX_MailboxWriteInd, IsRepetition
    <3>2. n.recvQ = l.recvQ
      BY <1>1 DEF MbType
    <3> HIDE DEF n, k
    <3> QED  BY <3>1, <3>2
  <2>2. /\ n \in MbType /\ Same(l, n, Noted \ {"u8MbxWriteCounter"}) /\ Same(l, n, Chained)
        /\ n.u8MbxWriteCounter = mail.cnt
    <3>1. mail.cnt \in 0..Counters
      BY DEF Mails
    <3> QED  BY <1>1, <3>1 DEF MbType, Same, Noted, Chained
  <2> HIDE DEF n, k
  <2>3. Books(n, U, 1, w)
    BY <1>5, <2>2, RequestBooks
  <2>4. n.running /\ n.boot = m.boot /\ Same(m, n, Chained)
    BY <1>1, <1>2, <2>2 DEF Same, Noted
  <2>5. Queued(n) <= Len(U)
    BY <2>4, ChainedFields DEF Queued
  <2>6. OneByOne /\ ~n.boot /\ mail.what = "list" => w.left = Fragments
    <3>1. Unseen(m) = 1
      BY <1>5 DEF Unseen
    <3> QED  BY <2>4, <3>1 DEF Books, Expected, ListComes
  <2>7. Does(n, SendError(n, mail), U, w)
    BY <2>2, <2>3, <2>4, <2>5, SendErrorDoes
  <2>8. Does(n, [n EXCEPT !.recvQ = Append(@, mail)], U, w)
    BY <1>2, <2>2, <2>3, <2>6, QueuedBooks
  <2>9. Does(n, k, U, w)
    BY <2>1, <2>7, <2>8
  <2>10. Does(m, k, U, w)
    BY <2>4, <2>9, SameDoes
  <2> QED  BY <2>10 DEF k
<1> QED  BY <1>4, <1>5

LEMMA MBX_CheckAndCopyMailboxDoes ==
  ASSUME Fits, NEW m \in MbType, NEW ok \in BOOLEAN, ok => ReceiveBlocked(m) \/ m.heap # 1..Pool,
         m.sm0 # NoMail,
         NEW U \in Seq(Mails), NEW w \in Masters, Books(m, U, 0, w), Queued(m) <= Len(U)
  PROVE  Does(m, MBX_CheckAndCopyMailbox(m, ok), U, w)
<1> DEFINE b    == NewBuffer(m)
           l    == Take(m, b)
           n    == Refuse(m)
           mail == [m.sm0 EXCEPT !.buf = b]
           k    == MBX_CheckAndCopyMailbox(m, ok)
<1>1. CASE ReceiveBlocked(m) \/ ~ok
  <2>1. k = n
    BY <1>1 DEF MBX_CheckAndCopyMailbox
  <2>2. n \in MbType /\ Same(m, n, Chained) /\ Same(m, n, Noted)
    BY DEF Refuse, MbType, Same, Chained, Noted
  <2> HIDE DEF n
  <2>3. Books(n, U, 0, w)
    BY <2>2, SameBooks
  <2>4. Extended(m, n, U, U)
    BY <2>2 DEF Extended
  <2> QED  BY <2>1, <2>2, <2>3, <2>4 DEF Does
<1>2. CASE ~ReceiveBlocked(m) /\ ok
  <2>1. k = MBX_MailboxWriteInd(l, mail)
    BY <1>2 DEF MBX_CheckAndCopyMailbox
  <2>2. b \in 1..Pool
    BY <1>2, NewBufferIsFree
  <2> HIDE DEF b
  <2>3. /\ mail \in Mails /\ NoMail \in Mails
        /\ mail.cnt = m.sm0.cnt /\ mail.what = m.sm0.what /\ mail.left = m.sm0.left
    <3>1. b \in 0..Pool /\ m.sm0 \in Mails
      BY <2>2 DEF MbType
    <3>2. mail \in Mails /\ NoMail \in Mails
      BY <3>1, MailFacts
    <3>3. mail.cnt = m.sm0.cnt /\ mail.what = m.sm0.what /\ mail.left = m.sm0.left
      BY <3>1 DEF Mails
    <3> QED  BY <3>2, <3>3
  <2>4. Cleared(m, l)
    BY <2>2, <2>3 DEF Cleared, Take, MbType, Same, Chained, Noted
  <2> HIDE DEF l, mail, k
  <2>5. Does(m, MBX_MailboxWriteInd(l, mail), U, w)
    BY <2>3, <2>4, MBX_MailboxWriteIndDoes
  <2> QED  BY <2>1, <2>5 DEF k
<1> QED  BY <1>1, <1>2
-------------------------------------------------------------------------------
(* The steps of the slave that send.                                         *)

\* The invariant.
AInv == OInv /\ Answering

LEMMA AnsweringFacts ==
  ASSUME AInv
  PROVE  /\ Sound(mb, {}) /\ mb \in MbType /\ Shape(mb) /\ got \in Mails /\ req \in Mails
         /\ Known(mb, got) /\ Master1 \in Masters
         /\ Master1.req = req /\ Master1.left = left /\ Master1.open = open
         /\ Awaited = Rest(Chain(mb), got) /\ Awaited \in Seq(Mails)
         /\ Queued(mb) <= Len(Awaited) /\ Books(mb, Awaited, 0, Master1)
<1>1. /\ Sound(mb, {}) /\ mb \in MbType /\ Shape(mb) /\ got \in Mails /\ req \in Mails
      /\ Known(mb, got) /\ open \in Nat /\ left \in 0..Fragments
  BY DEF AInv, OInv, IInv, Typed, Order, Sound
<1>2. Queued(mb) <= Len(Awaited) /\ Awaited \in Seq(Mails)
  BY <1>1, QueueUnderWay DEF Awaited
<1>3. Master1 \in Masters
  BY <1>1 DEF Master1, Masters
<1>4. Master1.req = req /\ Master1.left = left /\ Master1.open = open
  BY DEF Master1
<1> QED  BY <1>1, <1>2, <1>3, <1>4 DEF AInv, Answering, Awaited

\* A step that keeps the books keeps the invariant.
LEMMA DoesAnswering ==
  ASSUME AInv, Sound(mb', {}), Sends(mb, mb'), Does(mb, mb', Awaited, Master1),
         UNCHANGED <<got, req, open, left>>
  PROVE  Answering'
<1>1. /\ Sound(mb, {}) /\ got \in Mails /\ Known(mb, got)
      /\ Awaited = Rest(Chain(mb), got)
  BY AnsweringFacts
<1>2. PICK V \in Seq(Mails) : Extended(mb, mb', Awaited, V) /\ Books(mb', V, 0, Master1)
  BY DEF Does
<1>3. V = Rest(Chain(mb'), got)
  BY <1>1, <1>2, ExtendedRest
<1>4. Master1' = Master1 /\ Awaited' = Rest(Chain(mb'), got)
  BY DEF Master1, Awaited
<1> QED  BY <1>2, <1>3, <1>4 DEF Answering

\* A mail taken out of the receive queue is in hand.
LEMMA PopBooks ==
  ASSUME NEW m, Sound(m, {}), m.recvQ # <<>>,
         NEW U \in Seq(Mails), NEW w \in Masters, Books(m, U, 0, w)
  PROVE  LET mail == Head(m.recvQ)
             n    == [m EXCEPT !.recvQ = Tail(@)]
         IN  /\ n \in MbType /\ n.running /\ mail \in Mails
             /\ mail.left = 0 /\ mail.what \in Services
             /\ Queued(n) = Queued(m) /\ Same(m, n, Chained) /\ Books(n, U, 1, w)
             /\ OneByOne /\ ~n.boot /\ mail.what = "list" => w.left = Fragments
<1> DEFINE q    == m.recvQ
           t    == Tail(q)
           mail == Head(m.recvQ)
           n    == [m EXCEPT !.recvQ = Tail(@)]
<1>1. /\ m \in MbType /\ n \in MbType /\ n.running /\ mail \in Mails
      /\ Received(n) = Received(m) - 1 /\ Queued(n) = Queued(m) /\ Busy(n) = Busy(m)
  BY PopSound DEF Sound
<1>2. /\ q \in Seq(Mails) /\ Len(q) \in Nat /\ Len(q) >= 1
      /\ DOMAIN q = 1..Len(q) /\ mail = q[1]
  <2>1. q \in Seq(Mails) /\ q # <<>>
    BY <1>1 DEF MbType
  <2> QED  BY <2>1, EmptySeq, LenProperties
<1>3. /\ t \in Seq(Mails) /\ Len(t) = Len(q) - 1 /\ DOMAIN t = 1..Len(t)
      /\ \A i \in 1..(Len(q) - 1) : t[i] = q[i + 1]
  BY <1>2, HeadTailProperties, LenProperties
<1>4. n.recvQ = t /\ Same(m, n, Noted \ {"recvQ"}) /\ Same(m, n, Chained)
  BY <1>1 DEF MbType, Same, Noted, Chained
<1> HIDE DEF n, t, q
<1>5. /\ n.running = m.running /\ n.boot = m.boot /\ n.sm0 = m.sm0
      /\ n.u8MbxWriteCounter = m.u8MbxWriteCounter /\ n.pCoeSendStored = m.pCoeSendStored
      /\ n.pSdoResStored = m.pSdoResStored
      /\ n.nSdoInfoFragmentsLeft = m.nSdoInfoFragmentsLeft
      /\ n.u8MailboxSendReqStored = m.u8MailboxSendReqStored
  BY <1>4 DEF Same, Noted
<1>6. 1 \in DOMAIN q /\ \A i \in DOMAIN t : i + 1 \in DOMAIN q /\ t[i] = q[i + 1]
  BY <1>2, <1>3
<1>7. mail.left = 0 /\ mail.what \in Services
  BY <1>2, <1>6 DEF Books, Kept, q
<1>8. Kept(n)
  BY <1>4, <1>5, <1>6 DEF Books, Kept, q
<1>9. UnderWay(n, U) /\ Asked(n, w)
  BY <1>5 DEF Books, UnderWay, Asked
<1>10. Unseen(n) = Unseen(m) /\ Begun(n, U) = Begun(m, U) /\ (ListComes(n) => ListComes(m))
  BY <1>4, <1>5, <1>6 DEF Unseen, Begun, ListComes, q
<1>11. Expected(n, U, w)
  BY <1>5, <1>10 DEF Books, Expected
<1>12. Balance(n, U, 1, w)
  <2>1. /\ Unseen(m) \in 0..1 /\ Received(m) \in Nat /\ Busy(m) \in 0..1 /\ Begun(m, U) \in Nat
    BY <1>1, BookTypes
  <2> QED  BY <1>1, <1>10, <2>1 DEF Books, Balance
<1>13. OneByOne /\ ~n.boot /\ mail.what = "list" => w.left = Fragments
  <2>1. mail.what = "list" => ListComes(m)
    BY <1>2, <1>6 DEF ListComes, q
  <2> QED  BY <1>5, <2>1 DEF Books, Expected
<1> QED  BY <1>1, <1>4, <1>7, <1>8, <1>9, <1>11, <1>12, <1>13 DEF Books, n

\* The service in work is in hand when it is finished.
LEMMA FinishBooks ==
  ASSUME NEW m \in MbType, SdoBusy(m), NEW U \in Seq(Mails), NEW w, Books(m, U, 0, w)
  PROVE  LET l == [m EXCEPT !.pSdoResStored = NoMail]
         IN  l \in MbType /\ l.running = m.running /\ Same(m, l, Chained) /\ Books(l, U, 1, w)
<1> DEFINE l == [m EXCEPT !.pSdoResStored = NoMail]
<1>1. /\ l \in MbType /\ Same(m, l, Noted \ {"pSdoResStored"}) /\ l.pSdoResStored = NoMail
      /\ Same(m, l, Chained)
  <2>1. l \in MbType /\ l.pSdoResStored = NoMail
    <3>1. NoMail \in Mails
      BY Zeros
    <3> QED  BY <3>1 DEF MbType
  <2>2. Same(m, l, Noted \ {"pSdoResStored"})
    BY DEF MbType, Same, Noted
  <2>3. Same(m, l, Chained)
    BY DEF MbType, Same, Chained
  <2> QED  BY <2>1, <2>2, <2>3
<1> HIDE DEF l
<1>2. /\ l.running = m.running /\ l.boot = m.boot /\ l.sm0 = m.sm0 /\ l.recvQ = m.recvQ
      /\ l.u8MbxWriteCounter = m.u8MbxWriteCounter /\ l.pCoeSendStored = m.pCoeSendStored
      /\ l.nSdoInfoFragmentsLeft = m.nSdoInfoFragmentsLeft
      /\ l.u8MailboxSendReqStored = m.u8MailboxSendReqStored
  BY <1>1 DEF Same, Noted
<1>3. Kept(l) /\ UnderWay(l, U) /\ Asked(l, w)
  BY <1>1, <1>2 DEF Books, Kept, UnderWay, Asked
<1>4. /\ Unseen(l) = Unseen(m) /\ Received(l) = Received(m) /\ Begun(l, U) = Begun(m, U)
      /\ Busy(m) = 1 /\ Busy(l) = 0 /\ (ListComes(l) <=> ListComes(m))
  BY <1>1, <1>2 DEF Unseen, Received, Begun, Busy, SdoBusy, ListComes
<1>5. Expected(l, U, w)
  BY <1>2, <1>4 DEF Books, Expected
<1>6. Balance(l, U, 1, w)
  <2>1. Unseen(m) \in 0..1 /\ Received(m) \in Nat /\ Begun(m, U) \in Nat
    BY BookTypes
  <2> QED  BY <1>4, <2>1 DEF Books, Balance
<1> QED  BY <1>1, <1>2, <1>3, <1>5, <1>6 DEF Books, l

LEMMA SendingStepsDo ==
  ASSUME Fits, AInv, SendingSteps
  PROVE  Does(mb, mb', Awaited, Master1)
<1> DEFINE U == Awaited
           w == Master1
<1>1. /\ Sound(mb, {}) /\ mb \in MbType /\ Shape(mb) /\ w \in Masters /\ U \in Seq(Mails)
      /\ Queued(mb) <= Len(U) /\ Books(mb, U, 0, w)
  BY AnsweringFacts
<1> HIDE DEF U, w
<1>2. Does(mb, mb, U, w)
  BY <1>1 DEF Does, Extended, Same
<1>3. CASE Serve
  <2> DEFINE n    == [mb EXCEPT !.recvQ = Tail(@)]
             mail == Head(mb.recvQ)
  <2>1. /\ mb.recvQ # <<>>
        /\ \/ mb' = MailboxServiceInd(n, mail)
           \/ mail.what = "foe"
    BY <1>3 DEF Serve
  <2>2. /\ n \in MbType /\ n.running /\ mail \in Mails /\ mail.left = 0 /\ mail.what \in Services
        /\ Queued(n) = Queued(mb) /\ Same(mb, n, Chained) /\ Books(n, U, 1, w)
        /\ OneByOne /\ ~n.boot /\ mail.what = "list" => w.left = Fragments
    BY <1>1, <2>1, PopBooks
  <2> HIDE DEF n, mail
  <2>3. mail.what # "foe"
    BY <2>2 DEF Fits, Plain
  <2>4. Does(n, MailboxServiceInd(n, mail), U, w)
    BY <1>1, <2>2, MailboxServiceIndDoes
  <2> QED  BY <2>1, <2>2, <2>3, <2>4, SameDoes DEF U, w
<1>4. CASE Main \/ WriteEvent
  <2>1. CASE mb' = mb
    BY <1>2, <2>1 DEF U, w
  <2>2. CASE CheckAndCopy /\ (mb.bReceiveMbxIsLocked \/ mb.ev0)
    <3>1. mb.sm0 # NoMail
      BY <1>1, <2>2 DEF Shape
    <3>2. CASE ReceiveBlocked(mb)
      <4>1. mb' = MBX_CheckAndCopyMailbox(mb, TRUE)
        BY <2>2, <3>2 DEF CheckAndCopy
      <4> QED  BY <1>1, <3>1, <3>2, <4>1, MBX_CheckAndCopyMailboxDoes DEF U, w
    <3>3. CASE ~ReceiveBlocked(mb)
      <4>1. PICK ok \in BOOLEAN : Alloc(mb, ok) /\ mb' = MBX_CheckAndCopyMailbox(mb, ok)
        BY <2>2, <3>3 DEF CheckAndCopy
      <4>2. ok => mb.heap # 1..Pool
        BY <4>1 DEF Alloc
      <4> QED  BY <1>1, <3>1, <4>1, <4>2, MBX_CheckAndCopyMailboxDoes DEF U, w
    <3> QED  BY <3>2, <3>3
  <2> QED  BY <1>4, <2>1, <2>2 DEF Main, WriteEvent
<1>5. CASE FinishSdo
  <2> DEFINE l    == [mb EXCEPT !.pSdoResStored = NoMail]
             mail == mb.pSdoResStored
  <2>1. mb' = SendCoe(l, mail, FALSE) /\ SdoBusy(mb)
    BY <1>5 DEF FinishSdo
  <2>2. mail \in Mails /\ mail.left = 0 /\ mail.what # "frag" /\ mb.running
    <3>1. mail \in Mails /\ mb.running
      BY <1>1, <2>1 DEF MbType, Shape
    <3>2. mail.left = 0 /\ mail.what \in Services
      BY <1>1, <2>1 DEF Books, Kept, SdoBusy
    <3> QED  BY <3>1, <3>2, ServicesAssumption
  <2>3. l \in MbType /\ l.running = mb.running /\ Same(mb, l, Chained) /\ Books(l, U, 1, w)
    BY <1>1, <2>1, FinishBooks
  <2> HIDE DEF l, mail
  <2>4. Queued(l) <= Len(U)
    BY <1>1, <2>3, ChainedFields DEF Queued
  <2>5. Does(l, SendCoe(l, mail, FALSE), U, w)
    BY <1>1, <2>2, <2>3, <2>4, SendCoeDoes
  <2> QED  BY <2>1, <2>3, <2>5, SameDoes DEF U, w
<1> QED  BY <1>3, <1>4, <1>5 DEF SendingSteps

LEMMA SendingAnswers ==
  ASSUME Fits, AInv, Sound(mb', {}), SendingSteps
  PROVE  Answering'
<1>1. Sends(mb, mb')
  BY AnsweringFacts, SendingStepsAppend
<1>2. UNCHANGED <<got, req, open, left>>
  BY DEF SendingSteps, Serve, Main, WriteEvent, FinishSdo, masterVars
<1> QED  BY <1>1, <1>2, SendingStepsDo, DoesAnswering
-------------------------------------------------------------------------------
(* A reply was read, or is asked for again.                                  *)

\* What is put off is a fragment.
LEMMA FlagBooks ==
  ASSUME NEW m, NEW k, Same(m, k, Noted \ {"u8MailboxSendReqStored"}),
         k.u8MailboxSendReqStored => k.nSdoInfoFragmentsLeft > 0,
         NEW U, NEW w, Books(m, U, 0, w)
  PROVE  Books(k, U, 0, w)
<1>1. Same(m, k, Noted \ {"nSdoInfoFragmentsLeft", "u8MailboxSendReqStored"})
  BY DEF Same
<1>2. k.nSdoInfoFragmentsLeft = m.nSdoInfoFragmentsLeft
  BY DEF Same, Noted
<1>3. Kept(k) /\ UnderWay(k, U) /\ Asked(k, w)
  BY <1>1, <1>2, NotedFields DEF Books, Kept, UnderWay
<1>4. Begun(k, U) = Begun(m, U)
  BY <1>2 DEF Begun
<1>5. Expected(k, U, w)
  BY <1>1, <1>2, NotedFields DEF Books, Expected
<1>6. Balance(k, U, 0, w)
  BY <1>1, <1>4, NotedFields DEF Books, Balance
<1> QED  BY <1>3, <1>5, <1>6 DEF Books

LEMMA SentNextNoted ==
  ASSUME NEW m, Sound(m, {}), Taken(m)
  PROVE  Same(m, SentNext(m), Noted)
<1> DEFINE l == [ReleaseRepeat(m) EXCEPT !.bSendMbxIsFull = FALSE, !.psRepeatMbx = m.psReadMbx]
<1>1. m \in MbType /\ m.sendQ \in Seq(Mails)
  BY DEF Sound, MbType
<1>2. /\ l \in MbType /\ Same(m, l, Noted)
      /\ l.psStoreMbx = m.psStoreMbx /\ l.sendQ = m.sendQ
  <2>1. /\ ReleaseRepeat(m) = [m EXCEPT !.heap = @ \ Buf(m.psRepeatMbx)]
        /\ ReleaseRepeat(m) \in MbType
    BY ReleaseRepeatFrees DEF Taken
  <2> HIDE DEF l
  <2> QED  BY <1>1, <2>1 DEF MbType, Same, Noted, l
<1>3. SentNext(m) = SendNext(l)
  BY DEF SentNext
<1> HIDE DEF l
<1>4. CASE m.psStoreMbx # NoMail
  <2> DEFINE c == MBX_CopyToSendMailbox(l, m.psStoreMbx)
             k == [c EXCEPT !.psStoreMbx = NoMail]
  <2>1. SentNext(m) = k
    BY <1>2, <1>3, <1>4 DEF SendNext
  <2>2. Same(l, k, Noted)
    BY <1>2 DEF MBX_CopyToSendMailbox, MbType, Same, Noted
  <2> HIDE DEF k
  <2> QED  BY <1>2, <2>1, <2>2 DEF Same
<1>5. CASE m.psStoreMbx = NoMail /\ m.sendQ # <<>>
  <2> DEFINE c == MBX_CopyToSendMailbox(l, Head(m.sendQ))
             k == [c EXCEPT !.sendQ = Tail(@)]
  <2>1. SentNext(m) = k
    BY <1>2, <1>3, <1>5 DEF SendNext
  <2>2. Same(l, k, Noted)
    BY <1>2 DEF MBX_CopyToSendMailbox, MbType, Same, Noted
  <2> HIDE DEF k
  <2> QED  BY <1>2, <2>1, <2>2 DEF Same
<1>6. CASE m.psStoreMbx = NoMail /\ m.sendQ = <<>>
  <2>1. SentNext(m) = l
    BY <1>2, <1>3, <1>6 DEF SendNext
  <2> QED  BY <1>2, <2>1
<1> QED  BY <1>4, <1>5, <1>6

LEMMA RepeatReqNoted ==
  ASSUME NEW m \in MbType
  PROVE  Same(m, MBX_MailboxRepeatReq(m), Noted)
<1> DEFINE t == TakeBack(m)
           c == MBX_CopyToSendMailbox(t, m.psRepeatMbx)
           l == [c EXCEPT !.psRepeatMbx = NoMail]
           n == IF m.psRepeatMbx = NoMail THEN m ELSE l
           k == [n EXCEPT !.bMbxRepeatToggle = ~@]
<1>1. MBX_MailboxRepeatReq(m) = k
  BY DEF MBX_MailboxRepeatReq
<1>2. t \in MbType /\ Same(m, t, Noted)
  <2>1. t \in MbType
    <3>1. NoMail \in Mails /\ m.psReadMbx \in Mails
      BY Zeros DEF MbType
    <3>2. [m EXCEPT !.psStoreMbx = m.psReadMbx, !.sm1 = NoMail] \in MbType
      BY <3>1 DEF MbType
    <3> QED  BY <3>2 DEF TakeBack
  <2>2. Same(m, t, Noted)
    BY DEF TakeBack, MbType, Same, Noted
  <2> QED  BY <2>1, <2>2
<1> HIDE DEF t
<1>3. l \in MbType /\ Same(t, l, Noted)
  <2>1. m.psRepeatMbx \in Mails
    BY DEF MbType
  <2>2. l \in MbType
    <3>1. c \in MbType
      BY <1>2, <2>1 DEF MBX_CopyToSendMailbox, MbType
    <3> HIDE DEF c
    <3>2. NoMail \in Mails
      BY Zeros
    <3> QED  BY <3>1, <3>2 DEF MbType
  <2>3. Same(t, l, Noted)
    BY <1>2 DEF MBX_CopyToSendMailbox, MbType, Same, Noted
  <2> QED  BY <2>2, <2>3
<1> HIDE DEF l
<1>4. n \in MbType /\ Same(m, n, Noted)
  BY <1>2, <1>3 DEF Same
<1> HIDE DEF n
<1>5. Same(n, k, Noted)
  BY <1>4 DEF MbType, Same, Noted
<1> HIDE DEF k
<1> QED  BY <1>1, <1>4, <1>5 DEF Same

\* A fragment that was put off is sent, or put off again for want of memory.
LEMMA COE_ContinueIndDoes ==
  ASSUME Fits, NEW m \in MbType, NEW ok \in BOOLEAN, m.running, ~m.u8MailboxSendReqStored,
         ok => m.heap # 1..Pool, m.nSdoInfoFragmentsLeft > 0,
         NEW U \in Seq(Mails), NEW w \in Masters, Books(m, U, 0, w), Queued(m) <= Len(U)
  PROVE  Does(m, COE_ContinueInd(m, ok), U, w)
<1> DEFINE b    == NewBuffer(m)
           l    == [m EXCEPT !.heap = @ \cup {b}]
           mail == [NoMail EXCEPT !.buf = b]
           n    == [m EXCEPT !.u8MailboxSendReqStored = TRUE]
           k    == COE_ContinueInd(m, ok)
<1>1. m.pCoeSendStored = NoMail
  BY DEF Books, Kept
<1>2. CASE ~ok
  <2>1. k = n
    BY <1>1, <1>2 DEF COE_ContinueInd
  <2>2. /\ n \in MbType /\ Same(m, n, Chained) /\ Same(m, n, Noted \ {"u8MailboxSendReqStored"})
        /\ n.nSdoInfoFragmentsLeft = m.nSdoInfoFragmentsLeft
    BY DEF MbType, Same, Chained, Noted
  <2> HIDE DEF n
  <2>3. Books(n, U, 0, w)
    BY <2>2, FlagBooks
  <2>4. Extended(m, n, U, U)
    BY <2>2 DEF Extended
  <2> QED  BY <2>1, <2>2, <2>3, <2>4 DEF Does
<1>3. CASE ok
  <2>1. k = SDOS_SdoInfoInd(l, mail)
    BY <1>1, <1>3 DEF COE_ContinueInd
  <2>2. b \in 1..Pool
    BY <1>3, NewBufferIsFree
  <2> HIDE DEF b
  <2>3. mail \in Mails
    <3>1. b \in 0..Pool /\ NoMail \in Mails
      BY <2>2, Zeros
    <3> QED  BY <3>1 DEF Mails
  <2>4. l \in MbType /\ Same(m, l, Chained) /\ Same(m, l, Noted)
    BY <2>2 DEF MbType, Same, Chained, Noted
  <2> HIDE DEF l, mail, k
  <2>5. /\ Books(l, U, 0, w) /\ l.running /\ ~l.u8MailboxSendReqStored
        /\ l.nSdoInfoFragmentsLeft > 0 /\ Queued(l) <= Len(U)
    <3>1. Books(l, U, 0, w)
      BY <2>4, SameBooks
    <3>2. l.u8MailboxSendReqStored = m.u8MailboxSendReqStored
          /\ l.nSdoInfoFragmentsLeft = m.nSdoInfoFragmentsLeft
      BY <2>4 DEF Same, Noted
    <3> QED  BY <2>4, <3>1, <3>2, ChainedFields DEF Queued
  <2>6. Does(l, SDOS_SdoInfoInd(l, mail), U, w)
    BY <2>3, <2>4, <2>5, NextFragmentDoes
  <2>7. Does(m, k, U, w)
    BY <2>1, <2>4, <2>6, SameDoes
  <2> QED  BY <2>7 DEF k
<1> QED  BY <1>2, <1>3

LEMMA MBX_MailboxReadIndBooks ==
  ASSUME Fits, NEW m, NEW ok \in BOOLEAN, Sound(m, {}), Taken(m),
         m.u8MailboxSendReqStored /\ m.pCoeSendStored = NoMail /\ ok
           => ReleaseRepeat(m).heap # 1..Pool,
         NEW g \in Mails, Known(m, g), NEW w \in Masters, Books(m, Rest(Chain(m), g), 0, w)
  PROVE  LET k == MBX_MailboxReadInd(m, ok)
         IN  Books(k, Rest(Chain(k), g), 0, w)
<1> DEFINE l == SentNext(m)
           n == [l EXCEPT !.u8MailboxSendReqStored = FALSE]
           k == MBX_MailboxReadInd(m, ok)
           U == Rest(Chain(m), g)
<1>1. k = IF l.u8MailboxSendReqStored THEN COE_ContinueInd(n, ok) ELSE l
  BY DEF MBX_MailboxReadInd, SentNext
<1>2. /\ Turned(m, l) /\ Relinked(m, l) /\ m.bSendMbxIsFull /\ m.running /\ Same(m, l, Noted)
      /\ Sound(k, {})
  BY SentNextTurned, SentNextRelinked, SentNextNoted, MBX_MailboxReadIndDelivers
     DEF Taken, Sound, Shape
<1> HIDE DEF l, k
<1>3. Sound(l, {}) /\ l \in MbType /\ l.running
  BY <1>2, TurnedSound, BehindFields DEF Turned
<1>4. Known(l, g) /\ Rest(Chain(l), g) = U
  BY <1>2, <1>3, TurnedKnown
<1>5. Queued(l) <= Len(U) /\ U \in Seq(Mails)
  BY <1>3, <1>4, QueueUnderWay
<1> HIDE DEF U
<1>6. Books(l, U, 0, w)
  BY <1>2, SameBooks DEF U
<1>7. CASE ~l.u8MailboxSendReqStored
  <2>1. k = l
    BY <1>1, <1>7
  <2> QED  BY <1>4, <1>6, <2>1 DEF k
<1>8. CASE l.u8MailboxSendReqStored
  <2>1. k = COE_ContinueInd(n, ok)
    BY <1>1, <1>8
  <2>2. /\ n \in MbType /\ Same(l, n, Chained) /\ Same(l, n, Noted \ {"u8MailboxSendReqStored"})
        /\ ~n.u8MailboxSendReqStored /\ n.heap = l.heap
    BY <1>3 DEF MbType, Same, Chained, Noted
  <2> HIDE DEF n
  <2>3. Books(n, U, 0, w)
    BY <1>6, <2>2, FlagBooks
  <2>4. /\ n.running /\ n.nSdoInfoFragmentsLeft > 0 /\ Queued(n) <= Len(U)
    <3>1. l.nSdoInfoFragmentsLeft > 0
      BY <1>6, <1>8 DEF Books, Kept
    <3>2. n.nSdoInfoFragmentsLeft = l.nSdoInfoFragmentsLeft
      BY <2>2 DEF Same, Noted
    <3> QED  BY <1>3, <1>5, <2>2, <3>1, <3>2, ChainedFields DEF Queued
  <2>5. ok => n.heap # 1..Pool
    <3>1. m.pCoeSendStored = NoMail /\ m.u8MailboxSendReqStored
      BY <1>2, <1>8 DEF Books, Kept, Same, Noted
    <3>2. l.heap = m.heap \ Buf(m.psRepeatMbx)
      BY <1>2 DEF Turned
    <3>3. ReleaseRepeat(m).heap = m.heap \ Buf(m.psRepeatMbx)
      <4>1. m \in MbType
        BY DEF Sound
      <4>2. ReleaseRepeat(m) = [m EXCEPT !.heap = @ \ Buf(m.psRepeatMbx)]
        BY <1>2, ReleaseRepeatFrees
      <4> QED  BY <4>1, <4>2 DEF MbType
    <3> QED  BY <2>2, <3>1, <3>2, <3>3
  <2>6. Does(l, k, U, w)
    BY <1>5, <2>1, <2>2, <2>3, <2>4, <2>5, COE_ContinueIndDoes, SameDoes
  <2>7. Sends(l, k)
    BY <2>1, <2>2, <2>5, COE_ContinueIndAppends, SameThenSends
  <2>8. PICK V \in Seq(Mails) : Extended(l, k, U, V) /\ Books(k, V, 0, w)
    BY <2>6 DEF Does
  <2>9. V = Rest(Chain(k), g)
    BY <1>2, <1>3, <1>4, <2>7, <2>8, ExtendedRest
  <2> QED  BY <2>8, <2>9 DEF k
<1> QED  BY <1>7, <1>8

LEMMA IndicationsAnswer ==
  ASSUME Fits, AInv, Indications
  PROVE  Answering'
<1>1. /\ Sound(mb, {}) /\ got \in Mails /\ Known(mb, got) /\ Master1 \in Masters
      /\ Books(mb, Rest(Chain(mb), got), 0, Master1) /\ OInv
  BY AnsweringFacts DEF AInv
<1>2. Master1' = Master1 /\ got' = got
  BY DEF Indications, masterVars, Master1
<1>3. PICK n : /\ Sound(n, {}) /\ MayTurn(mb, n) /\ Delivers(mb, n, got)
               /\ AsksAgain(n) => ~Taken(n)
               /\ mb' = IF AsksAgain(n) THEN MBX_MailboxRepeatReq(n) ELSE n
  BY <1>1, IndicationsTurn
<1>4. Books(n, Rest(Chain(n), got), 0, Master1)
  BY <1>1, <1>3, MBX_MailboxReadIndBooks DEF MayTurn
<1>5. Books(mb', Rest(Chain(mb'), got), 0, Master1)
  <2>1. CASE AsksAgain(n)
    <3>1. mb' = MBX_MailboxRepeatReq(n) /\ n \in MbType /\ Known(n, got)
      BY <1>3, <2>1 DEF Sound, Delivers
    <3>2. Same(n, mb', Noted)
      BY <3>1, RepeatReqNoted
    <3>3. Chain(mb') = Chain(n)
      BY <1>1, <1>3, <2>1, <3>1, MBX_MailboxRepeatReqKeeps DEF AsksAgain
    <3> QED  BY <1>4, <3>2, <3>3, SameBooks
  <2>2. CASE ~AsksAgain(n)
    BY <1>3, <1>4, <2>2
  <2> QED  BY <2>1, <2>2
<1> QED  BY <1>2, <1>5 DEF Answering, Awaited
-------------------------------------------------------------------------------
(* The steps that send nothing.                                              *)

\* Nothing that the books are kept from has changed.
LEMMA QuietAnswering ==
  ASSUME AInv, Same(mb, mb', Noted), Chain(mb') = Chain(mb),
         UNCHANGED <<got, req, open, left>>
  PROVE  Answering'
<1>1. Books(mb', Awaited, 0, Master1)
  BY SameBooks DEF AInv, Answering
<1>2. Awaited' = Awaited /\ Master1' = Master1
  BY DEF Awaited, Master1
<1> QED  BY <1>1, <1>2 DEF Answering

\* A step that does nothing, or no more than take a reply out of SM1.
Quiet == /\ mb' = mb \/ mb' = [mb EXCEPT !.sm1 = NoMail]
         /\ UNCHANGED <<got, req, open, left>>

LEMMA QuietAnswers ==
  ASSUME AInv, Quiet
  PROVE  Answering'
<1>1. /\ mb' = mb \/ mb' = [mb EXCEPT !.sm1 = NoMail]
      /\ UNCHANGED <<got, req, open, left>>
  BY DEF Quiet
<1>2. mb \in MbType
  BY AnsweringFacts
<1>3. /\ Same(mb, mb', Noted)
      /\ Same(mb, mb', {"psRepeatMbx", "psReadMbx", "psStoreMbx", "sendQ", "bSendMbxIsFull"})
  BY <1>1, <1>2 DEF MbType, Same, Noted
<1>4. Chain(mb') = Chain(mb)
  BY <1>3 DEF Same, Chain
<1> QED  BY <1>1, <1>3, <1>4, QuietAnswering

\* Nothing was asked of a mailbox that does not run.
LEMMA StartAnswers ==
  ASSUME AInv, StartMailbox
  PROVE  Answering'
<1> DEFINE U == Awaited
           w == Master1
<1>1. mb \in MbType /\ Shape(mb) /\ Books(mb, U, 0, w)
  BY AnsweringFacts
<1>2. PICK boot \in Boots : mb' = [mb EXCEPT !.running = TRUE, !.boot = boot]
  BY DEF StartMailbox
<1>3. ~mb.running /\ UNCHANGED <<got, req, open, left>>
  BY DEF StartMailbox, masterVars
<1>4. /\ Same(mb, mb', Noted \ {"running", "boot"})
      /\ Same(mb, mb', {"psRepeatMbx", "psReadMbx", "psStoreMbx", "sendQ", "bSendMbxIsFull"})
  BY <1>1, <1>2 DEF MbType, Same, Noted
<1>5. Awaited' = U /\ Master1' = w
  BY <1>3, <1>4 DEF Same, Chain, Awaited, Master1
<1>6. /\ mb'.sm0 = mb.sm0 /\ mb'.recvQ = mb.recvQ
      /\ mb'.u8MbxWriteCounter = mb.u8MbxWriteCounter /\ mb'.pCoeSendStored = mb.pCoeSendStored
      /\ mb'.pSdoResStored = mb.pSdoResStored
      /\ mb'.nSdoInfoFragmentsLeft = mb.nSdoInfoFragmentsLeft
      /\ mb'.u8MailboxSendReqStored = mb.u8MailboxSendReqStored
  BY <1>4 DEF Same, Noted
<1> HIDE DEF U, w
<1>7. mb.sm0 = NoMail /\ mb.recvQ = <<>>
  BY <1>1, <1>3 DEF Books, Asked, Shape
<1>8. Kept(mb') /\ UnderWay(mb', U) /\ Asked(mb', w)
  BY <1>1, <1>6, <1>7 DEF Books, Kept, UnderWay, Asked
<1>9. ~ListComes(mb')
  <2>1. DOMAIN mb'.recvQ = {}
    BY <1>6, <1>7
  <2> QED  BY <1>6, <1>7, <2>1 DEF ListComes, Unseen
<1>10. Expected(mb', U, w)
  BY <1>1, <1>6, <1>9 DEF Books, Expected
<1>11. Balance(mb', U, 0, w)
  BY <1>1, <1>6 DEF Books, Balance, Unseen, Received, Busy, SdoBusy, Begun
<1> QED  BY <1>5, <1>8, <1>10, <1>11 DEF Answering, Books

\* The master that stops the mailbox waits for nothing any more.
LEMMA StopAnswers ==
  ASSUME AInv, StopMailbox
  PROVE  Answering'
<1> DEFINE k == MBX_StopMailboxHandler(mb)
           w == [req |-> NoMail, left |-> 0, open |-> 0]
<1>1. mb' = k /\ got' = NoMail /\ Master1' = w /\ ~OneByOne
  BY DEF StopMailbox, Master1, OneByOne
<1>2. /\ k.sm0 = NoMail /\ k.recvQ = <<>> /\ k.u8MbxWriteCounter = 0
      /\ ~k.u8MailboxSendReqStored /\ k.pSdoResStored = NoMail
      /\ k.pCoeSendStored = mb.pCoeSendStored
      /\ k.nSdoInfoFragmentsLeft = mb.nSdoInfoFragmentsLeft
  BY DEF MBX_StopMailboxHandler, Stopped
<1>3. Awaited' = <<>>
  BY <1>1, StoppedChain DEF Awaited
<1>4. mb.pCoeSendStored = NoMail /\ mb.nSdoInfoFragmentsLeft = 0
  BY <1>1 DEF AInv, Answering, Books, Kept, UnderWay
<1>5. w.req = NoMail /\ w.left = 0 /\ w.open = 0 /\ NoMail.cnt = 0
  BY DEF NoMail
<1> HIDE DEF k, w
<1>6. Len(<<>>) = 0 /\ DOMAIN <<>> = {} /\ Window \in Nat
  BY EmptySeq, SizesAssumption
<1>7. Kept(k) /\ UnderWay(k, <<>>) /\ Asked(k, w) /\ Expected(k, <<>>, w)
  BY <1>1, <1>2, <1>4, <1>5, <1>6 DEF Kept, UnderWay, Asked, Expected
<1>8. Balance(k, <<>>, 0, w)
  BY <1>1, <1>2, <1>5, <1>6 DEF Balance, Unseen, Received, Busy, SdoBusy, Begun
<1> QED  BY <1>1, <1>3, <1>7, <1>8 DEF Answering, Books
-------------------------------------------------------------------------------
(* The master writes a request and accepts a reply.                          *)

\* Only sync manager 0 has changed.
LEMMA WrittenFields ==
  ASSUME NEW m \in MbType, NEW r \in Mails
  PROVE  LET k == [m EXCEPT !.sm0 = r, !.ev0 = TRUE]
         IN  /\ k.sm0 = r /\ k.running = m.running /\ k.boot = m.boot /\ k.recvQ = m.recvQ
             /\ k.u8MbxWriteCounter = m.u8MbxWriteCounter
             /\ k.pCoeSendStored = m.pCoeSendStored /\ k.pSdoResStored = m.pSdoResStored
             /\ k.nSdoInfoFragmentsLeft = m.nSdoInfoFragmentsLeft
             /\ k.u8MailboxSendReqStored = m.u8MailboxSendReqStored
             /\ Chain(k) = Chain(m)
BY DEF MbType, Chain

LEMMA WriteRequestAnswers ==
  ASSUME Fits, AInv, WriteRequest
  PROVE  Answering'
<1> DEFINE U == Awaited
           w == Master1
           v == Master1'
           c == (req.cnt % Counters) + 1
           k == mb'
<1>1. /\ mb \in MbType /\ w \in Masters /\ U \in Seq(Mails) /\ Books(mb, U, 0, w)
      /\ w.req = req /\ w.left = left /\ w.open = open /\ req \in Mails
      /\ mb.running /\ mb.sm0 = NoMail /\ open < Window
  BY AnsweringFacts DEF WriteRequest
<1>2. PICK s \in Services :
        LET r == [NoMail EXCEPT !.cnt = c, !.what = s]
        IN  /\ k = [mb EXCEPT !.sm0 = r, !.ev0 = TRUE]
            /\ req' = r
            /\ left' = IF s = "list" /\ ~mb.boot THEN Fragments ELSE left
            /\ open' = IF s = "foe" THEN open ELSE open + 1
  BY DEF WriteRequest
<1> DEFINE r == [NoMail EXCEPT !.cnt = c, !.what = s]
<1>3. r \in Mails /\ r # NoMail
  BY <1>1, RequestIsMail
<1>4. r.cnt = c /\ r.what = s /\ r.left = 0
  BY DEF NoMail
<1>5. c # 0 /\ c # req.cnt
  <2>1. req.cnt \in 0..Counters
    BY <1>1 DEF Mails
  <2>2. CASE req.cnt = Counters
    <3>1. c = 1
      BY <2>1, <2>2, SizesAssumption
    <3> QED  BY <2>2, <3>1, SizesAssumption
  <2>3. CASE req.cnt < Counters
    <3>1. c = req.cnt + 1
      BY <2>1, <2>3, SizesAssumption
    <3> QED  BY <2>1, <3>1
  <2> QED  BY <2>1, <2>2, <2>3, SizesAssumption
<1>6. k = [mb EXCEPT !.sm0 = r, !.ev0 = TRUE]
  BY <1>2
<1>7. /\ k.sm0 = r /\ k.running = mb.running /\ k.boot = mb.boot /\ k.recvQ = mb.recvQ
      /\ k.u8MbxWriteCounter = mb.u8MbxWriteCounter
      /\ k.pCoeSendStored = mb.pCoeSendStored /\ k.pSdoResStored = mb.pSdoResStored
      /\ k.nSdoInfoFragmentsLeft = mb.nSdoInfoFragmentsLeft
      /\ k.u8MailboxSendReqStored = mb.u8MailboxSendReqStored /\ Chain(k) = Chain(mb)
  <2> HIDE DEF k, r
  <2> QED  BY <1>1, <1>3, <1>6, WrittenFields
<1>8. v.req = r /\ v.left = (IF s = "list" /\ ~mb.boot THEN Fragments ELSE left)
      /\ v.open = open + 1
  <2>1. s # "foe"
    BY DEF Fits, Plain
  <2> QED  BY <1>2, <2>1 DEF Master1
<1>9. Awaited' = U
  BY <1>7 DEF Awaited, WriteRequest
<1> HIDE DEF U, w, v, c, r, k
<1>10. req.cnt = mb.u8MbxWriteCounter
  BY <1>1 DEF Books, Asked
<1>11. Kept(k) /\ UnderWay(k, U)
  BY <1>1, <1>7 DEF Books, Kept, UnderWay
<1>12. Asked(k, v)
  BY <1>1, <1>3, <1>4, <1>5, <1>7, <1>8 DEF Asked, IsRequest
<1>13. Unseen(mb) = 0 /\ Unseen(k) = 1
  BY <1>1, <1>3, <1>4, <1>5, <1>7, <1>10 DEF Unseen
<1>14. Received(k) = Received(mb) /\ Busy(k) = Busy(mb) /\ Begun(k, U) = Begun(mb, U)
  BY <1>7 DEF Received, Busy, SdoBusy, Begun
<1>15. /\ Received(mb) \in Nat /\ Busy(mb) \in Nat /\ Begun(mb, U) \in Nat /\ open \in Nat
       /\ Len(U) \in Nat /\ mb.nSdoInfoFragmentsLeft \in Nat /\ Window \in Nat
  BY <1>1, BookTypes, SizesAssumption DEF Masters
<1>16. open = Received(mb) + Busy(mb) + Begun(mb, U)
  BY <1>1, <1>13, <1>15 DEF Books, Balance
<1>17. Balance(k, U, 0, v)
  BY <1>1, <1>8, <1>13, <1>14, <1>15, <1>16 DEF Balance
<1>18. Expected(k, U, v)
  <2> SUFFICES ASSUME OneByOne PROVE Expected(k, U, v)
    BY DEF Expected
  <2>1. Received(mb) = 0 /\ Begun(mb, U) = 0
    BY <1>1, <1>15, <1>16 DEF OneByOne
  <2>2. k.nSdoInfoFragmentsLeft = 0 /\ Len(U) = 0
    <3>1. ~(mb.nSdoInfoFragmentsLeft + Len(U) > 0)
      BY <2>1 DEF Begun
    <3> QED  BY <1>7, <1>15, <3>1
  <2>3. U = <<>> /\ k.recvQ = <<>>
    <3>1. k.recvQ \in Seq(Mails) /\ Len(k.recvQ) = 0
      BY <1>1, <1>7, <2>1 DEF MbType, Received
    <3> QED  BY <1>1, <2>2, <3>1, EmptySeq
  <2>4. DOMAIN k.recvQ = {}
    BY <2>3
  <2>5. ListComes(k) => s = "list"
    BY <1>4, <1>7, <2>4 DEF ListComes
  <2> QED  BY <1>7, <1>8, <1>15, <2>2, <2>3, <2>5 DEF Expected
<1> QED  BY <1>9, <1>11, <1>12, <1>17, <1>18 DEF Answering, Books, v, k

\* The slave knows a request it has taken by its counter.
LEMMA WriteAgainAnswers ==
  ASSUME AInv, WriteAgain
  PROVE  Answering'
<1> DEFINE U == Awaited
           w == Master1
           k == mb'
<1>1. /\ mb \in MbType /\ U \in Seq(Mails) /\ Books(mb, U, 0, w) /\ w.req = req
      /\ req \in Mails /\ mb.running /\ mb.sm0 = NoMail /\ req # NoMail
      /\ k = [mb EXCEPT !.sm0 = req, !.ev0 = TRUE] /\ UNCHANGED masterVars
  BY AnsweringFacts DEF WriteAgain
<1>2. /\ k.sm0 = req /\ k.running = mb.running /\ k.boot = mb.boot /\ k.recvQ = mb.recvQ
      /\ k.u8MbxWriteCounter = mb.u8MbxWriteCounter
      /\ k.pCoeSendStored = mb.pCoeSendStored /\ k.pSdoResStored = mb.pSdoResStored
      /\ k.nSdoInfoFragmentsLeft = mb.nSdoInfoFragmentsLeft
      /\ k.u8MailboxSendReqStored = mb.u8MailboxSendReqStored /\ Chain(k) = Chain(mb)
  <2> HIDE DEF k
  <2> QED  BY <1>1, WrittenFields
<1>3. Awaited' = U /\ Master1' = w
  BY <1>1, <1>2 DEF Awaited, Master1, masterVars
<1> HIDE DEF U, w, k
<1>4. Kept(k) /\ UnderWay(k, U) /\ Asked(k, w)
  BY <1>1, <1>2 DEF Books, Kept, UnderWay, Asked
<1>5. /\ Unseen(mb) = 0 /\ Unseen(k) = 0
      /\ Received(k) = Received(mb) /\ Busy(k) = Busy(mb) /\ Begun(k, U) = Begun(mb, U)
  BY <1>1, <1>2 DEF Books, Asked, Unseen, Received, Busy, SdoBusy, Begun
<1>6. ListComes(k) => ListComes(mb)
  BY <1>2, <1>5 DEF ListComes
<1>7. Expected(k, U, w) /\ Balance(k, U, 0, w)
  BY <1>1, <1>2, <1>5, <1>6 DEF Books, Expected, Balance
<1> QED  BY <1>3, <1>4, <1>7 DEF Answering, Books, k

LEMMA OneLess ==
  \A a, b, c \in Nat : (a + (b + 1)) - 1 = a + b /\ (a <= c => a - 1 <= c)
OBVIOUS

\* The first reply under way is accepted.
LEMMA AcceptedBooks ==
  ASSUME NEW m \in MbType, NEW U \in Seq(Mails), U # <<>>,
         NEW w \in Masters, Books(m, U, 0, w), NEW v, v.req = w.req,
         v.open = IF U[1].left = 0 /\ w.open > 0 THEN w.open - 1 ELSE w.open,
         v.left = IF U[1].what = "frag" /\ U[1].left > 0 THEN U[1].left - 1 ELSE w.left
  PROVE  Books(m, Tail(U), 0, v)
<1> DEFINE T == Tail(U)
           n == m.nSdoInfoFragmentsLeft
<1>1. /\ T \in Seq(Mails) /\ Len(T) = Len(U) - 1 /\ \A i \in 1..(Len(U) - 1) : T[i] = U[i + 1]
      /\ Len(U) \in Nat /\ Len(U) >= 1
  BY HeadTailProperties, LenProperties, EmptySeq
<1>2. /\ Unseen(m) \in 0..1 /\ Received(m) \in Nat /\ Busy(m) \in Nat /\ Begun(m, U) \in Nat
      /\ n \in Nat /\ w.open \in Nat /\ w.left \in Nat /\ Window \in Nat /\ Fragments \in Nat
  BY BookTypes, SizesAssumption DEF Masters
<1> HIDE DEF T, n
<1>3. ASSUME NEW i \in 1..Len(T)
      PROVE  i + 1 \in 1..Len(U) /\ T[i] = U[i + 1]
  BY <1>1, <1>3
<1>4. w.open = Unseen(m) + Received(m) + Busy(m) + Begun(m, U) /\ w.open <= Window
  BY <1>2 DEF Books, Balance
<1>5. Kept(m) /\ Asked(m, v)
  BY DEF Books, Asked
<1>6. ASSUME ~OneByOne
      PROVE  UnderWay(m, T) /\ Expected(m, T, v) /\ Balance(m, T, 0, v)
  <2>1. n = 0 /\ \A i \in 1..Len(U) : U[i].left = 0
    BY <1>6 DEF Books, UnderWay, n
  <2>2. 1 \in 1..Len(U)
    BY <1>1
  <2>3. \A i \in 1..Len(T) : T[i].left = 0
    BY <1>3, <2>1
  <2>4. UnderWay(m, T)
    BY <1>6, <2>1, <2>3 DEF UnderWay, n
  <2>5. Begun(m, U) = Len(U) /\ Begun(m, T) = Len(U) - 1
    BY <1>1, <1>6 DEF Begun
  <2>6. v.open = w.open - 1
    BY <1>1, <1>2, <1>4, <2>1, <2>2, <2>5
  <2>7. Balance(m, T, 0, v)
    <3>1. Begun(m, T) \in Nat /\ Begun(m, U) = Begun(m, T) + 1
      BY <1>1, <2>5
    <3>2. /\ v.open = Unseen(m) + Received(m) + Busy(m) + Begun(m, T)
          /\ v.open <= Window
      <4> HIDE DEF T
      <4> DEFINE others == Unseen(m) + Received(m) + Busy(m)
                 t == Begun(m, T)
      <4>1. others \in Nat /\ t \in Nat /\ w.open = others + (t + 1)
        BY <1>2, <1>4, <3>1
      <4>2. w.open <= Window /\ Window \in Nat
        BY <1>2, <1>4
      <4> HIDE DEF others, t
      <4>3. w.open - 1 = others + t /\ w.open - 1 <= Window
        <5>1. w.open - 1 = others + t
          BY <4>1, OneLess
        <5>2. w.open \in Nat
          BY <1>2
        <5>3. w.open - 1 <= Window
          BY <4>2, <5>2, OneLess
        <5> QED  BY <5>1, <5>3
      <4> QED  BY <2>6, <4>3 DEF others, t
    <3> QED  BY <1>2, <3>1, <3>2 DEF Balance
  <2> QED  BY <1>6, <2>4, <2>7 DEF Expected
<1>7. ASSUME OneByOne
      PROVE  UnderWay(m, T) /\ Expected(m, T, v) /\ Balance(m, T, 0, v)
  <2>1. /\ n + Len(U) <= Fragments + 1
        /\ \A i \in 1..Len(U) : U[i].left = n + Len(U) - i
        /\ \A i \in 1..Len(U) : U[i].left > 0 => U[i].what = "frag"
    BY <1>7 DEF Books, UnderWay, n
  <2>2. 1 \in 1..Len(U)
    BY <1>1
  <2>3. U[1].left = n + Len(T) /\ (U[1].left > 0 => U[1].what = "frag")
        /\ n + Len(T) \in Nat /\ n + Len(U) = n + Len(T) + 1
    BY <1>1, <1>2, <2>1, <2>2
  <2>4. ASSUME NEW i \in 1..Len(T)
        PROVE  T[i].left = n + Len(T) - i /\ (T[i].left > 0 => T[i].what = "frag")
    <3>1. T[i].left = n + Len(U) - (i + 1) /\ (T[i].left > 0 => T[i].what = "frag")
      BY <1>3, <2>1
    <3> QED  BY <1>1, <1>2, <3>1
  <2>5. UnderWay(m, T)
    <3>1. n + Len(T) <= Fragments + 1
      BY <1>1, <1>2, <2>1
    <3> QED  BY <1>7, <2>4, <3>1 DEF UnderWay, n
  <2>6. Begun(m, U) = 1 /\ Begun(m, T) = IF U[1].left > 0 THEN 1 ELSE 0
    BY <1>1, <1>2, <1>7, <2>3 DEF Begun, n
  <2>7. v.open = w.open - 1 + Begun(m, T) /\ w.open >= 1
    BY <1>2, <1>4, <2>3, <2>6
  <2>8. Balance(m, T, 0, v)
    <3>1. Begun(m, T) \in 0..1
      BY <2>6
    <3> QED  BY <1>2, <1>4, <2>6, <2>7, <3>1 DEF Balance
  <2>9. ~ListComes(m)
    <3>1. Unseen(m) = 0 /\ Received(m) = 0
      BY <1>2, <1>4, <1>7, <2>6 DEF OneByOne
    <3>2. m.recvQ \in Seq(Mails) /\ Len(m.recvQ) = 0
      BY <3>1 DEF MbType, Received
    <3>3. m.recvQ = <<>>
      BY <3>2, EmptySeq
    <3> QED  BY <3>1, <3>3 DEF ListComes
  <2>10. ASSUME n > 0 \/ (T # <<>> /\ T[1].what = "frag")
         PROVE  v.left + 1 = n + Len(T)
    <3>1. n + Len(T) > 0
      <4>1. T # <<>> => Len(T) > 0
        BY <1>1, EmptySeq, LenProperties
      <4> QED  BY <1>1, <1>2, <2>10, <4>1
    <3>2. U[1].left > 0 /\ U[1].what = "frag"
      BY <2>3, <3>1
    <3>3. v.left = U[1].left - 1
      BY <3>2
    <3> QED  BY <2>3, <3>3
  <2>11. Expected(m, T, v)
    BY <2>9, <2>10 DEF Expected, n
  <2> QED  BY <2>5, <2>8, <2>11
<1> QED  BY <1>5, <1>6, <1>7 DEF Books, T

LEMMA ReadAnswers ==
  ASSUME AInv, ReadMail, mb.sm1.cnt # got.cnt
  PROVE  /\ Answering' /\ Awaited # <<>> /\ got' = Awaited[1]
         /\ left' = IF got'.what = "frag" /\ got'.left > 0 THEN got'.left - 1 ELSE left
<1> DEFINE U    == Awaited
           w    == Master1
           mail == mb.sm1
<1>1. /\ mb \in MbType /\ w \in Masters /\ U \in Seq(Mails)
      /\ Books(mb, U, 0, w) /\ w.req = req /\ w.left = left /\ w.open = open
      /\ U = Rest(Chain(mb), got) /\ OInv
  BY AnsweringFacts DEF AInv
<1>2. /\ mail # NoMail /\ mail # got
      /\ mb' = [mb EXCEPT !.sm1 = NoMail] /\ got' = mail /\ req' = req
      /\ open' = IF mail.left = 0 /\ open > 0 THEN open - 1 ELSE open
      /\ left' = IF mail.what = "frag" /\ mail.left > 0 THEN mail.left - 1 ELSE left
  BY DEF ReadMail, MayRead
<1>3. Same(mb, mb', Noted)
  BY <1>1, <1>2 DEF MbType, Same, Noted
<1>4. U # <<>> /\ mail = Head(U) /\ Rest(Chain(mb'), got') = Tail(U)
  <2>1. Maps(Rest(Chain(mb), got), got, Rest(Chain(mb'), got'), got')
    BY <1>1, ReadInOrder DEF InOrder
  <2> QED  BY <1>1, <1>2, <2>1 DEF Maps
<1>5. mail = U[1]
  BY <1>1, <1>4
<1>6. Awaited' = Tail(U)
  BY <1>4 DEF Awaited
<1>7. /\ Master1'.req = req' /\ Master1'.left = left' /\ Master1'.open = open'
  BY DEF Master1
<1> HIDE DEF U, w, mail
<1>8. Books(mb, Tail(U), 0, Master1')
  BY <1>1, <1>2, <1>4, <1>5, <1>7, AcceptedBooks
<1>9. Books(mb', Tail(U), 0, Master1')
  BY <1>3, <1>8, SameBooks
<1> QED  BY <1>2, <1>4, <1>5, <1>6, <1>9 DEF Answering, U
-------------------------------------------------------------------------------
(* The theorems.                                                             *)

LEMMA InitAnswers == Init => AInv
<1> SUFFICES ASSUME Init PROVE AInv
  OBVIOUS
<1>1. OInv /\ Undelivered = <<>> /\ mb = Stopped /\ req = NoMail /\ open = 0
  BY InitOrder DEF Init
<1>2. Awaited = <<>>
  BY <1>1 DEF Undelivered, Replies, Rest, Chain, Awaited
<1>3. /\ mb.sm0 = NoMail /\ mb.recvQ = <<>> /\ mb.u8MbxWriteCounter = 0
      /\ ~mb.u8MailboxSendReqStored /\ mb.pSdoResStored = NoMail
      /\ mb.pCoeSendStored = NoMail /\ mb.nSdoInfoFragmentsLeft = 0
  BY <1>1 DEF Stopped
<1>4. Master1.req = NoMail /\ Master1.open = 0 /\ NoMail.cnt = 0
  BY <1>1 DEF Master1, NoMail
<1>5. Len(<<>>) = 0 /\ DOMAIN <<>> = {} /\ Window \in Nat /\ Fragments \in Nat
  BY EmptySeq, SizesAssumption
<1>6. Kept(mb) /\ UnderWay(mb, <<>>) /\ Asked(mb, Master1)
  BY <1>3, <1>4, <1>5 DEF Kept, UnderWay, Asked
<1>7. Expected(mb, <<>>, Master1)
  BY <1>3, <1>5 DEF Expected, ListComes, Unseen
<1>8. Balance(mb, <<>>, 0, Master1)
  BY <1>3, <1>4, <1>5 DEF Balance, Unseen, Received, Busy, SdoBusy, Begun
<1> QED  BY <1>1, <1>2, <1>6, <1>7, <1>8 DEF AInv, Answering, Books

LEMMA NextAnswers ==
  ASSUME Fits, AInv, [Next]_vars
  PROVE  AInv'
<1>1. OInv' /\ Sound(mb', {})
  BY NextInOrder, StutterOrder DEF AInv, OInv, IInv
<1>2. Answering'
  <2>1. CASE Serve \/ Main \/ WriteEvent \/ FinishSdo
    BY <1>1, <2>1, SendingAnswers DEF SendingSteps
  <2>2. CASE \/ ReadActivate \/ ReadStatus \/ NoTransition \/ SdoStillInWork
             \/ RequestRepeat \/ LoseMail
    <3>1. Quiet
      BY <2>2 DEF Quiet, ReadActivate, ReadStatus, NoTransition, SdoStillInWork,
         RequestRepeat, LoseMail, masterVars
    <3> QED  BY <3>1, QuietAnswers
  <2>3. CASE StartMailbox \/ StopMailbox \/ Indications
    BY <2>3, StartAnswers, StopAnswers, IndicationsAnswer
  <2>4. CASE WriteRequest \/ WriteAgain
    BY <2>4, WriteRequestAnswers, WriteAgainAnswers
  <2>5. CASE ReadMail
    <3>1. CASE mb.sm1.cnt = got.cnt
      <4>1. Quiet
        BY <2>5, <3>1 DEF Quiet, ReadMail
      <4> QED  BY <4>1, QuietAnswers
    <3>2. CASE mb.sm1.cnt # got.cnt
      BY <2>5, <3>2, ReadAnswers
    <3> QED  BY <3>1, <3>2
  <2>6. CASE UNCHANGED vars
    <3>1. Quiet
      BY <2>6 DEF Quiet, vars
    <3> QED  BY <3>1, QuietAnswers
  <2>7. Next \/ UNCHANGED vars
    OBVIOUS
  <2> QED  BY <2>1, <2>2, <2>3, <2>4, <2>5, <2>6, <2>7 DEF Next, Loop, Master
<1> QED  BY <1>1, <1>2 DEF AInv

\* The books of the slave balance: a request is in sync manager 0, in the
\* receive queue (mailbox.c:515), in work (pSdoResStored) or its answer is begun,
\* in one of these accounts only, and the fragments of a list that are under way
\* and those to be sent (nSdoInfoFragmentsLeft, sdoserv.c:1088) are what the
\* master still waits for.
THEOREM AnswersInvariance ==
  ASSUME Fits
  PROVE  Spec => []AInv
<1>1. Init => AInv
  BY InitAnswers
<1>2. AInv /\ [Next]_vars => AInv'
  BY NextAnswers
<1> QED  BY <1>1, <1>2, PTL DEF Spec

\* How many answers are begun, counted by the replies that end one.
LEMMA BegunCounted ==
  ASSUME NEW m \in MbType, NEW U \in Seq(Mails), UnderWay(m, U)
  PROVE  Begun(m, U) = (IF m.nSdoInfoFragmentsLeft > 0 THEN 1 ELSE 0)
                       + Cardinality({i \in DOMAIN U : U[i].left = 0})
<1> DEFINE n == m.nSdoInfoFragmentsLeft
           D == {i \in DOMAIN U : U[i].left = 0}
<1> SUFFICES Begun(m, U) = (IF n > 0 THEN 1 ELSE 0) + Cardinality(D)
  OBVIOUS
<1>1. /\ D = {i \in 1..Len(U) : U[i].left = 0} /\ Len(U) \in Nat /\ n \in Nat
      /\ Begun(m, U) = IF ~OneByOne THEN Len(U) ELSE IF n + Len(U) > 0 THEN 1 ELSE 0
  BY BookTypes, LenProperties, SizesAssumption DEF Begun
<1>2. /\ OneByOne => \A i \in 1..Len(U) : U[i].left = n + Len(U) - i
      /\ ~OneByOne => n = 0 /\ \A i \in 1..Len(U) : U[i].left = 0
  BY DEF UnderWay
<1> HIDE DEF n, D
<1>3. CASE ~OneByOne
  <2>1. D = 1..Len(U) /\ n = 0
    BY <1>1, <1>2, <1>3
  <2>2. Cardinality(1..Len(U)) = Len(U)
    <3> DEFINE k == Len(U)
    <3>1. k \in Nat
      BY <1>1
    <3> HIDE DEF k
    <3>2. Cardinality(1..k) = k
      BY <3>1, FS_Interval
    <3> QED  BY <3>2 DEF k
  <2>3. Cardinality(D) = Len(U) /\ Len(U) \in Nat
    BY <1>1, <2>1, <2>2
  <2>4. Begun(m, U) = Len(U)
    BY <1>1, <1>3
  <2> QED  BY <2>1, <2>3, <2>4
<1>4. CASE OneByOne
  <2>1. CASE n > 0 \/ Len(U) = 0
    <3>1. D = {}
      BY <1>1, <1>2, <1>4, <2>1
    <3>2. Cardinality(D) = 0
      BY <3>1, FS_EmptySet
    <3> QED  BY <1>1, <1>4, <2>1, <3>2
  <2>2. CASE n = 0 /\ Len(U) > 0
    <3>1. D = {Len(U)}
      BY <1>1, <1>2, <1>4, <2>2
    <3>2. Cardinality(D) = 1
      BY <3>1, FS_Singleton
    <3> QED  BY <1>1, <1>4, <2>2, <3>2
  <2> QED  BY <1>1, <2>1, <2>2
<1> QED  BY <1>3, <1>4

\* Each request is answered exactly once (mailbox.c:505, the repeated request;
\* mailbox.c:705, the counter of the reply), whatever is repeated or lost: for
\* each number of counters and fragments, each heap and each depth of the queues,
\* if the master leaves no more requests open than the send queue has room for,
\* and one at a time when it asks for lists.
THEOREM EachAnsweredOnce ==
  ASSUME Fits
  PROVE  Spec => []AnsweredOnce
<1>1. AInv => AnsweredOnce
  <2> SUFFICES ASSUME AInv PROVE open = InWork
    BY DEF AnsweredOnce
  <2> DEFINE R == {i \in DOMAIN mb.recvQ : mb.recvQ[i].what # "foe"}
             S == IF mb.sm0 # NoMail /\ mb.sm0.cnt # mb.u8MbxWriteCounter /\ mb.sm0.what # "foe"
                  THEN 1 ELSE 0
             L == IF mb.nSdoInfoFragmentsLeft > 0 THEN 1 ELSE 0
             D == {i \in DOMAIN Awaited : Awaited[i].left = 0}
  <2>1. /\ mb \in MbType /\ Awaited \in Seq(Mails) /\ Books(mb, Awaited, 0, Master1)
        /\ Master1.open = open
    BY AnsweringFacts
  <2>2. Undelivered = Awaited
    BY DEF Undelivered, Replies, Rest, Chain, Awaited
  <2>3. InWork = S + Cardinality(R) + Busy(mb) + L + Cardinality(D)
    BY <2>2 DEF InWork, Busy
  <2>4. "foe" \notin Services
    BY DEF Fits, Plain
  <2>5. S = Unseen(mb)
    <3>1. mb.sm0 # NoMail => mb.sm0.what \in Services
      BY <2>1 DEF Books, Asked, IsRequest
    <3> QED  BY <2>4, <3>1 DEF Unseen
  <2>6. Cardinality(R) = Received(mb)
    <3>1. mb.recvQ \in Seq(Mails)
      BY <2>1 DEF MbType
    <3>2. DOMAIN mb.recvQ = 1..Len(mb.recvQ) /\ Len(mb.recvQ) \in Nat
      BY <3>1, LenProperties
    <3>3. R = 1..Len(mb.recvQ)
      BY <2>1, <2>4, <3>2 DEF Books, Kept
    <3>4. Cardinality(1..Len(mb.recvQ)) = Len(mb.recvQ)
      BY <3>2, FS_Interval
    <3> QED  BY <3>3, <3>4 DEF Received
  <2>7. Begun(mb, Awaited) = L + Cardinality(D)
    BY <2>1, BegunCounted DEF Books
  <2> HIDE DEF R, S, L, D
  <2>8. /\ Unseen(mb) \in Nat /\ Received(mb) \in Nat /\ Busy(mb) \in Nat
        /\ Begun(mb, Awaited) \in Nat /\ L \in Nat
    BY <2>1, BookTypes DEF L
  <2>9. open = Unseen(mb) + Received(mb) + Busy(mb) + Begun(mb, Awaited)
    BY <2>1, <2>8 DEF Books, Balance
  <2>10. Cardinality(D) \in Nat
    <3>1. DOMAIN Awaited = 1..Len(Awaited) /\ Len(Awaited) \in Nat
      BY <2>1, LenProperties
    <3>2. IsFiniteSet(1..Len(Awaited)) /\ D \subseteq 1..Len(Awaited)
      BY <3>1, FS_Interval DEF D
    <3> QED  BY <3>2, FS_Subset, FS_CardinalityType
  <2> QED  BY <2>3, <2>5, <2>6, <2>7, <2>8, <2>9, <2>10
<1> QED  BY <1>1, AnswersInvariance, PTL

\* The fragments of an object list arrive complete and in order (sdoserv.c:1088),
\* though each is sent in a buffer of its own (ecatcoe.c:169), perhaps
\* much later, and may be lost and repeated.
THEOREM FragmentsInOrder ==
  ASSUME Plain, OneByOne
  PROVE  Spec => ListInOrder
<1>1. Fits
  BY DEF Fits
<1>2. AInv /\ [Next]_vars => [got' # got /\ got'.what = "frag" => got'.left = left]_vars
  <2> SUFFICES ASSUME AInv, Next, got' # got, got'.what = "frag"
               PROVE  got'.left = left
    BY DEF vars
  <2>1. ~StopMailbox
    BY DEF StopMailbox, OneByOne
  <2>2. ReadMail /\ mb.sm1.cnt # got.cnt
    BY <2>1 DEF Next, Loop, Master, masterVars, Serve, Main, ReadActivate, ReadStatus,
       NoTransition, StartMailbox, Indications, WriteEvent, FinishSdo, SdoStillInWork,
       WriteRequest, WriteAgain, ReadMail, LoseMail, RequestRepeat
  <2>3. Awaited # <<>> /\ got' = Awaited[1]
    BY <2>2, ReadAnswers
  <2> DEFINE U == Awaited
             n == mb.nSdoInfoFragmentsLeft
  <2>4. /\ mb \in MbType /\ U \in Seq(Mails) /\ Books(mb, U, 0, Master1)
        /\ Master1.left = left /\ Master1 \in Masters
    BY AnsweringFacts
  <2>5. left + 1 = n + Len(U)
    BY <2>3, <2>4 DEF Books, Expected
  <2>6. Len(U) \in Nat /\ Len(U) >= 1 /\ n \in Nat /\ left \in Nat
    BY <2>3, <2>4, BookTypes, EmptySeq, LenProperties, SizesAssumption DEF Masters
  <2>7. 1 \in 1..Len(U)
    BY <2>6
  <2>8. U[1].left = n + Len(U) - 1
    BY <2>4, <2>7 DEF Books, UnderWay
  <2> HIDE DEF U, n
  <2>9. U[1].left = left
    BY <2>5, <2>6, <2>8
  <2> QED  BY <2>3, <2>9 DEF U
<1> QED  BY <1>1, <1>2, AnswersInvariance, PTL DEF Spec, ListInOrder
===============================================================================
