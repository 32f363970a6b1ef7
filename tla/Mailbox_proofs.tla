---------------------------- MODULE Mailbox_proofs ----------------------------
(***************************************************************************)
(* What Mailbox guarantees for any services, counters, queues and heap, and *)
(* whatever the master repeats or loses: a mailbox buffer never has two     *)
(* owners and no owner points to a buffer that was freed; and, when the     *)
(* queue is deep enough for an object list, no buffer is left without one   *)
(* and no reply is dropped or put off.                                      *)
(*                                                                         *)
(* A C function that is given a mail is taken from a record of the globals  *)
(* and a set X, the buffer in its argument ("in flight"), to the record it  *)
(* returns and what is in flight then.                                      *)
(***************************************************************************)
EXTENDS Mailbox, SequenceTheorems, FiniteSetTheorems, TLAPS

Buf(mail) == {mail.buf} \ {0}
QBufs(q)  == {q[i].buf : i \in DOMAIN q}
QDistinct(q) == \A i, j \in DOMAIN q : q[i].buf = q[j].buf => i = j

\* A pointer is NULL or leads to a buffer.
IsKept(mail) == mail = NoMail \/ mail.buf # 0

(***************************************************************************)
(* How the globals fit together: a refused request is still in sync manager *)
(* 0; work is only there while the mailbox runs; psReadMbx is a reply of    *)
(* its own only while the send mailbox is full, and only then are there     *)
(* replies behind it.                                                       *)
(***************************************************************************)
Shape(m) ==
  /\ m.bReceiveMbxIsLocked \/ m.ev0 => m.running /\ m.sm0 # NoMail
  /\ m.bSendMbxIsFull \/ m.recvQ # <<>> \/ SdoBusy(m) => m.running
  /\ m.bSendMbxIsFull => m.psReadMbx.buf # 0
  /\ ~m.bSendMbxIsFull => /\ m.psReadMbx = m.psRepeatMbx /\ m.psStoreMbx = NoMail
                          /\ m.sendQ = <<>>
  /\ m.psStoreMbx # NoMail => m.psRepeatMbx = NoMail
  /\ IsKept(m.psRepeatMbx) /\ IsKept(m.psStoreMbx)
  /\ IsKept(m.pSdoResStored) /\ IsKept(m.pCoeSendStored)
  /\ 0 \notin QBufs(m.recvQ) /\ 0 \notin QBufs(m.sendQ)
  /\ QDistinct(m.recvQ) /\ QDistinct(m.sendQ)

(***************************************************************************)
(* The buffers each owner holds, and ownership as disjoint parts of what is *)
(* allocated and can still be freed.                                        *)
(***************************************************************************)
Held(m, X) ==
  [read   |-> IF m.bSendMbxIsFull THEN Buf(m.psReadMbx) ELSE {},
   repeat |-> Buf(m.psRepeatMbx), store |-> Buf(m.psStoreMbx),
   sdo    |-> Buf(m.pSdoResStored), coe |-> Buf(m.pCoeSendStored),
   recv   |-> QBufs(m.recvQ), send |-> QBufs(m.sendQ), flight |-> X]

Places == {"read", "repeat", "store", "sdo", "coe", "recv", "send", "flight"}

Separate(H) == \A p, q \in Places : p # q => H[p] \cap H[q] = {}
AllOf(H)    == UNION {H[p] : p \in Places}

Usable(m)   == m.heap \ m.unfreed
Ownership(m, X) == Separate(Held(m, X)) /\ AllOf(Held(m, X)) \subseteq Usable(m)
Whole(m, X)  == Usable(m) \subseteq AllOf(Held(m, X))

Sound(m, X) == m \in MbType /\ m.unfreed \subseteq m.heap /\ Shape(m) /\ Ownership(m, X)
-------------------------------------------------------------------------------
(* Ownership moves, ends or begins.                                          *)

\* The set B moves from owner p to owner q.
Moves(H, G, p, q, B) ==
  /\ G[p] = H[p] \ B /\ G[q] = H[q] \cup B
  /\ \A r \in Places \ {p, q} : G[r] = H[r]

LEMMA MoveKeeps ==
  ASSUME NEW H, NEW G, NEW p \in Places, NEW q \in Places, p # q, NEW B,
         B \subseteq H[p], Separate(H), Moves(H, G, p, q, B)
  PROVE  Separate(G) /\ AllOf(G) = AllOf(H)
<1>1. Separate(G)
  BY DEF Separate, Moves
<1>2. \A b : (\E r \in Places : b \in G[r]) <=> (\E r \in Places : b \in H[r])
  BY DEF Moves
<1> QED  BY <1>1, <1>2 DEF AllOf

\* Owner p gives up the set B.
Drops(H, G, p, B) == /\ G[p] = H[p] \ B
                     /\ \A r \in Places \ {p} : G[r] = H[r]

LEMMA DropKeeps ==
  ASSUME NEW H, NEW G, NEW p \in Places, NEW B,
         B \subseteq H[p], Separate(H), Drops(H, G, p, B)
  PROVE  Separate(G) /\ AllOf(G) = AllOf(H) \ B
<1>1. Separate(G)
  BY DEF Separate, Drops
<1>2. \A b : (\E r \in Places : b \in G[r]) <=> (\E r \in Places : b \in H[r]) /\ b \notin B
  BY DEF Drops, Separate
<1> QED  BY <1>1, <1>2 DEF AllOf

\* Owner p gets the set B, which nobody has.
Gains(H, G, p, B) == /\ G[p] = H[p] \cup B
                     /\ \A r \in Places \ {p} : G[r] = H[r]

LEMMA GainKeeps ==
  ASSUME NEW H, NEW G, NEW p \in Places, NEW B,
         B \cap AllOf(H) = {}, Separate(H), Gains(H, G, p, B)
  PROVE  Separate(G) /\ AllOf(G) = AllOf(H) \cup B
<1>1. \A r \in Places : H[r] \subseteq AllOf(H)
  BY DEF AllOf
<1>2. Separate(G)
  BY <1>1 DEF Separate, Gains
<1>3. \A b : (\E r \in Places : b \in G[r]) <=> (\E r \in Places : b \in H[r]) \/ b \in B
  BY DEF Gains
<1> QED  BY <1>2, <1>3 DEF AllOf

LEMMA QueueOfNone == QBufs(<<>>) = {} /\ QDistinct(<<>>)
BY DEF QBufs, QDistinct

LEMMA QueueAppend ==
  ASSUME NEW q \in Seq(Mails), NEW x \in Mails, x.buf \notin QBufs(q), QDistinct(q)
  PROVE  /\ Append(q, x) \in Seq(Mails) /\ Len(Append(q, x)) = Len(q) + 1
         /\ Append(q, x) # <<>>
         /\ QBufs(Append(q, x)) = QBufs(q) \cup {x.buf} /\ QDistinct(Append(q, x))
<1> DEFINE r == Append(q, x)
<1>1. r \in Seq(Mails) /\ Len(r) = Len(q) + 1 /\ Len(q) \in Nat
  BY LenProperties
<1>2. DOMAIN r = 1..(Len(q) + 1) /\ DOMAIN q = 1..Len(q)
  BY <1>1, LenProperties
<1>3. r[Len(q) + 1] = x /\ \A i \in 1..Len(q) : r[i] = q[i]
  BY <1>1
<1>4. \A i \in DOMAIN r : i = Len(q) + 1 \/ i \in DOMAIN q
  BY <1>1, <1>2
<1>5. Len(q) + 1 \in DOMAIN r /\ DOMAIN q \subseteq DOMAIN r
  BY <1>1, <1>2
<1>6. r # <<>>
  BY <1>1
<1> HIDE DEF r
<1>7. QBufs(r) = QBufs(q) \cup {x.buf}
  BY <1>2, <1>3, <1>4, <1>5 DEF QBufs
<1>8. QDistinct(r)
  BY <1>2, <1>3, <1>4, <1>5 DEF QDistinct, QBufs
<1> QED  BY <1>1, <1>6, <1>7, <1>8 DEF r

LEMMA QueueTail ==
  ASSUME NEW q \in Seq(Mails), q # <<>>, QDistinct(q)
  PROVE  /\ Head(q) \in Mails /\ Tail(q) \in Seq(Mails) /\ Len(Tail(q)) = Len(q) - 1
         /\ Head(q).buf \in QBufs(q) /\ QBufs(Tail(q)) = QBufs(q) \ {Head(q).buf}
         /\ QDistinct(Tail(q))
<1> DEFINE t == Tail(q)
<1>1. /\ Head(q) \in Mails /\ t \in Seq(Mails) /\ Len(t) = Len(q) - 1
      /\ Len(q) \in Nat /\ Len(q) > 0
      /\ \A i \in 1..Len(t) : t[i] = q[i + 1]
  BY HeadTailProperties, LenProperties, EmptySeq
<1>2. DOMAIN t = 1..(Len(q) - 1) /\ DOMAIN q = 1..Len(q)
  BY <1>1, LenProperties
<1>3. Head(q) = q[1] /\ 1 \in DOMAIN q
  BY <1>1, <1>2
<1>4. \A i \in DOMAIN t : t[i] = q[i + 1] /\ i + 1 \in DOMAIN q /\ i + 1 # 1
  BY <1>1, <1>2
<1>5. \A i \in DOMAIN q : i # 1 => i - 1 \in DOMAIN t /\ t[i - 1] = q[i]
  BY <1>1, <1>2
<1>6. \A i, j \in DOMAIN t : i + 1 = j + 1 => i = j
  BY <1>2
<1> HIDE DEF t
<1>7. QBufs(t) = QBufs(q) \ {q[1].buf}
  <2>1. \A b \in QBufs(t) : b \in QBufs(q) /\ b # q[1].buf
    BY <1>3, <1>4 DEF QBufs, QDistinct
  <2>2. \A b \in QBufs(q) : b # q[1].buf => b \in QBufs(t)
    BY <1>5 DEF QBufs
  <2> QED  BY <2>1, <2>2
<1>8. QDistinct(t)
  BY <1>4, <1>6 DEF QDistinct
<1> QED  BY <1>1, <1>3, <1>7, <1>8 DEF t, QBufs
-------------------------------------------------------------------------------
(* Sending.                                                                  *)

LEMMA MailFacts ==
  /\ NoMail \in Mails /\ NoMail.buf = 0
  /\ \A mail \in Mails, c \in 0..Counters :
       /\ [mail EXCEPT !.cnt = c] \in Mails
       /\ [mail EXCEPT !.cnt = c].buf = mail.buf
  /\ \A mail \in Mails :
       /\ [mail EXCEPT !.what = "err", !.left = 0] \in Mails
       /\ [mail EXCEPT !.what = "err", !.left = 0].buf = mail.buf
       /\ \A n \in 0..Fragments :
            /\ [mail EXCEPT !.what = "frag", !.left = n] \in Mails
            /\ [mail EXCEPT !.what = "frag", !.left = n].buf = mail.buf
       /\ \A b \in 0..Pool : [mail EXCEPT !.buf = b] \in Mails /\ [mail EXCEPT !.buf = b].buf = b
<1>1. NoMail \in Mails /\ NoMail.buf = 0
  BY SizesAssumption DEF NoMail, Mails, Whats
<1>2. ASSUME NEW mail \in Mails, NEW c \in 0..Counters
      PROVE  [mail EXCEPT !.cnt = c] \in Mails /\ [mail EXCEPT !.cnt = c].buf = mail.buf
  BY DEF Mails
<1>3. ASSUME NEW mail \in Mails, NEW n \in 0..Fragments, NEW w \in {"err", "frag"}
      PROVE  /\ [mail EXCEPT !.what = w, !.left = n] \in Mails
             /\ [mail EXCEPT !.what = w, !.left = n].buf = mail.buf
  BY DEF Mails, Whats
<1>4. ASSUME NEW mail \in Mails, NEW b \in 0..Pool
      PROVE  [mail EXCEPT !.buf = b] \in Mails /\ [mail EXCEPT !.buf = b].buf = b
  BY DEF Mails
<1>5. 0 \in 0..Fragments
  BY SizesAssumption
<1> QED  BY <1>1, <1>2, <1>3, <1>4, <1>5

LEMMA NextCounterType ==
  ASSUME NEW c \in 0..Counters
  PROVE  NextCounter(c) \in 0..Counters
BY SizesAssumption DEF NextCounter

\* The fields named in F are the same in m and k.
Same(m, k, F) == \A f \in F : k[f] = m[f]

\* What sending leaves alone.
Aside == {"running", "boot", "sm0", "ev0", "recvQ", "psRepeatMbx", "psStoreMbx",
          "bReceiveMbxIsLocked", "bMbxRepeatToggle", "u8MbxWriteCounter",
          "pSdoResStored", "pCoeSendStored", "nSdoInfoFragmentsLeft", "heap", "unfreed"}

\* There is room for one more reply.
Room(m) == m.bSendMbxIsFull => ~QueueFull(m.sendQ)

\* mail went into the send mailbox or to the end of the queue.
Sent(m, k, mail) ==
  /\ k \in MbType /\ Same(m, k, Aside) /\ k.bSendMbxIsFull
  /\ ~m.bSendMbxIsFull => k.psReadMbx.buf = mail.buf /\ k.sendQ = m.sendQ
  /\ m.bSendMbxIsFull => /\ k.psReadMbx = m.psReadMbx
                         /\ \E new \in Mails : /\ new.buf = mail.buf
                                               /\ k.sendQ = Append(m.sendQ, new)

\* The result r of MBX_MailboxSendReq.
Answer(r, m, mail, coe, more) ==
  /\ r.ok <=> Room(m)
  /\ Room(m) => /\ Sent(m, r.m, mail)
                /\ r.m.u8MailboxSendReqStored = (m.u8MailboxSendReqStored \/ (coe /\ more))
  /\ ~Room(m) => r.m = [m EXCEPT !.u8MailboxSendReqStored = @ \/ coe]

LEMMA MBX_MailboxSendReqSends ==
  ASSUME NEW m \in MbType, NEW mail \in Mails, NEW coe, NEW more,
         m.running
  PROVE  Answer(MBX_MailboxSendReq(m, mail, coe, more), m, mail, coe, more)
<1> DEFINE cnt == IF m.u8MbxReadCounter = 0 THEN 1 ELSE m.u8MbxReadCounter
           new == [mail EXCEPT !.cnt = cnt]
           m1  == [m EXCEPT !.u8MbxReadCounter = NextCounter(cnt),
                            !.u8MailboxSendReqStored = @ \/ (coe /\ more)]
           r   == MBX_MailboxSendReq(m, mail, coe, more)
<1>1. cnt \in 0..Counters /\ NextCounter(cnt) \in 0..Counters
  <2>1. m.u8MbxReadCounter \in 0..Counters
    BY DEF MbType
  <2>2. cnt \in 0..Counters
    BY <2>1, SizesAssumption
  <2> QED  BY <2>2, NextCounterType
<1>2. new \in Mails /\ new.buf = mail.buf
  BY <1>1, MailFacts
<1>3. /\ m1 \in MbType /\ Same(m, m1, Aside) /\ m1.sendQ = m.sendQ /\ m1.psReadMbx = m.psReadMbx
      /\ m1.bSendMbxIsFull = m.bSendMbxIsFull
      /\ m1.u8MailboxSendReqStored = (m.u8MailboxSendReqStored \/ (coe /\ more))
  BY <1>1 DEF MbType, Same, Aside
<1>4. CASE ~m.bSendMbxIsFull
  <2>1. r = [m |-> MBX_CopyToSendMailbox(m1, new), ok |-> TRUE]
    BY <1>4 DEF MBX_MailboxSendReq
  <2> HIDE DEF new, m1, r
  <2>2. Sent(m, MBX_CopyToSendMailbox(m1, new), mail)
    BY <1>2, <1>3, <1>4 DEF Sent, MBX_CopyToSendMailbox, MbType, Same, Aside
  <2>3. MBX_CopyToSendMailbox(m1, new).u8MailboxSendReqStored = m1.u8MailboxSendReqStored
    BY <1>3 DEF MBX_CopyToSendMailbox, MbType
  <2> QED  BY <1>3, <1>4, <2>1, <2>2, <2>3 DEF Room, Answer, r
<1>5. CASE m.bSendMbxIsFull /\ ~QueueFull(m.sendQ)
  <2>1. r = [m |-> [m1 EXCEPT !.sendQ = Append(@, new)], ok |-> TRUE]
    BY <1>5 DEF MBX_MailboxSendReq
  <2> DEFINE k == [m1 EXCEPT !.sendQ = Append(@, new)]
  <2>2. Append(m.sendQ, new) \in Seq(Mails)
    BY <1>2 DEF MbType
  <2> HIDE DEF new, m1, r
  <2>3. k \in MbType /\ Same(m, k, Aside)
    BY <1>3, <2>2 DEF MbType, Same, Aside
  <2>4. k.bSendMbxIsFull /\ k.psReadMbx = m.psReadMbx /\ k.sendQ = Append(m.sendQ, new)
    BY <1>3, <1>5 DEF MbType
  <2>5. k.u8MailboxSendReqStored = m1.u8MailboxSendReqStored
    BY <1>3 DEF MbType
  <2>6. Sent(m, k, mail)
    BY <1>2, <1>5, <2>3, <2>4 DEF Sent
  <2>7. r.ok /\ r.m = k
    BY <2>1
  <2> HIDE DEF k
  <2> QED  BY <1>3, <1>5, <2>5, <2>6, <2>7 DEF Room, Answer, r
<1>6. CASE m.bSendMbxIsFull /\ QueueFull(m.sendQ)
  BY <1>6 DEF MBX_MailboxSendReq, Room, Answer
<1> QED  BY <1>4, <1>5, <1>6

\* A mail that was sent has the send mailbox or the queue as its only owner.
LEMMA SentSound ==
  ASSUME NEW m, NEW k, NEW mail \in Mails, mail.buf # 0, m.running,
         Sound(m, {mail.buf}), Sent(m, k, mail)
  PROVE  Sound(k, {}) /\ (Whole(m, {mail.buf}) => Whole(k, {}))
<1> DEFINE H == Held(m, {mail.buf})
           G == Held(k, {})
<1>1. /\ k.running = m.running /\ k.sm0 = m.sm0 /\ k.ev0 = m.ev0 /\ k.recvQ = m.recvQ
      /\ k.psRepeatMbx = m.psRepeatMbx /\ k.psStoreMbx = m.psStoreMbx
      /\ k.bReceiveMbxIsLocked = m.bReceiveMbxIsLocked /\ k.pSdoResStored = m.pSdoResStored
      /\ k.pCoeSendStored = m.pCoeSendStored /\ k.heap = m.heap /\ k.unfreed = m.unfreed
  BY DEF Sent, Same, Aside
<1>2. /\ H.repeat = G.repeat /\ H.store = G.store /\ H.sdo = G.sdo /\ H.coe = G.coe
      /\ H.recv = G.recv /\ H.flight = {mail.buf} /\ G.flight = {}
  BY <1>1 DEF Held
<1>3. m.sendQ \in Seq(Mails) /\ QDistinct(m.sendQ) /\ k.bSendMbxIsFull /\ 0 \notin QBufs(m.sendQ)
  BY DEF Sound, Shape, MbType, Sent
<1>4. /\ \E p \in {"read", "send"} : Moves(H, G, "flight", p, {mail.buf})
      /\ Shape(k)
  <2>1. CASE ~m.bSendMbxIsFull
    <3>1. k.psReadMbx.buf = mail.buf /\ k.sendQ = m.sendQ
      BY <2>1 DEF Sent
    <3>2. H.read = {} /\ G.read = {mail.buf} /\ G.send = H.send
      BY <1>3, <2>1, <3>1 DEF Held, Buf
    <3>3. Moves(H, G, "flight", "read", {mail.buf})
      BY <1>2, <3>2 DEF Moves, Places
    <3>4. Shape(k)
      BY <1>1, <1>3, <3>1 DEF Sound, Shape, SdoBusy
    <3> QED  BY <3>3, <3>4
  <2>2. CASE m.bSendMbxIsFull
    <3>1. k.psReadMbx = m.psReadMbx
      BY <2>2 DEF Sent
    <3>2. PICK new \in Mails : new.buf = mail.buf /\ k.sendQ = Append(m.sendQ, new)
      BY <2>2 DEF Sent
    <3>3. mail.buf \notin QBufs(m.sendQ)
      BY DEF Sound, Ownership, Separate, Held, Places
    <3>4. QBufs(k.sendQ) = QBufs(m.sendQ) \cup {mail.buf} /\ QDistinct(k.sendQ)
      BY <1>3, <3>2, <3>3, QueueAppend
    <3>5. H.read = G.read /\ G.send = H.send \cup {mail.buf}
      BY <1>3, <2>2, <3>1, <3>4 DEF Held
    <3>6. Moves(H, G, "flight", "send", {mail.buf})
      BY <1>2, <3>5 DEF Moves, Places
    <3>7. Shape(k)
      BY <1>1, <1>3, <2>2, <3>1, <3>4 DEF Sound, Shape, SdoBusy
    <3> QED  BY <3>6, <3>7
  <2> QED  BY <2>1, <2>2
<1>5. Separate(H) /\ {mail.buf} \subseteq H.flight
  BY <1>2 DEF Sound, Ownership
<1>6. Separate(G) /\ AllOf(G) = AllOf(H)
  <2> HIDE DEF H, G
  <2>1. PICK p \in {"read", "send"} : Moves(H, G, "flight", p, {mail.buf})
    BY <1>4
  <2>2. p \in Places /\ "flight" \in Places /\ p # "flight"
    BY DEF Places
  <2> QED  BY <1>5, <2>1, <2>2, MoveKeeps
<1> QED  BY <1>1, <1>4, <1>6 DEF Sound, Ownership, Whole, Usable, Sent

\* Nothing that Sound and Whole speak of is changed.
Owning == {"running", "sm0", "ev0", "bReceiveMbxIsLocked", "recvQ", "sendQ", "psReadMbx",
           "psRepeatMbx", "psStoreMbx", "bSendMbxIsFull", "pSdoResStored", "pCoeSendStored",
           "heap", "unfreed"}

LEMMA SameSound ==
  ASSUME NEW m, NEW k \in MbType, NEW X, Sound(m, X), Same(m, k, Owning)
  PROVE  Sound(k, X) /\ (Whole(m, X) => Whole(k, X))
<1>1. /\ k.running = m.running /\ k.sm0 = m.sm0 /\ k.ev0 = m.ev0 /\ k.recvQ = m.recvQ
      /\ k.sendQ = m.sendQ /\ k.psReadMbx = m.psReadMbx /\ k.bSendMbxIsFull = m.bSendMbxIsFull
      /\ k.psRepeatMbx = m.psRepeatMbx /\ k.psStoreMbx = m.psStoreMbx
      /\ k.bReceiveMbxIsLocked = m.bReceiveMbxIsLocked /\ k.pSdoResStored = m.pSdoResStored
      /\ k.pCoeSendStored = m.pCoeSendStored /\ k.heap = m.heap /\ k.unfreed = m.unfreed
  BY DEF Same, Owning
<1>2. Held(k, X) = Held(m, X) /\ Usable(k) = Usable(m)
  BY <1>1 DEF Held, Usable
<1>3. Shape(k)
  BY <1>1 DEF Sound, Shape, SdoBusy
<1> QED  BY <1>1, <1>2, <1>3 DEF Sound, Ownership, Whole

\* A mail that nobody keeps stays allocated, and its buffer has no owner then.
LEMMA ForgottenSound ==
  ASSUME NEW m, NEW b, Sound(m, {b})
  PROVE  Sound(m, {})
<1> DEFINE H == Held(m, {b})
           G == Held(m, {})
<1>1. Drops(H, G, "flight", {b}) /\ {b} \subseteq H.flight
  <2>1. G["flight"] = H["flight"] \ {b} /\ {b} \subseteq H.flight
    BY DEF Held
  <2>2. \A r \in Places \ {"flight"} : G[r] = H[r]
    BY DEF Held, Places
  <2> QED  BY <2>1, <2>2 DEF Drops
<1> HIDE DEF H, G
<1>2. Separate(H)
  BY DEF Sound, Ownership, H
<1>3. Separate(G) /\ AllOf(G) = AllOf(H) \ {b}
  <2>1. "flight" \in Places /\ {b} \subseteq H["flight"]
    BY <1>1 DEF Places
  <2> QED  BY <1>1, <1>2, <2>1, DropKeeps
<1> QED  BY <1>3 DEF Sound, Ownership, G, H

\* Mails in the queues.
Received(m) == Len(m.recvQ)
Queued(m)   == Len(m.sendQ)

\* How the fields change that bound the number of replies.
Grows(m, k) ==
  /\ Same(m, k, Aside) /\ k.bSendMbxIsFull
  /\ Queued(k) <= Queued(m) + 1
  /\ ~m.bSendMbxIsFull => k.sendQ = m.sendQ

LEMMA SentGrows ==
  ASSUME NEW m \in MbType, NEW k, NEW mail, Sent(m, k, mail)
  PROVE  Grows(m, k)
<1>1. m.sendQ \in Seq(Mails)
  BY DEF MbType
<1>2. Queued(m) \in Nat /\ \A new \in Mails : Len(Append(m.sendQ, new)) = Queued(m) + 1
  BY <1>1, LenProperties DEF Queued
<1>3. Queued(k) <= Queued(m) + 1
  <2>1. Queued(k) = Queued(m) \/ Queued(k) = Queued(m) + 1
    BY <1>2 DEF Sent, Queued
  <2> QED  BY <1>2, <2>1
<1> QED  BY <1>3 DEF Sent, Grows

LEMMA SendErrorSound ==
  ASSUME NEW m, NEW mail \in Mails, mail.buf # 0, m.running, Sound(m, {mail.buf})
  PROVE  LET k == SendError(m, mail)
         IN  /\ Sound(k, {}) /\ Grows(m, k)
             /\ k.u8MailboxSendReqStored = m.u8MailboxSendReqStored
             /\ Room(m) /\ Whole(m, {mail.buf}) => Whole(k, {})
<1> DEFINE err == [mail EXCEPT !.what = "err", !.left = 0]
           r   == MBX_MailboxSendReq(m, err, FALSE, FALSE)
<1>1. err \in Mails /\ err.buf = mail.buf
  BY MailFacts
<1>2. m \in MbType /\ m.u8MailboxSendReqStored \in BOOLEAN
  BY DEF Sound, MbType
<1>3. SendError(m, mail) = r.m
  BY DEF SendError
<1> HIDE DEF err
<1>4. /\ Room(m) => Sent(m, r.m, err) /\ r.m.u8MailboxSendReqStored = m.u8MailboxSendReqStored
      /\ ~Room(m) => r.m = [m EXCEPT !.u8MailboxSendReqStored = @ \/ FALSE]
  <2>1. Answer(r, m, err, FALSE, FALSE)
    BY <1>1, <1>2, MBX_MailboxSendReqSends
  <2> HIDE DEF r
  <2> QED  BY <1>2, <2>1 DEF Answer
<1> HIDE DEF r
<1>5. CASE Room(m)
  <2>1. Sound(r.m, {}) /\ (Whole(m, {mail.buf}) => Whole(r.m, {}))
    BY <1>1, <1>4, <1>5, SentSound
  <2> QED  BY <1>2, <1>3, <1>4, <1>5, <2>1, SentGrows
<1>6. CASE ~Room(m)
  <2>1. r.m = m
    BY <1>2, <1>4, <1>6 DEF MbType
  <2>2. Grows(m, m)
    <3>1. Queued(m) \in Nat
      BY <1>2, LenProperties DEF MbType, Queued
    <3> QED  BY <1>6, <3>1 DEF Grows, Same, Room
  <2> QED  BY <1>3, <1>6, <2>1, <2>2, ForgottenSound
<1> QED  BY <1>5, <1>6

\* A CoE reply was sent or, without room for it, kept.
CoeSent(k, m, mail, more) ==
  /\ Sound(k, {}) /\ k.running
  /\ Room(m) => /\ Grows(m, k)
                /\ k.u8MailboxSendReqStored = (m.u8MailboxSendReqStored \/ more)
                /\ Whole(m, {mail.buf}) => Whole(k, {})

LEMMA SendCoeSound ==
  ASSUME NEW m, NEW mail \in Mails, mail.buf # 0, m.running, Sound(m, {mail.buf}),
         NEW more
  PROVE  CoeSent(SendCoe(m, mail, more), m, mail, more)
<1> DEFINE r == MBX_MailboxSendReq(m, mail, TRUE, more)
           k == SendCoe(m, mail, more)
<1>1. m \in MbType
  BY DEF Sound
<1>2. /\ r.ok <=> Room(m)
      /\ Room(m) => /\ Sent(m, r.m, mail)
                    /\ r.m.u8MailboxSendReqStored = (m.u8MailboxSendReqStored \/ (TRUE /\ more))
      /\ ~Room(m) => r.m = [m EXCEPT !.u8MailboxSendReqStored = @ \/ TRUE]
  <2>1. Answer(r, m, mail, TRUE, more)
    BY <1>1, MBX_MailboxSendReqSends
  <2> HIDE DEF r
  <2> QED  BY <2>1 DEF Answer
<1>3. k = IF r.ok THEN r.m ELSE [r.m EXCEPT !.pCoeSendStored = mail]
  BY DEF SendCoe
<1> HIDE DEF r, k
<1>4. CASE Room(m)
  <2>1. k = r.m
    BY <1>2, <1>3, <1>4
  <2>2. Sound(k, {}) /\ (Whole(m, {mail.buf}) => Whole(k, {})) /\ Grows(m, k)
    BY <1>1, <1>2, <1>4, <2>1, SentSound, SentGrows
  <2>3. k.running
    BY <2>2 DEF Grows, Same, Aside
  <2> QED  BY <1>2, <1>4, <2>1, <2>2, <2>3 DEF CoeSent, k
<1>5. CASE ~Room(m)
  <2>1. k = [m EXCEPT !.u8MailboxSendReqStored = TRUE, !.pCoeSendStored = mail]
    BY <1>1, <1>2, <1>3, <1>5 DEF MbType
  <2>2. /\ k \in MbType /\ Same(m, k, Owning \ {"pCoeSendStored"}) /\ k.pCoeSendStored = mail
    BY <1>1, <2>1 DEF MbType, Same, Owning
  <2>3. /\ k.running = m.running /\ k.sm0 = m.sm0 /\ k.ev0 = m.ev0 /\ k.recvQ = m.recvQ
        /\ k.sendQ = m.sendQ /\ k.psReadMbx = m.psReadMbx /\ k.bSendMbxIsFull = m.bSendMbxIsFull
        /\ k.psRepeatMbx = m.psRepeatMbx /\ k.psStoreMbx = m.psStoreMbx
        /\ k.bReceiveMbxIsLocked = m.bReceiveMbxIsLocked /\ k.pSdoResStored = m.pSdoResStored
        /\ k.heap = m.heap /\ k.unfreed = m.unfreed
    BY <2>2 DEF Same, Owning
  <2>4. Shape(k)
    BY <2>2, <2>3 DEF Sound, Shape, SdoBusy, IsKept
  <2> DEFINE H == Held(m, {mail.buf})
             F == [H EXCEPT !.coe = {}]
             G == Held(k, {})
  <2>5. Drops(H, F, "coe", H.coe) /\ Separate(H)
    BY DEF Drops, Held, Places, Sound, Ownership
  <2>6. Moves(F, G, "flight", "coe", {mail.buf}) /\ F.flight = {mail.buf}
    <3>1. /\ F.coe = {} /\ F.flight = {mail.buf} /\ F.read = H.read /\ F.repeat = H.repeat
          /\ F.store = H.store /\ F.sdo = H.sdo /\ F.recv = H.recv /\ F.send = H.send
      BY DEF Held
    <3>2. /\ G.coe = {mail.buf} /\ G.flight = {} /\ G.read = H.read /\ G.repeat = H.repeat
          /\ G.store = H.store /\ G.sdo = H.sdo /\ G.recv = H.recv /\ G.send = H.send
      BY <2>2, <2>3 DEF Held, Buf
    <3> HIDE DEF H, F, G
    <3> QED  BY <3>1, <3>2 DEF Moves, Places
  <2> HIDE DEF H, F, G
  <2>7. Separate(F) /\ AllOf(F) \subseteq AllOf(H)
    BY <2>5, DropKeeps DEF Places
  <2>8. Separate(G) /\ AllOf(G) = AllOf(F)
    BY <2>6, <2>7, MoveKeeps DEF Places
  <2>9. Ownership(k, {})
    BY <2>3, <2>7, <2>8 DEF Ownership, Sound, Usable, G, H
  <2> QED  BY <1>5, <2>2, <2>3, <2>4, <2>9 DEF Sound, CoeSent, k
<1> QED  BY <1>4, <1>5
-------------------------------------------------------------------------------
(* The services.                                                             *)

Busy(m)    == IF SdoBusy(m) THEN 1 ELSE 0
Waiting(m) == Received(m) + Queued(m) + Busy(m)

\* The number of the list fragment that is sent next.
NextLeft(m) == IF m.nSdoInfoFragmentsLeft > 0 THEN m.nSdoInfoFragmentsLeft - 1 ELSE Fragments

\* The next fragment was sent.
ListGoesOn(m, k) ==
  /\ k.nSdoInfoFragmentsLeft = NextLeft(m)
  /\ k.u8MailboxSendReqStored = (m.u8MailboxSendReqStored \/ NextLeft(m) > 0)

\* A mail was served: at most one reply is sent or work begun; a list goes on.
Served(m, k) ==
  /\ Same(m, k, {"running", "recvQ", "pCoeSendStored"})
  /\ ~m.bSendMbxIsFull => k.sendQ = m.sendQ
  /\ Queued(k) <= Queued(m) + 1
  /\ Waiting(k) <= Waiting(m) + 1
  /\ \/ /\ k.nSdoInfoFragmentsLeft = m.nSdoInfoFragmentsLeft
        /\ k.u8MailboxSendReqStored = m.u8MailboxSendReqStored
     \/ ListGoesOn(m, k)

\* The result of a C function that takes a mail with buffer b from m to k.
Serves(m, k, b) ==
  /\ Sound(k, {}) /\ k.running
  /\ Room(m) => Served(m, k) /\ (Whole(m, {b}) => Whole(k, {}))

LEMMA LengthTypes ==
  ASSUME NEW m \in MbType
  PROVE  /\ Received(m) \in Nat /\ Queued(m) \in Nat /\ Busy(m) \in 0..1
         /\ Waiting(m) \in Nat /\ NextLeft(m) \in 0..Fragments
         /\ m.nSdoInfoFragmentsLeft \in 0..Fragments
<1>1. Received(m) \in Nat /\ Queued(m) \in Nat
  BY LenProperties DEF MbType, Received, Queued
<1>2. Busy(m) \in 0..1
  BY DEF Busy
<1>3. m.nSdoInfoFragmentsLeft \in 0..Fragments
  BY DEF MbType
<1>4. NextLeft(m) \in 0..Fragments
  BY <1>3, SizesAssumption DEF NextLeft
<1>5. Waiting(m) \in Nat
  BY <1>1, <1>2 DEF Waiting
<1> QED  BY <1>1, <1>2, <1>3, <1>4, <1>5

LEMMA GrowsServed ==
  ASSUME NEW m \in MbType, NEW k \in MbType, Grows(m, k),
         k.u8MailboxSendReqStored = m.u8MailboxSendReqStored
  PROVE  Served(m, k)
<1>1. /\ k.running = m.running /\ k.recvQ = m.recvQ /\ k.pCoeSendStored = m.pCoeSendStored
      /\ k.pSdoResStored = m.pSdoResStored /\ k.nSdoInfoFragmentsLeft = m.nSdoInfoFragmentsLeft
      /\ Queued(k) <= Queued(m) + 1 /\ (~m.bSendMbxIsFull => k.sendQ = m.sendQ)
  BY DEF Grows, Same, Aside
<1>2. /\ Received(m) \in Nat /\ Queued(m) \in Nat /\ Queued(k) \in Nat
      /\ Busy(m) \in 0..1 /\ Busy(k) = Busy(m) /\ Received(k) = Received(m)
  BY <1>1, LengthTypes DEF Busy, SdoBusy, Received
<1>3. Waiting(k) <= Waiting(m) + 1
  BY <1>1, <1>2 DEF Waiting
<1> QED  BY <1>1, <1>3 DEF Served, Same

LEMMA SDOS_SdoInfoIndServes ==
  ASSUME NEW m, NEW mail \in Mails, mail.buf # 0, m.running, Sound(m, {mail.buf})
  PROVE  /\ Serves(m, SDOS_SdoInfoInd(m, mail), mail.buf)
         /\ Room(m) => ListGoesOn(m, SDOS_SdoInfoInd(m, mail))
<1> DEFINE n == NextLeft(m)
           l == [m EXCEPT !.nSdoInfoFragmentsLeft = n]
           f == [mail EXCEPT !.what = "frag", !.left = n]
           k == SendCoe(l, f, n > 0)
<1>1. SDOS_SdoInfoInd(m, mail) = k
  BY DEF SDOS_SdoInfoInd, NextLeft
<1>2. m \in MbType /\ n \in 0..Fragments
  BY LengthTypes DEF Sound
<1>3. f \in Mails /\ f.buf = mail.buf
  BY <1>2, MailFacts
<1> HIDE DEF n
<1>4. /\ l \in MbType /\ Same(m, l, Owning) /\ l.nSdoInfoFragmentsLeft = n
      /\ l.u8MailboxSendReqStored = m.u8MailboxSendReqStored
  BY <1>2 DEF MbType, Same, Owning
<1>5. /\ l.running /\ l.bSendMbxIsFull = m.bSendMbxIsFull /\ l.sendQ = m.sendQ
      /\ l.recvQ = m.recvQ /\ l.pCoeSendStored = m.pCoeSendStored
      /\ l.pSdoResStored = m.pSdoResStored /\ l.running = m.running
  BY <1>4 DEF Same, Owning
<1> HIDE DEF l, f
<1>6. Sound(l, {mail.buf}) /\ (Whole(m, {mail.buf}) => Whole(l, {mail.buf}))
  BY <1>4, SameSound
<1>7. CoeSent(k, l, f, n > 0)
  BY <1>3, <1>5, <1>6, SendCoeSound
<1>8. Room(m) = Room(l)
  BY <1>5 DEF Room
<1> HIDE DEF k
<1>9. ASSUME Room(m)
      PROVE  Served(m, k) /\ ListGoesOn(m, k)
  <2>1. Grows(l, k) /\ k.u8MailboxSendReqStored = (m.u8MailboxSendReqStored \/ n > 0)
    BY <1>4, <1>7, <1>8, <1>9 DEF CoeSent
  <2>2. /\ k.running = m.running /\ k.recvQ = m.recvQ /\ k.pCoeSendStored = m.pCoeSendStored
        /\ k.pSdoResStored = m.pSdoResStored /\ k.nSdoInfoFragmentsLeft = n
        /\ Queued(k) <= Queued(m) + 1 /\ (~m.bSendMbxIsFull => k.sendQ = m.sendQ)
    BY <1>4, <1>5, <2>1 DEF Grows, Same, Aside, Queued
  <2>3. k \in MbType
    BY <1>7 DEF CoeSent, Sound
  <2>4. Waiting(k) <= Waiting(m) + 1
    <3>1. /\ Received(m) \in Nat /\ Queued(m) \in Nat /\ Queued(k) \in Nat
          /\ Busy(m) \in 0..1 /\ Busy(k) = Busy(m) /\ Received(k) = Received(m)
      BY <1>2, <2>2, <2>3, LengthTypes DEF Busy, SdoBusy, Received
    <3> QED  BY <2>2, <3>1 DEF Waiting
  <2>5. ListGoesOn(m, k)
    BY <2>1, <2>2 DEF ListGoesOn, n
  <2> QED  BY <2>2, <2>4, <2>5 DEF Served, Same
<1> QED  BY <1>1, <1>3, <1>6, <1>7, <1>8, <1>9 DEF Serves, CoeSent

LEMMA SendErrorServes ==
  ASSUME NEW m, NEW mail \in Mails, mail.buf # 0, m.running, Sound(m, {mail.buf})
  PROVE  Serves(m, SendError(m, mail), mail.buf)
<1> DEFINE k == SendError(m, mail)
<1>1. /\ Sound(k, {}) /\ Grows(m, k) /\ k.u8MailboxSendReqStored = m.u8MailboxSendReqStored
      /\ Room(m) /\ Whole(m, {mail.buf}) => Whole(k, {})
  BY SendErrorSound
<1> HIDE DEF k
<1>2. m \in MbType /\ k \in MbType /\ k.running
  BY <1>1 DEF Sound, Grows, Same, Aside
<1>3. Served(m, k)
  BY <1>1, <1>2, GrowsServed
<1> QED  BY <1>1, <1>2, <1>3 DEF Serves, k

LEMMA SendCoeServes ==
  ASSUME NEW m, NEW mail \in Mails, mail.buf # 0, m.running, Sound(m, {mail.buf})
  PROVE  Serves(m, SendCoe(m, mail, FALSE), mail.buf)
<1> DEFINE k == SendCoe(m, mail, FALSE)
<1>1. CoeSent(k, m, mail, FALSE)
  BY SendCoeSound
<1> HIDE DEF k
<1>2. m \in MbType /\ k \in MbType /\ m.u8MailboxSendReqStored \in BOOLEAN
  BY <1>1 DEF Sound, CoeSent, MbType
<1>3. Room(m) => Grows(m, k) /\ k.u8MailboxSendReqStored = m.u8MailboxSendReqStored
  BY <1>1, <1>2 DEF CoeSent
<1>4. Room(m) => Served(m, k)
  BY <1>2, <1>3, GrowsServed
<1> QED  BY <1>1, <1>4 DEF Serves, CoeSent, k

LEMMA WorkServes ==
  ASSUME NEW m, NEW mail \in Mails, mail.buf # 0, m.running, Sound(m, {mail.buf}), ~SdoBusy(m)
  PROVE  Serves(m, [m EXCEPT !.pSdoResStored = mail], mail.buf)
<1> DEFINE k == [m EXCEPT !.pSdoResStored = mail]
           H == Held(m, {mail.buf})
           G == Held(k, {})
<1>1. m \in MbType
  BY DEF Sound
<1>2. k \in MbType /\ Same(m, k, (Owning \cup Aside) \ {"pSdoResStored"})
      /\ k.u8MailboxSendReqStored = m.u8MailboxSendReqStored
  BY <1>1 DEF MbType, Same, Owning, Aside
<1>3. /\ k.running = m.running /\ k.sm0 = m.sm0 /\ k.ev0 = m.ev0 /\ k.recvQ = m.recvQ
      /\ k.sendQ = m.sendQ /\ k.psReadMbx = m.psReadMbx /\ k.bSendMbxIsFull = m.bSendMbxIsFull
      /\ k.psRepeatMbx = m.psRepeatMbx /\ k.psStoreMbx = m.psStoreMbx
      /\ k.bReceiveMbxIsLocked = m.bReceiveMbxIsLocked
      /\ k.pCoeSendStored = m.pCoeSendStored /\ k.heap = m.heap /\ k.unfreed = m.unfreed
      /\ k.nSdoInfoFragmentsLeft = m.nSdoInfoFragmentsLeft
  BY <1>2 DEF Same, Owning, Aside
<1>4. k.pSdoResStored = mail
  BY <1>1 DEF MbType
<1>5. Shape(k)
  BY <1>3, <1>4 DEF Sound, Shape, SdoBusy, IsKept
<1>6. Moves(H, G, "flight", "sdo", {mail.buf}) /\ {mail.buf} \subseteq H.flight
  <2>1. /\ H.sdo = {} /\ H.flight = {mail.buf}
    BY MailFacts DEF Held, SdoBusy, Buf
  <2>2. /\ G.sdo = {mail.buf} /\ G.flight = {} /\ G.read = H.read /\ G.repeat = H.repeat
        /\ G.store = H.store /\ G.coe = H.coe /\ G.recv = H.recv /\ G.send = H.send
    BY <1>3, <1>4 DEF Held, Buf
  <2> HIDE DEF H, G
  <2> QED  BY <2>1, <2>2 DEF Moves, Places
<1> HIDE DEF H, G
<1>7. Separate(G) /\ AllOf(G) = AllOf(H)
  <2>1. Separate(H)
    BY DEF Sound, Ownership, H
  <2> QED  BY <1>6, <2>1, MoveKeeps DEF Places
<1>8. Sound(k, {}) /\ (Whole(m, {mail.buf}) => Whole(k, {}))
  BY <1>2, <1>3, <1>5, <1>7 DEF Sound, Ownership, Whole, Usable, G, H
<1>9. Served(m, k)
  <2>1. /\ Received(k) = Received(m) /\ Queued(k) = Queued(m)
        /\ Busy(m) = 0 /\ Busy(k) \in 0..1
    BY <1>3 DEF Busy, Received, Queued
  <2>2. Received(m) \in Nat /\ Queued(m) \in Nat
    BY <1>1, LengthTypes
  <2>3. Waiting(k) <= Waiting(m) + 1 /\ Queued(k) <= Queued(m) + 1
    BY <2>1, <2>2 DEF Waiting
  <2> QED  BY <1>2, <1>3, <2>3 DEF Served, Same
<1> QED  BY <1>3, <1>8, <1>9 DEF Serves

\* A FoE mail is neither answered nor freed.
LEMMA UnfreedServes ==
  ASSUME NEW m, NEW mail \in Mails, mail.buf # 0, m.running, Sound(m, {mail.buf})
  PROVE  Serves(m, [m EXCEPT !.unfreed = @ \cup {mail.buf}], mail.buf)
<1> DEFINE k == [m EXCEPT !.unfreed = @ \cup {mail.buf}]
           H == Held(m, {mail.buf})
           G == Held(k, {})
<1>1. m \in MbType
  BY DEF Sound
<1>2. mail.buf \in 1..Pool
  BY DEF Mails
<1>3. k.unfreed = m.unfreed \cup {mail.buf} /\ k.u8MailboxSendReqStored = m.u8MailboxSendReqStored
      /\ k \in MbType /\ Same(m, k, (Owning \cup Aside) \ {"unfreed"})
  BY <1>1, <1>2 DEF MbType, Same, Owning, Aside
<1>4. /\ k.running = m.running /\ k.sm0 = m.sm0 /\ k.ev0 = m.ev0 /\ k.recvQ = m.recvQ
      /\ k.sendQ = m.sendQ /\ k.psReadMbx = m.psReadMbx /\ k.bSendMbxIsFull = m.bSendMbxIsFull
      /\ k.psRepeatMbx = m.psRepeatMbx /\ k.psStoreMbx = m.psStoreMbx
      /\ k.bReceiveMbxIsLocked = m.bReceiveMbxIsLocked /\ k.pSdoResStored = m.pSdoResStored
      /\ k.pCoeSendStored = m.pCoeSendStored /\ k.heap = m.heap
      /\ k.nSdoInfoFragmentsLeft = m.nSdoInfoFragmentsLeft
  BY <1>3 DEF Same, Owning, Aside
<1>5. Shape(k)
  BY <1>4 DEF Sound, Shape, SdoBusy
<1>6. Drops(H, G, "flight", {mail.buf}) /\ {mail.buf} \subseteq H.flight
  BY <1>4 DEF Held, Drops, Places
<1> HIDE DEF H, G
<1>7. Separate(G) /\ AllOf(G) = AllOf(H) \ {mail.buf}
  <2>1. Separate(H)
    BY DEF Sound, Ownership, H
  <2> QED  BY <1>6, <2>1, DropKeeps DEF Places
<1>8. mail.buf \in Usable(m)
  BY <1>6 DEF Sound, Ownership, AllOf, Places, H
<1>9. Sound(k, {}) /\ (Whole(m, {mail.buf}) => Whole(k, {}))
  BY <1>3, <1>4, <1>5, <1>7, <1>8 DEF Sound, Ownership, Whole, Usable, G, H
<1>10. Served(m, k)
  <2>1. /\ Received(k) = Received(m) /\ Queued(k) = Queued(m) /\ Busy(k) = Busy(m)
    BY <1>4 DEF Busy, SdoBusy, Received, Queued
  <2>2. Received(m) \in Nat /\ Queued(m) \in Nat /\ Busy(m) \in 0..1
    BY <1>1, LengthTypes
  <2>3. Waiting(k) <= Waiting(m) + 1 /\ Queued(k) <= Queued(m) + 1
    BY <2>1, <2>2 DEF Waiting
  <2> QED  BY <1>3, <1>4, <2>3 DEF Served, Same
<1> QED  BY <1>4, <1>9, <1>10 DEF Serves

LEMMA MailboxServiceIndServes ==
  ASSUME NEW m, NEW mail \in Mails, mail.buf # 0, m.running, Sound(m, {mail.buf})
  PROVE  Serves(m, MailboxServiceInd(m, mail), mail.buf)
<1> DEFINE k == MailboxServiceInd(m, mail)
<1>1. \/ k = SendError(m, mail)
      \/ k = SendCoe(m, mail, FALSE)
      \/ k = [m EXCEPT !.pSdoResStored = mail] /\ ~SdoBusy(m)
      \/ k = SDOS_SdoInfoInd(m, mail)
      \/ k = [m EXCEPT !.unfreed = @ \cup {mail.buf}]
  BY DEF MailboxServiceInd
<1>2. /\ Serves(m, SendError(m, mail), mail.buf)
      /\ Serves(m, SendCoe(m, mail, FALSE), mail.buf)
      /\ ~SdoBusy(m) => Serves(m, [m EXCEPT !.pSdoResStored = mail], mail.buf)
  BY SendErrorServes, SendCoeServes, WorkServes
<1>3. /\ Serves(m, SDOS_SdoInfoInd(m, mail), mail.buf)
      /\ Serves(m, [m EXCEPT !.unfreed = @ \cup {mail.buf}], mail.buf)
  BY SDOS_SdoInfoIndServes, UnfreedServes
<1> HIDE DEF k
<1>4. Serves(m, k, mail.buf)
  BY <1>1, <1>2, <1>3
<1> QED  BY <1>4 DEF k
-------------------------------------------------------------------------------
(* Receiving.                                                                *)

\* The first mail of the receive queue is in the hands of MBX_Main.
LEMMA PopSound ==
  ASSUME NEW m, Sound(m, {}), m.recvQ # <<>>
  PROVE  LET mail == Head(m.recvQ)
             k    == [m EXCEPT !.recvQ = Tail(@)]
         IN  /\ mail \in Mails /\ mail.buf # 0 /\ m.running /\ k.running
             /\ Sound(k, {mail.buf}) /\ (Whole(m, {}) => Whole(k, {mail.buf}))
             /\ Received(k) = Received(m) - 1 /\ Queued(k) = Queued(m) /\ Busy(k) = Busy(m)
             /\ Same(m, k, {"sendQ", "bSendMbxIsFull", "pCoeSendStored",
                            "u8MailboxSendReqStored", "nSdoInfoFragmentsLeft"})
<1> DEFINE mail == Head(m.recvQ)
           k    == [m EXCEPT !.recvQ = Tail(@)]
           H    == Held(m, {})
           G    == Held(k, {mail.buf})
<1>1. m \in MbType /\ m.recvQ \in Seq(Mails) /\ QDistinct(m.recvQ) /\ 0 \notin QBufs(m.recvQ)
  BY DEF Sound, Shape, MbType
<1>2. /\ mail \in Mails /\ Tail(m.recvQ) \in Seq(Mails) /\ Len(Tail(m.recvQ)) = Len(m.recvQ) - 1
      /\ mail.buf \in QBufs(m.recvQ) /\ QBufs(Tail(m.recvQ)) = QBufs(m.recvQ) \ {mail.buf}
      /\ QDistinct(Tail(m.recvQ))
  BY <1>1, QueueTail
<1>3. mail.buf # 0 /\ m.running
  BY <1>1, <1>2 DEF Sound, Shape
<1>4. /\ k \in MbType /\ k.recvQ = Tail(m.recvQ)
      /\ Same(m, k, (Owning \cup Aside) \ {"recvQ"})
      /\ k.u8MailboxSendReqStored = m.u8MailboxSendReqStored
  BY <1>1, <1>2 DEF MbType, Same, Owning, Aside
<1>5. /\ k.running = m.running /\ k.sm0 = m.sm0 /\ k.ev0 = m.ev0
      /\ k.sendQ = m.sendQ /\ k.psReadMbx = m.psReadMbx /\ k.bSendMbxIsFull = m.bSendMbxIsFull
      /\ k.psRepeatMbx = m.psRepeatMbx /\ k.psStoreMbx = m.psStoreMbx
      /\ k.bReceiveMbxIsLocked = m.bReceiveMbxIsLocked /\ k.pSdoResStored = m.pSdoResStored
      /\ k.pCoeSendStored = m.pCoeSendStored /\ k.heap = m.heap /\ k.unfreed = m.unfreed
      /\ k.nSdoInfoFragmentsLeft = m.nSdoInfoFragmentsLeft
  BY <1>4 DEF Same, Owning, Aside
<1> HIDE DEF mail, k
<1>6. Shape(k)
  BY <1>1, <1>2, <1>3, <1>4, <1>5 DEF Sound, Shape, SdoBusy
<1>7. Moves(H, G, "recv", "flight", {mail.buf}) /\ {mail.buf} \subseteq H.recv
  <2>1. H.recv = QBufs(m.recvQ) /\ H.flight = {}
    BY DEF Held
  <2>2. /\ G.recv = QBufs(m.recvQ) \ {mail.buf} /\ G.flight = {mail.buf} /\ G.read = H.read
        /\ G.repeat = H.repeat /\ G.store = H.store /\ G.sdo = H.sdo /\ G.coe = H.coe
        /\ G.send = H.send
    BY <1>2, <1>4, <1>5 DEF Held
  <2> HIDE DEF H, G
  <2> QED  BY <1>2, <2>1, <2>2 DEF Moves, Places
<1> HIDE DEF H, G
<1>8. Separate(G) /\ AllOf(G) = AllOf(H)
  <2>1. Separate(H)
    BY DEF Sound, Ownership, H
  <2> QED  BY <1>7, <2>1, MoveKeeps DEF Places
<1>9. Sound(k, {mail.buf}) /\ (Whole(m, {}) => Whole(k, {mail.buf}))
  BY <1>4, <1>5, <1>6, <1>8 DEF Sound, Ownership, Whole, Usable, G, H
<1>10. Received(k) = Received(m) - 1 /\ Queued(k) = Queued(m) /\ Busy(k) = Busy(m)
  BY <1>2, <1>4, <1>5 DEF Received, Queued, Busy, SdoBusy
<1> QED  BY <1>2, <1>3, <1>4, <1>5, <1>9, <1>10 DEF Same, mail, k

\* A mail with buffer b arrived while the send mailbox was empty.
Arrived(m, k, b) ==
  /\ Sound(k, {}) /\ (Whole(m, {b}) => Whole(k, {}))
  /\ Same(m, k, {"running", "pCoeSendStored", "nSdoInfoFragmentsLeft", "pSdoResStored",
                 "sendQ", "u8MailboxSendReqStored"})
  /\ k.recvQ = m.recvQ \/ (Received(k) = Received(m) + 1 /\ ~k.bSendMbxIsFull)

LEMMA SendErrorArrived ==
  ASSUME NEW m, NEW mail \in Mails, mail.buf # 0, m.running, Sound(m, {mail.buf}),
         ~m.bSendMbxIsFull
  PROVE  Arrived(m, SendError(m, mail), mail.buf)
<1> DEFINE k == SendError(m, mail)
<1>1. /\ Sound(k, {}) /\ Grows(m, k) /\ k.u8MailboxSendReqStored = m.u8MailboxSendReqStored
      /\ Room(m) /\ Whole(m, {mail.buf}) => Whole(k, {})
  BY SendErrorSound
<1> HIDE DEF k
<1>2. Room(m)
  BY DEF Room
<1> QED  BY <1>1, <1>2 DEF Arrived, Grows, Same, Aside, k

\* A repetition is freed.
LEMMA FreeArrived ==
  ASSUME NEW m, NEW mail \in Mails, mail.buf # 0, Sound(m, {mail.buf})
  PROVE  Arrived(m, Free(m, mail), mail.buf)
<1> DEFINE k == Free(m, mail)
           H == Held(m, {mail.buf})
           G == Held(k, {})
<1>1. m \in MbType
  BY DEF Sound
<1>2. k.heap = m.heap \ {mail.buf} /\ k.u8MailboxSendReqStored = m.u8MailboxSendReqStored
      /\ k \in MbType /\ Same(m, k, (Owning \cup Aside) \ {"heap"})
  BY <1>1 DEF MbType, Same, Owning, Aside, Free
<1>3. /\ k.running = m.running /\ k.sm0 = m.sm0 /\ k.ev0 = m.ev0 /\ k.recvQ = m.recvQ
      /\ k.sendQ = m.sendQ /\ k.psReadMbx = m.psReadMbx /\ k.bSendMbxIsFull = m.bSendMbxIsFull
      /\ k.psRepeatMbx = m.psRepeatMbx /\ k.psStoreMbx = m.psStoreMbx
      /\ k.bReceiveMbxIsLocked = m.bReceiveMbxIsLocked /\ k.pSdoResStored = m.pSdoResStored
      /\ k.pCoeSendStored = m.pCoeSendStored /\ k.unfreed = m.unfreed
      /\ k.nSdoInfoFragmentsLeft = m.nSdoInfoFragmentsLeft
  BY <1>2 DEF Same, Owning, Aside
<1>4. Shape(k)
  BY <1>3 DEF Sound, Shape, SdoBusy
<1>5. Drops(H, G, "flight", {mail.buf}) /\ {mail.buf} \subseteq H.flight
  BY <1>3 DEF Held, Drops, Places
<1> HIDE DEF H, G
<1>6. Separate(G) /\ AllOf(G) = AllOf(H) \ {mail.buf}
  <2>1. Separate(H)
    BY DEF Sound, Ownership, H
  <2>2. "flight" \in Places /\ {mail.buf} \subseteq H["flight"]
    BY <1>5 DEF Places
  <2> QED  BY <1>5, <2>1, <2>2, DropKeeps
<1>7. mail.buf \in Usable(m)
  BY <1>5 DEF Sound, Ownership, AllOf, Places, H
<1>8. Sound(k, {}) /\ (Whole(m, {mail.buf}) => Whole(k, {}))
  BY <1>2, <1>3, <1>4, <1>6, <1>7 DEF Sound, Ownership, Whole, Usable, G, H
<1> QED  BY <1>2, <1>3, <1>8 DEF Arrived, Same

\* A new request waits in the receive queue.
LEMMA AppendArrived ==
  ASSUME NEW m, NEW mail \in Mails, mail.buf # 0, m.running, Sound(m, {mail.buf}),
         ~m.bSendMbxIsFull
  PROVE  Arrived(m, [m EXCEPT !.recvQ = Append(@, mail)], mail.buf)
<1> DEFINE k == [m EXCEPT !.recvQ = Append(@, mail)]
           H == Held(m, {mail.buf})
           G == Held(k, {})
<1>1. m \in MbType /\ m.recvQ \in Seq(Mails) /\ QDistinct(m.recvQ) /\ 0 \notin QBufs(m.recvQ)
  BY DEF Sound, Shape, MbType
<1>2. mail.buf \notin QBufs(m.recvQ)
  BY DEF Sound, Ownership, Separate, Held, Places
<1>3. /\ Append(m.recvQ, mail) \in Seq(Mails) /\ Len(Append(m.recvQ, mail)) = Len(m.recvQ) + 1
      /\ QBufs(Append(m.recvQ, mail)) = QBufs(m.recvQ) \cup {mail.buf}
      /\ QDistinct(Append(m.recvQ, mail))
  BY <1>1, <1>2, QueueAppend
<1>4. /\ k.recvQ = Append(m.recvQ, mail) /\ k.u8MailboxSendReqStored = m.u8MailboxSendReqStored
      /\ k \in MbType /\ Same(m, k, (Owning \cup Aside) \ {"recvQ"})
  BY <1>1, <1>3 DEF MbType, Same, Owning, Aside
<1>5. /\ k.running = m.running /\ k.sm0 = m.sm0 /\ k.ev0 = m.ev0
      /\ k.sendQ = m.sendQ /\ k.psReadMbx = m.psReadMbx /\ k.bSendMbxIsFull = m.bSendMbxIsFull
      /\ k.psRepeatMbx = m.psRepeatMbx /\ k.psStoreMbx = m.psStoreMbx
      /\ k.bReceiveMbxIsLocked = m.bReceiveMbxIsLocked /\ k.pSdoResStored = m.pSdoResStored
      /\ k.pCoeSendStored = m.pCoeSendStored /\ k.heap = m.heap /\ k.unfreed = m.unfreed
      /\ k.nSdoInfoFragmentsLeft = m.nSdoInfoFragmentsLeft
  BY <1>4 DEF Same, Owning, Aside
<1> HIDE DEF k
<1>6. Shape(k)
  BY <1>1, <1>3, <1>4, <1>5 DEF Sound, Shape, SdoBusy
<1>7. Moves(H, G, "flight", "recv", {mail.buf}) /\ {mail.buf} \subseteq H.flight
  <2>1. H.recv = QBufs(m.recvQ) /\ H.flight = {mail.buf}
    BY DEF Held
  <2>2. /\ G.recv = QBufs(m.recvQ) \cup {mail.buf} /\ G.flight = {} /\ G.read = H.read
        /\ G.repeat = H.repeat /\ G.store = H.store /\ G.sdo = H.sdo /\ G.coe = H.coe
        /\ G.send = H.send
    BY <1>3, <1>4, <1>5 DEF Held
  <2> HIDE DEF H, G
  <2> QED  BY <2>1, <2>2 DEF Moves, Places
<1> HIDE DEF H, G
<1>8. Separate(G) /\ AllOf(G) = AllOf(H)
  <2>1. Separate(H)
    BY DEF Sound, Ownership, H
  <2> QED  BY <1>7, <2>1, MoveKeeps DEF Places
<1>9. Sound(k, {}) /\ (Whole(m, {mail.buf}) => Whole(k, {}))
  BY <1>4, <1>5, <1>6, <1>8 DEF Sound, Ownership, Whole, Usable, G, H
<1>10. Received(k) = Received(m) + 1
  BY <1>3, <1>4 DEF Received
<1> QED  BY <1>4, <1>5, <1>9, <1>10 DEF Arrived, Same, k

LEMMA MBX_MailboxWriteIndArrived ==
  ASSUME NEW m, NEW mail \in Mails, mail.buf # 0, m.running, Sound(m, {mail.buf}),
         ~m.bSendMbxIsFull
  PROVE  Arrived(m, MBX_MailboxWriteInd(m, mail), mail.buf)
<1> DEFINE k == MBX_MailboxWriteInd(m, mail)
           l == [m EXCEPT !.u8MbxWriteCounter = mail.cnt]
<1>1. m \in MbType /\ mail.cnt \in 0..Counters
  BY DEF Sound, Mails
<1>2. l \in MbType /\ Same(m, l, (Owning \cup Aside) \ {"u8MbxWriteCounter"})
      /\ l.u8MailboxSendReqStored = m.u8MailboxSendReqStored
  BY <1>1 DEF MbType, Same, Owning, Aside
<1>3. \/ k = SendError(m, mail)
      \/ k = Free(m, mail)
      \/ k = SendError(l, mail)
      \/ k = [l EXCEPT !.recvQ = Append(@, mail)]
  BY DEF MBX_MailboxWriteInd
<1> HIDE DEF k, l
<1>4. /\ l.running = m.running /\ l.bSendMbxIsFull = m.bSendMbxIsFull /\ l.sendQ = m.sendQ
      /\ l.recvQ = m.recvQ /\ l.pSdoResStored = m.pSdoResStored
      /\ l.pCoeSendStored = m.pCoeSendStored
      /\ l.nSdoInfoFragmentsLeft = m.nSdoInfoFragmentsLeft /\ Received(l) = Received(m)
  BY <1>2 DEF Same, Owning, Aside, Received
<1>5. Sound(l, {mail.buf}) /\ (Whole(m, {mail.buf}) => Whole(l, {mail.buf}))
  <2>1. Same(m, l, Owning)
    BY <1>2 DEF Same, Owning, Aside
  <2> QED  BY <1>2, <2>1, SameSound
<1>6. /\ Arrived(m, SendError(m, mail), mail.buf) /\ Arrived(m, Free(m, mail), mail.buf)
      /\ Arrived(l, SendError(l, mail), mail.buf)
  BY <1>4, <1>5, SendErrorArrived, FreeArrived
<1>7. Arrived(l, [l EXCEPT !.recvQ = Append(@, mail)], mail.buf)
  BY <1>4, <1>5, AppendArrived
<1>8. ASSUME NEW n, Arrived(l, n, mail.buf)
      PROVE  Arrived(m, n, mail.buf)
  BY <1>2, <1>4, <1>5, <1>8 DEF Arrived, Same
<1>9. Arrived(m, k, mail.buf)
  BY <1>3, <1>6, <1>7, <1>8
<1> QED  BY <1>9 DEF k

LEMMA NewBufferIsFree ==
  ASSUME NEW m \in MbType, m.heap # 1..Pool
  PROVE  NewBuffer(m) \in 1..Pool /\ NewBuffer(m) \notin m.heap
<1>1. \E b \in 1..Pool : b \notin m.heap
  BY DEF MbType
<1> QED  BY <1>1 DEF NewBuffer

\* The buffer of a new mail belongs to nobody else.
LEMMA AllocSound ==
  ASSUME NEW m, NEW k \in MbType, NEW b \in 1..Pool, Sound(m, {}), b \notin m.heap,
         k.heap = m.heap \cup {b}, Same(m, k, Owning \ {"heap", "sm0", "ev0", "bReceiveMbxIsLocked"}),
         k.bReceiveMbxIsLocked \/ k.ev0 => k.running /\ k.sm0 # NoMail
  PROVE  Sound(k, {b}) /\ (Whole(m, {}) => Whole(k, {b}))
<1> DEFINE H == Held(m, {})
           G == Held(k, {b})
<1>1. /\ k.running = m.running /\ k.recvQ = m.recvQ
      /\ k.sendQ = m.sendQ /\ k.psReadMbx = m.psReadMbx /\ k.bSendMbxIsFull = m.bSendMbxIsFull
      /\ k.psRepeatMbx = m.psRepeatMbx /\ k.psStoreMbx = m.psStoreMbx
      /\ k.pSdoResStored = m.pSdoResStored
      /\ k.pCoeSendStored = m.pCoeSendStored /\ k.unfreed = m.unfreed
  BY DEF Same, Owning
<1>2. Shape(k)
  BY <1>1 DEF Sound, Shape, SdoBusy
<1>3. Gains(H, G, "flight", {b})
  BY <1>1 DEF Held, Places, Gains
<1> HIDE DEF H, G
<1>4. Separate(H) /\ {b} \cap AllOf(H) = {} /\ m.unfreed \subseteq m.heap
  BY DEF Sound, Ownership, Usable, H
<1>5. Separate(G) /\ AllOf(G) = AllOf(H) \cup {b}
  <2>1. "flight" \in Places
    BY DEF Places
  <2> QED  BY <1>3, <1>4, <2>1, GainKeeps
<1>6. Usable(k) = Usable(m) \cup {b}
  BY <1>1, <1>4 DEF Usable
<1> QED  BY <1>1, <1>2, <1>4, <1>5, <1>6 DEF Sound, Ownership, Whole, G, H

\* The request was copied or, with no place or memory for it, is still there.
Copied(m, k) ==
  /\ Sound(k, {}) /\ (Whole(m, {}) => Whole(k, {}))
  /\ Same(m, k, {"running", "pCoeSendStored", "nSdoInfoFragmentsLeft", "pSdoResStored",
                 "sendQ", "u8MailboxSendReqStored"})
  /\ \/ k.recvQ = m.recvQ
     \/ /\ Received(k) = Received(m) + 1 /\ ~k.bSendMbxIsFull /\ ~ReceiveBlocked(m)

LEMMA MBX_CheckAndCopyMailboxCopied ==
  ASSUME NEW m, NEW ok \in BOOLEAN, Sound(m, {}), m.bReceiveMbxIsLocked \/ m.ev0,
         ok => ReceiveBlocked(m) \/ m.heap # 1..Pool
  PROVE  Copied(m, MBX_CheckAndCopyMailbox(m, ok))
<1> DEFINE b    == NewBuffer(m)
           l    == Take(m, b)
           mail == [m.sm0 EXCEPT !.buf = b]
           k    == MBX_CheckAndCopyMailbox(m, ok)
<1>1. m \in MbType /\ m.running /\ m.sm0 # NoMail /\ m.sm0 \in Mails
  BY DEF Sound, Shape, MbType
<1>2. CASE ReceiveBlocked(m) \/ ~ok
  <2>1. k = Refuse(m)
    BY <1>2 DEF MBX_CheckAndCopyMailbox
  <2> DEFINE n == Refuse(m)
  <2>2. /\ n \in MbType /\ Same(m, n, (Owning \cup Aside) \ {"ev0", "bReceiveMbxIsLocked"})
        /\ n.u8MailboxSendReqStored = m.u8MailboxSendReqStored
    BY <1>1 DEF Refuse, MbType, Same, Owning, Aside
  <2> HIDE DEF n
  <2>3. /\ n.running = m.running /\ n.sm0 = m.sm0 /\ n.recvQ = m.recvQ
        /\ n.sendQ = m.sendQ /\ n.psReadMbx = m.psReadMbx /\ n.bSendMbxIsFull = m.bSendMbxIsFull
        /\ n.psRepeatMbx = m.psRepeatMbx /\ n.psStoreMbx = m.psStoreMbx
        /\ n.pSdoResStored = m.pSdoResStored /\ n.heap = m.heap
        /\ n.pCoeSendStored = m.pCoeSendStored /\ n.unfreed = m.unfreed
        /\ n.nSdoInfoFragmentsLeft = m.nSdoInfoFragmentsLeft
    BY <2>2 DEF Same, Owning, Aside
  <2>4. Shape(n)
    BY <1>1, <2>3 DEF Sound, Shape, SdoBusy
  <2>5. Held(n, {}) = Held(m, {}) /\ Usable(n) = Usable(m)
    BY <2>3 DEF Held, Usable
  <2>6. Sound(n, {}) /\ (Whole(m, {}) => Whole(n, {}))
    BY <2>2, <2>3, <2>4, <2>5 DEF Sound, Ownership, Whole
  <2> QED  BY <2>1, <2>2, <2>3, <2>6 DEF Copied, Same, n
<1>3. CASE ~ReceiveBlocked(m) /\ ok
  <2>1. k = MBX_MailboxWriteInd(l, mail)
    BY <1>3 DEF MBX_CheckAndCopyMailbox
  <2>2. b \in 1..Pool /\ b \notin m.heap
    BY <1>1, <1>3, NewBufferIsFree
  <2> HIDE DEF b
  <2>3. mail \in Mails /\ mail.buf = b /\ mail.buf # 0 /\ NoMail \in Mails
    <3>1. b \in 0..Pool /\ b # 0
      BY <2>2
    <3> QED  BY <1>1, <3>1, MailFacts
  <2>4. /\ l \in MbType /\ l.heap = m.heap \cup {b} /\ ~l.bReceiveMbxIsLocked /\ ~l.ev0
        /\ l.u8MailboxSendReqStored = m.u8MailboxSendReqStored
        /\ Same(m, l, (Owning \cup Aside) \ {"heap", "sm0", "ev0", "bReceiveMbxIsLocked"})
    BY <1>1, <2>2, <2>3 DEF Take, MbType, Same, Owning, Aside
  <2>5. /\ Same(m, l, Owning \ {"heap", "sm0", "ev0", "bReceiveMbxIsLocked"})
        /\ l.running = m.running /\ l.bSendMbxIsFull = m.bSendMbxIsFull /\ l.sendQ = m.sendQ
        /\ l.recvQ = m.recvQ /\ l.pSdoResStored = m.pSdoResStored
        /\ l.pCoeSendStored = m.pCoeSendStored
        /\ l.nSdoInfoFragmentsLeft = m.nSdoInfoFragmentsLeft /\ Received(l) = Received(m)
    BY <2>4 DEF Same, Owning, Aside, Received
  <2> HIDE DEF l, mail, k
  <2>6. Sound(l, {b}) /\ (Whole(m, {}) => Whole(l, {b}))
    BY <2>2, <2>4, <2>5, AllocSound
  <2>7. ~l.bSendMbxIsFull /\ l.running
    BY <1>1, <1>3, <2>5 DEF ReceiveBlocked
  <2>8. Arrived(l, k, mail.buf)
    BY <2>1, <2>3, <2>6, <2>7, MBX_MailboxWriteIndArrived
  <2>9. Copied(m, k)
    BY <1>3, <2>3, <2>4, <2>5, <2>6, <2>8 DEF Arrived, Copied, Same
  <2> QED  BY <2>9 DEF k
<1> QED  BY <1>2, <1>3
-------------------------------------------------------------------------------
(* A reply was read, or is asked for again.                                   *)

\* Everything in H that p has moves to q.
MovesAll(H, G, p, q) == Moves(H, G, p, q, H[p])

LEMMA MoveAllKeeps ==
  ASSUME NEW H, NEW G, NEW p \in Places, NEW q \in Places, p # q,
         Separate(H), MovesAll(H, G, p, q)
  PROVE  Separate(G) /\ AllOf(G) = AllOf(H)
BY MoveKeeps DEF MovesAll

\* What reading and repeating leave alone.
Behind == {"running", "sm0", "ev0", "recvQ", "bReceiveMbxIsLocked", "u8MailboxSendReqStored",
           "pSdoResStored", "pCoeSendStored", "nSdoInfoFragmentsLeft", "unfreed"}

LEMMA BehindFields ==
  ASSUME NEW m, NEW k, Same(m, k, Behind)
  PROVE  /\ k.running = m.running /\ k.sm0 = m.sm0 /\ k.ev0 = m.ev0 /\ k.recvQ = m.recvQ
         /\ k.bReceiveMbxIsLocked = m.bReceiveMbxIsLocked
         /\ k.u8MailboxSendReqStored = m.u8MailboxSendReqStored
         /\ k.pSdoResStored = m.pSdoResStored /\ k.pCoeSendStored = m.pCoeSendStored
         /\ k.nSdoInfoFragmentsLeft = m.nSdoInfoFragmentsLeft /\ k.unfreed = m.unfreed
         /\ Received(k) = Received(m) /\ Busy(k) = Busy(m)
BY DEF Same, Behind, Received, Busy, SdoBusy

LEMMA MBX_CopyToSendMailboxFills ==
  ASSUME NEW m \in MbType, NEW mail \in Mails
  PROVE  LET k == MBX_CopyToSendMailbox(m, mail)
         IN  /\ k \in MbType /\ Same(m, k, Behind) /\ k.heap = m.heap /\ k.bSendMbxIsFull
             /\ k.psRepeatMbx = m.psRepeatMbx /\ k.psStoreMbx = m.psStoreMbx
             /\ k.psReadMbx = mail /\ k.sendQ = m.sendQ
BY DEF MBX_CopyToSendMailbox, MbType, Same, Behind

\* The record after the reply was read: the one before it is given back, the
\* next one, if any, is in the send mailbox.
Turned(m, k) ==
  /\ k \in MbType /\ Same(m, k, Behind)
  /\ k.heap = m.heap \ Buf(m.psRepeatMbx)
  /\ k.psRepeatMbx = m.psReadMbx /\ k.psStoreMbx = NoMail
  /\ \/ /\ m.psStoreMbx # NoMail /\ k.bSendMbxIsFull
        /\ k.psReadMbx = m.psStoreMbx /\ k.sendQ = m.sendQ
     \/ /\ m.psStoreMbx = NoMail /\ m.sendQ # <<>> /\ k.bSendMbxIsFull
        /\ k.psReadMbx = Head(m.sendQ) /\ k.sendQ = Tail(m.sendQ)
     \/ /\ m.psStoreMbx = NoMail /\ m.sendQ = <<>> /\ ~k.bSendMbxIsFull
        /\ k.psReadMbx = m.psReadMbx /\ k.sendQ = <<>>

SentNext(m) == SendNext([ReleaseRepeat(m) EXCEPT !.bSendMbxIsFull = FALSE,
                                                 !.psRepeatMbx = m.psReadMbx])

LEMMA ReleaseRepeatFrees ==
  ASSUME NEW m, Sound(m, {}), m.bSendMbxIsFull
  PROVE  /\ ReleaseRepeat(m) = [m EXCEPT !.heap = @ \ Buf(m.psRepeatMbx)]
         /\ ReleaseRepeat(m) \in MbType
<1>1. m \in MbType /\ m.psReadMbx.buf # 0 /\ IsKept(m.psRepeatMbx) /\ m.heap \subseteq 1..Pool
  BY DEF Sound, Shape, MbType
<1>2. CASE m.psRepeatMbx = NoMail
  <2>1. Buf(m.psRepeatMbx) = {} /\ ReleaseRepeat(m) = m
    BY <1>2, MailFacts DEF Buf, ReleaseRepeat
  <2>2. m = [m EXCEPT !.heap = @ \ {}]
    BY <1>1 DEF MbType
  <2> QED  BY <1>1, <2>1, <2>2
<1>3. CASE m.psRepeatMbx # NoMail
  <2>1. m.psStoreMbx = NoMail /\ Buf(m.psRepeatMbx) = {m.psRepeatMbx.buf}
    BY <1>1, <1>3 DEF Sound, Shape, IsKept, Buf
  <2>2. m.psReadMbx # m.psRepeatMbx
    <3>1. Held(m, {}).read \cap Held(m, {}).repeat = {}
      BY DEF Sound, Ownership, Separate, Places
    <3> QED  BY <1>1, <2>1, <3>1 DEF Held, Buf
  <2>3. ReleaseRepeat(m) = [m EXCEPT !.heap = @ \ {m.psRepeatMbx.buf}]
    BY <1>3, <2>1, <2>2 DEF ReleaseRepeat, Free
  <2> QED  BY <1>1, <2>1, <2>3 DEF MbType
<1> QED  BY <1>2, <1>3

LEMMA SentNextTurned ==
  ASSUME NEW m, Sound(m, {}), m.bSendMbxIsFull
  PROVE  Turned(m, SentNext(m))
<1> DEFINE l == [ReleaseRepeat(m) EXCEPT !.bSendMbxIsFull = FALSE, !.psRepeatMbx = m.psReadMbx]
<1>1. m \in MbType /\ m.sendQ \in Seq(Mails) /\ QDistinct(m.sendQ)
  BY DEF Sound, Shape, MbType
<1>2. /\ l \in MbType /\ Same(m, l, Behind) /\ l.heap = m.heap \ Buf(m.psRepeatMbx)
      /\ ~l.bSendMbxIsFull /\ l.psRepeatMbx = m.psReadMbx /\ l.psReadMbx = m.psReadMbx
      /\ l.psStoreMbx = m.psStoreMbx /\ l.sendQ = m.sendQ
  <2>1. /\ ReleaseRepeat(m) = [m EXCEPT !.heap = @ \ Buf(m.psRepeatMbx)]
        /\ ReleaseRepeat(m) \in MbType
    BY ReleaseRepeatFrees
  <2> HIDE DEF l
  <2> QED  BY <1>1, <2>1 DEF MbType, Same, Behind, l
<1> HIDE DEF l
<1>3. SentNext(m) = SendNext(l)
  BY DEF SentNext, l
<1>4. CASE m.psStoreMbx # NoMail
  <2>1. SendNext(l) = [MBX_CopyToSendMailbox(l, m.psStoreMbx) EXCEPT !.psStoreMbx = NoMail]
    BY <1>2, <1>4 DEF SendNext
  <2> DEFINE c == MBX_CopyToSendMailbox(l, m.psStoreMbx)
             k == [c EXCEPT !.psStoreMbx = NoMail]
  <2>2. m.psStoreMbx \in Mails /\ NoMail \in Mails
    BY <1>1, MailFacts DEF MbType
  <2>3. /\ c \in MbType /\ Same(l, c, Behind) /\ c.heap = l.heap /\ c.bSendMbxIsFull
        /\ c.psRepeatMbx = l.psRepeatMbx /\ c.psReadMbx = m.psStoreMbx /\ c.sendQ = l.sendQ
    BY <1>2, <2>2, MBX_CopyToSendMailboxFills
  <2> HIDE DEF c
  <2>4. /\ k \in MbType /\ Same(c, k, Behind) /\ k.heap = c.heap /\ k.bSendMbxIsFull
        /\ k.psRepeatMbx = c.psRepeatMbx /\ k.psStoreMbx = NoMail
        /\ k.psReadMbx = c.psReadMbx /\ k.sendQ = c.sendQ
    BY <2>2, <2>3 DEF MbType, Same, Behind
  <2>5. SentNext(m) = k
    BY <1>3, <2>1 DEF c
  <2> HIDE DEF k
  <2> QED  BY <1>2, <1>4, <2>3, <2>4, <2>5 DEF Turned, Same
<1>5. CASE m.psStoreMbx = NoMail /\ m.sendQ # <<>>
  <2>1. SendNext(l) = [MBX_CopyToSendMailbox(l, Head(m.sendQ)) EXCEPT !.sendQ = Tail(@)]
    BY <1>2, <1>5 DEF SendNext
  <2> DEFINE c == MBX_CopyToSendMailbox(l, Head(m.sendQ))
             k == [c EXCEPT !.sendQ = Tail(@)]
  <2>2. Head(m.sendQ) \in Mails /\ Tail(m.sendQ) \in Seq(Mails)
    BY <1>1, <1>5, QueueTail
  <2>3. /\ c \in MbType /\ Same(l, c, Behind) /\ c.heap = l.heap /\ c.bSendMbxIsFull
        /\ c.psRepeatMbx = l.psRepeatMbx /\ c.psStoreMbx = l.psStoreMbx
        /\ c.psReadMbx = Head(m.sendQ) /\ c.sendQ = l.sendQ
    BY <1>2, <2>2, MBX_CopyToSendMailboxFills
  <2> HIDE DEF c
  <2>4. /\ k \in MbType /\ Same(c, k, Behind) /\ k.heap = c.heap /\ k.bSendMbxIsFull
        /\ k.psRepeatMbx = c.psRepeatMbx /\ k.psStoreMbx = c.psStoreMbx
        /\ k.psReadMbx = c.psReadMbx /\ k.sendQ = Tail(m.sendQ)
    BY <1>2, <2>2, <2>3 DEF MbType, Same, Behind
  <2>5. SentNext(m) = k
    BY <1>3, <2>1 DEF c
  <2> HIDE DEF k
  <2> QED  BY <1>2, <1>5, <2>3, <2>4, <2>5 DEF Turned, Same
<1>6. CASE m.psStoreMbx = NoMail /\ m.sendQ = <<>>
  <2>1. SendNext(l) = l
    BY <1>2, <1>6 DEF SendNext
  <2> QED  BY <1>2, <1>3, <1>6, <2>1 DEF Turned
<1> QED  BY <1>4, <1>5, <1>6

LEMMA TurnedShape ==
  ASSUME NEW m, NEW k, Sound(m, {}), m.bSendMbxIsFull, Turned(m, k)
  PROVE  Shape(k)
<1>1. /\ m.sendQ \in Seq(Mails) /\ QDistinct(m.sendQ) /\ 0 \notin QBufs(m.sendQ)
      /\ m.psReadMbx.buf # 0 /\ IsKept(m.psStoreMbx) /\ m.running
  BY DEF Sound, Shape, MbType
<1>2. /\ k.running = m.running /\ k.sm0 = m.sm0 /\ k.ev0 = m.ev0 /\ k.recvQ = m.recvQ
      /\ k.bReceiveMbxIsLocked = m.bReceiveMbxIsLocked
      /\ k.pSdoResStored = m.pSdoResStored /\ k.pCoeSendStored = m.pCoeSendStored
      /\ k.psRepeatMbx = m.psReadMbx /\ k.psStoreMbx = NoMail
  BY BehindFields DEF Turned
<1>3. /\ k.bSendMbxIsFull => k.psReadMbx.buf # 0
      /\ ~k.bSendMbxIsFull => k.psReadMbx = k.psRepeatMbx /\ k.sendQ = <<>>
      /\ 0 \notin QBufs(k.sendQ) /\ QDistinct(k.sendQ)
  <2>1. CASE m.psStoreMbx # NoMail
    BY <1>1, <2>1 DEF Turned, IsKept
  <2>2. CASE m.psStoreMbx = NoMail /\ m.sendQ # <<>>
    <3>1. /\ Head(m.sendQ).buf \in QBufs(m.sendQ) /\ QDistinct(Tail(m.sendQ))
          /\ QBufs(Tail(m.sendQ)) = QBufs(m.sendQ) \ {Head(m.sendQ).buf}
      BY <1>1, <2>2, QueueTail
    <3> QED  BY <1>1, <2>2, <3>1 DEF Turned
  <2>3. CASE m.psStoreMbx = NoMail /\ m.sendQ = <<>>
    BY <1>1, <1>2, <2>3, QueueOfNone DEF Turned
  <2> QED  BY <2>1, <2>2, <2>3
<1> QED  BY <1>1, <1>2, <1>3 DEF Sound, Shape, SdoBusy, IsKept

LEMMA TurnedSound ==
  ASSUME NEW m, NEW k, Sound(m, {}), m.bSendMbxIsFull, Turned(m, k)
  PROVE  Sound(k, {}) /\ (Whole(m, {}) => Whole(k, {}))
<1> DEFINE H  == Held(m, {})
           F1 == [H EXCEPT !.repeat = {}]
           F2 == [F1 EXCEPT !.repeat = H.read, !.read = {}]
           G  == Held(k, {})
<1>1. /\ m.sendQ \in Seq(Mails) /\ QDistinct(m.sendQ) /\ 0 \notin QBufs(m.sendQ)
      /\ m.psReadMbx.buf # 0 /\ m.heap \subseteq 1..Pool /\ m.unfreed \subseteq m.heap
  BY DEF Sound, Shape, MbType
<1>2. /\ k.recvQ = m.recvQ /\ k.pSdoResStored = m.pSdoResStored /\ k.unfreed = m.unfreed
      /\ k.pCoeSendStored = m.pCoeSendStored /\ k.heap = m.heap \ Buf(m.psRepeatMbx)
      /\ k.psRepeatMbx = m.psReadMbx /\ k.psStoreMbx = NoMail
  BY BehindFields DEF Turned
<1>3. /\ H.read = Buf(m.psReadMbx) /\ H.repeat = Buf(m.psRepeatMbx) /\ H.store = Buf(m.psStoreMbx)
      /\ H.send = QBufs(m.sendQ)
  BY DEF Held
<1>4. /\ F1.repeat = {} /\ F1.read = H.read /\ F1.store = H.store /\ F1.sdo = H.sdo
      /\ F1.coe = H.coe /\ F1.recv = H.recv /\ F1.send = H.send /\ F1.flight = H.flight
  BY DEF Held
<1>5. /\ F2.repeat = H.read /\ F2.read = {} /\ F2.store = H.store /\ F2.sdo = H.sdo
      /\ F2.coe = H.coe /\ F2.recv = H.recv /\ F2.send = H.send /\ F2.flight = H.flight
  BY DEF Held
<1>6. /\ G.repeat = H.read /\ G.store = {} /\ G.sdo = H.sdo /\ G.coe = H.coe /\ G.recv = H.recv
      /\ G.flight = H.flight
  BY <1>2, <1>3, MailFacts DEF Held, Buf
<1> HIDE DEF H, F1, F2, G
<1>7. Separate(H)
  BY DEF Sound, Ownership, H
<1>8. Separate(F1) /\ AllOf(F1) = AllOf(H) \ H.repeat
  <2>1. Drops(H, F1, "repeat", H.repeat)
    BY <1>4 DEF Drops, Places
  <2> QED  BY <1>7, <2>1, DropKeeps DEF Places
<1>9. Separate(F2) /\ AllOf(F2) = AllOf(F1)
  <2>1. MovesAll(F1, F2, "read", "repeat")
    BY <1>4, <1>5 DEF MovesAll, Moves, Places
  <2> QED  BY <1>8, <2>1, MoveAllKeeps DEF Places
<1>10. Separate(G) /\ AllOf(G) = AllOf(F2)
  <2>1. CASE m.psStoreMbx # NoMail
    <3>1. G.read = H.store /\ G.send = H.send
      BY <1>3, <2>1 DEF Turned, Held, G
    <3>2. MovesAll(F2, G, "store", "read")
      BY <1>5, <1>6, <3>1 DEF MovesAll, Moves, Places
    <3>3. "store" \in Places /\ "read" \in Places /\ "store" # "read"
      BY DEF Places
    <3> QED  BY <1>9, <3>2, <3>3, MoveAllKeeps
  <2>2. CASE m.psStoreMbx = NoMail /\ m.sendQ # <<>>
    <3> DEFINE b == Head(m.sendQ).buf
    <3>1. b \in QBufs(m.sendQ) /\ QBufs(Tail(m.sendQ)) = QBufs(m.sendQ) \ {b} /\ b # 0
      BY <1>1, <2>2, QueueTail
    <3>2. G.read = {b} /\ G.send = H.send \ {b} /\ H.store = {}
      <4>1. k.bSendMbxIsFull /\ k.psReadMbx.buf = b /\ k.sendQ = Tail(m.sendQ)
        BY <2>2 DEF Turned
      <4>2. G.read = Buf(k.psReadMbx) /\ G.send = QBufs(Tail(m.sendQ))
        BY <4>1 DEF Held, G
      <4>3. H.store = {}
        BY <1>3, <2>2, MailFacts DEF Buf
      <4> HIDE DEF b
      <4> QED  BY <1>3, <3>1, <4>1, <4>2, <4>3 DEF Buf
    <3>3. Moves(F2, G, "send", "read", {b}) /\ {b} \subseteq F2["send"]
      BY <1>3, <1>5, <1>6, <3>1, <3>2 DEF Moves, Places
    <3> HIDE DEF b
    <3> QED  BY <1>9, <3>3, MoveKeeps DEF Places
  <2>3. CASE m.psStoreMbx = NoMail /\ m.sendQ = <<>>
    <3>1. G.read = {} /\ G.send = {} /\ H.store = {} /\ H.send = {}
      BY <1>3, <2>3, QueueOfNone, MailFacts DEF Turned, Held, Buf, G
    <3>2. \A p \in Places : G[p] = F2[p]
      BY <1>5, <1>6, <3>1 DEF Places
    <3> QED  BY <1>9, <3>2 DEF Separate, AllOf
  <2> QED  BY <2>1, <2>2, <2>3
<1>11. H.repeat \subseteq Usable(m)
  BY DEF Sound, Ownership, AllOf, Places, H
<1>12. AllOf(H) \subseteq Usable(m) /\ Usable(k) = Usable(m) \ H.repeat /\ k.unfreed \subseteq k.heap
  <2>1. AllOf(H) \subseteq Usable(m)
    BY DEF Sound, Ownership, H
  <2> QED  BY <1>1, <1>2, <1>3, <1>11, <2>1 DEF Usable
<1>13. AllOf(G) \subseteq Usable(k) /\ (Usable(m) \subseteq AllOf(H) => Usable(k) \subseteq AllOf(G))
  BY <1>8, <1>9, <1>10, <1>12
<1>14. k \in MbType /\ Shape(k)
  BY TurnedShape DEF Turned
<1> QED  BY <1>10, <1>12, <1>13, <1>14 DEF Sound, Ownership, Whole, G, H

\* The reply that was kept is taken to be sent.
LEMMA StoredSound ==
  ASSUME NEW m, Sound(m, {}), m.pCoeSendStored # NoMail
  PROVE  LET l == [m EXCEPT !.pCoeSendStored = NoMail]
         IN  l \in MbType /\ Sound(l, {m.pCoeSendStored.buf})
<1> DEFINE l == [m EXCEPT !.pCoeSendStored = NoMail]
           b == m.pCoeSendStored.buf
           H == Held(m, {})
           G == Held(l, {b})
<1>1. m \in MbType /\ b # 0 /\ NoMail \in Mails
  BY MailFacts DEF Sound, Shape, IsKept
<1>2. /\ l \in MbType /\ l.pCoeSendStored = NoMail
      /\ Same(m, l, (Owning \cup Aside) \ {"pCoeSendStored"})
  BY <1>1 DEF MbType, Same, Owning, Aside
<1>3. /\ l.running = m.running /\ l.sm0 = m.sm0 /\ l.ev0 = m.ev0 /\ l.recvQ = m.recvQ
      /\ l.sendQ = m.sendQ /\ l.psReadMbx = m.psReadMbx /\ l.bSendMbxIsFull = m.bSendMbxIsFull
      /\ l.psRepeatMbx = m.psRepeatMbx /\ l.psStoreMbx = m.psStoreMbx
      /\ l.bReceiveMbxIsLocked = m.bReceiveMbxIsLocked
      /\ l.pSdoResStored = m.pSdoResStored /\ l.heap = m.heap /\ l.unfreed = m.unfreed
  BY <1>2 DEF Same, Owning, Aside
<1> HIDE DEF l
<1>4. Shape(l)
  BY <1>2, <1>3 DEF Sound, Shape, SdoBusy, IsKept
<1>5. Moves(H, G, "coe", "flight", {b}) /\ {b} \subseteq H["coe"]
  <2>1. H.coe = {b} /\ H.flight = {}
    BY <1>1 DEF Held, Buf
  <2>2. /\ G.coe = {} /\ G.flight = {b} /\ G.read = H.read /\ G.repeat = H.repeat
        /\ G.store = H.store /\ G.sdo = H.sdo /\ G.recv = H.recv /\ G.send = H.send
    BY <1>2, <1>3, MailFacts DEF Held, Buf
  <2> HIDE DEF H, G, b
  <2> QED  BY <2>1, <2>2 DEF Moves, Places
<1> HIDE DEF H, G
<1>6. Separate(G) /\ AllOf(G) = AllOf(H)
  <2>1. Separate(H)
    BY DEF Sound, Ownership, H
  <2> QED  BY <1>5, <2>1, MoveKeeps DEF Places
<1>7. Sound(l, {b})
  BY <1>2, <1>3, <1>4, <1>6 DEF Sound, Ownership, Usable, G, H
<1> QED  BY <1>2, <1>7 DEF l

\* What COE_ContinueInd does: the next fragment is sent, or there is no memory.
\* (Where a reply is kept nothing but Sound is said.)
Continued(m, k) ==
  /\ Sound(k, {}) /\ k.running
  /\ m.pCoeSendStored = NoMail /\ Room(m) =>
       /\ Whole(m, {}) => Whole(k, {})
       /\ \/ Served(m, k) /\ ListGoesOn(m, k)
          \/ k = [m EXCEPT !.u8MailboxSendReqStored = TRUE]

LEMMA FlagSound ==
  ASSUME NEW m, NEW f \in BOOLEAN, Sound(m, {})
  PROVE  LET k == [m EXCEPT !.u8MailboxSendReqStored = f]
         IN  /\ Sound(k, {}) /\ (Whole(m, {}) => Whole(k, {}))
             /\ k \in MbType /\ Same(m, k, (Owning \cup Aside) \ {"u8MailboxSendReqStored"})
             /\ k.u8MailboxSendReqStored = f
<1> DEFINE k == [m EXCEPT !.u8MailboxSendReqStored = f]
<1>1. m \in MbType
  BY DEF Sound
<1>2. /\ k \in MbType /\ Same(m, k, Owning) /\ k.u8MailboxSendReqStored = f
      /\ Same(m, k, (Owning \cup Aside) \ {"u8MailboxSendReqStored"})
  BY <1>1 DEF MbType, Same, Owning, Aside
<1> HIDE DEF k
<1>3. Sound(k, {}) /\ (Whole(m, {}) => Whole(k, {}))
  BY <1>2, SameSound
<1> QED  BY <1>2, <1>3 DEF k

LEMMA COE_ContinueIndContinued ==
  ASSUME NEW m, NEW ok \in BOOLEAN, Sound(m, {}), m.running,
         m.pCoeSendStored = NoMail => (ok => m.heap # 1..Pool)
  PROVE  Continued(m, COE_ContinueInd(m, ok))
<1> DEFINE k == COE_ContinueInd(m, ok)
<1>1. m \in MbType
  BY DEF Sound
<1>2. CASE m.pCoeSendStored # NoMail
  <2> DEFINE mail == m.pCoeSendStored
             r    == MBX_MailboxSendReq(m, mail, TRUE, FALSE)
             l    == [m EXCEPT !.pCoeSendStored = NoMail]
             n    == [r.m EXCEPT !.pCoeSendStored = NoMail]
  <2>1. k = IF r.ok THEN n ELSE r.m
    BY <1>2 DEF COE_ContinueInd
  <2>2. mail \in Mails /\ mail.buf # 0
    BY <1>1, <1>2 DEF Sound, Shape, IsKept, MbType
  <2>3. Answer(r, m, mail, TRUE, FALSE)
    BY <1>1, <2>2, MBX_MailboxSendReqSends
  <2>4. l \in MbType /\ Sound(l, {mail.buf})
    BY <1>2, StoredSound
  <2> HIDE DEF k
  <2>5. CASE Room(m)
    <3>1. Sent(m, r.m, mail) /\ r.ok
      BY <2>3, <2>5 DEF Answer
    <3>2. Sent(l, n, mail) /\ l.running
      <4>1. r.m \in MbType /\ NoMail \in Mails
        BY <3>1, MailFacts DEF Sent
      <4>2. /\ Same(m, l, ({"running", "bSendMbxIsFull", "psReadMbx", "sendQ"} \cup Aside)
                          \ {"pCoeSendStored"}) /\ l.pCoeSendStored = NoMail
        BY <1>1, <4>1 DEF MbType, Same, Aside
      <4> HIDE DEF r
      <4>3. /\ n \in MbType /\ n.pCoeSendStored = NoMail
            /\ Same(r.m, n, ({"bSendMbxIsFull", "psReadMbx", "sendQ"} \cup Aside)
                            \ {"pCoeSendStored"})
        BY <4>1 DEF MbType, Same, Aside
      <4> HIDE DEF n, l, mail
      <4>4. Same(l, n, Aside)
        BY <3>1, <4>2, <4>3 DEF Sent, Same, Aside
      <4>5. /\ l.bSendMbxIsFull = m.bSendMbxIsFull /\ l.psReadMbx = m.psReadMbx
            /\ l.sendQ = m.sendQ /\ l.running = m.running
        BY <4>2 DEF Same
      <4>6. /\ n.bSendMbxIsFull = r.m.bSendMbxIsFull /\ n.psReadMbx = r.m.psReadMbx
            /\ n.sendQ = r.m.sendQ
        BY <4>3 DEF Same
      <4> QED  BY <3>1, <4>3, <4>4, <4>5, <4>6 DEF Sent
    <3> HIDE DEF r, l, n, mail
    <3>3. Sound(n, {})
      BY <2>2, <2>4, <3>2, SentSound
    <3>4. n.running
      BY <3>2 DEF Sent, Same, Aside
    <3>5. Continued(m, k)
      BY <1>2, <2>1, <3>1, <3>3, <3>4 DEF Continued
    <3> QED  BY <3>5 DEF k
  <2>6. CASE ~Room(m)
    <3>1. ~r.ok /\ r.m = [m EXCEPT !.u8MailboxSendReqStored = TRUE]
      <4> HIDE DEF r, mail
      <4>1. ~r.ok /\ r.m = [m EXCEPT !.u8MailboxSendReqStored = @ \/ TRUE]
        BY <2>3, <2>6 DEF Answer
      <4> QED  BY <1>1, <4>1 DEF MbType
    <3>2. k = [m EXCEPT !.u8MailboxSendReqStored = TRUE]
      BY <2>1, <3>1
    <3> HIDE DEF r, l, n, mail
    <3>3. Sound(k, {}) /\ Same(m, k, (Owning \cup Aside) \ {"u8MailboxSendReqStored"})
      BY <3>2, FlagSound
    <3>4. Continued(m, k)
      BY <1>2, <3>3 DEF Continued, Same, Owning, Aside
    <3> QED  BY <3>4 DEF k
  <2> QED  BY <2>5, <2>6
<1>3. CASE m.pCoeSendStored = NoMail /\ ~ok
  <2>1. k = [m EXCEPT !.u8MailboxSendReqStored = TRUE]
    BY <1>3 DEF COE_ContinueInd
  <2> HIDE DEF k
  <2>2. /\ Sound(k, {}) /\ (Whole(m, {}) => Whole(k, {}))
        /\ Same(m, k, (Owning \cup Aside) \ {"u8MailboxSendReqStored"})
    BY <2>1, FlagSound
  <2>3. Continued(m, k)
    BY <2>1, <2>2 DEF Continued, Same, Owning, Aside
  <2> QED  BY <2>3 DEF k
<1>4. CASE m.pCoeSendStored = NoMail /\ ok
  <2> DEFINE b    == NewBuffer(m)
             l    == [m EXCEPT !.heap = @ \cup {b}]
             mail == [NoMail EXCEPT !.buf = b]
  <2>1. k = SDOS_SdoInfoInd(l, mail)
    BY <1>4 DEF COE_ContinueInd
  <2>2. b \in 1..Pool /\ b \notin m.heap
    BY <1>1, <1>4, NewBufferIsFree
  <2> HIDE DEF b
  <2>3. mail \in Mails /\ mail.buf = b /\ mail.buf # 0
    <3>1. b \in 0..Pool /\ b # 0
      BY <2>2
    <3> QED  BY <3>1, MailFacts
  <2>4. /\ l \in MbType /\ l.heap = m.heap \cup {b}
        /\ l.u8MailboxSendReqStored = m.u8MailboxSendReqStored
        /\ Same(m, l, (Owning \cup Aside) \ {"heap"})
    BY <1>1, <2>2 DEF MbType, Same, Owning, Aside
  <2> HIDE DEF l, mail
  <2>5. /\ l.running = m.running /\ l.bSendMbxIsFull = m.bSendMbxIsFull /\ l.sendQ = m.sendQ
        /\ l.recvQ = m.recvQ /\ l.pSdoResStored = m.pSdoResStored
        /\ l.pCoeSendStored = m.pCoeSendStored /\ l.sm0 = m.sm0 /\ l.ev0 = m.ev0
        /\ l.bReceiveMbxIsLocked = m.bReceiveMbxIsLocked
        /\ l.nSdoInfoFragmentsLeft = m.nSdoInfoFragmentsLeft /\ Received(l) = Received(m)
        /\ Queued(l) = Queued(m) /\ Busy(l) = Busy(m) /\ NextLeft(l) = NextLeft(m)
        /\ Same(m, l, Owning \ {"heap", "sm0", "ev0", "bReceiveMbxIsLocked"})
    BY <2>4 DEF Same, Owning, Aside, Received, Queued, Busy, SdoBusy, NextLeft
  <2>6. Sound(l, {b}) /\ (Whole(m, {}) => Whole(l, {b}))
    <3>1. l.bReceiveMbxIsLocked \/ l.ev0 => l.running /\ l.sm0 # NoMail
      BY <2>5 DEF Sound, Shape
    <3> QED  BY <2>2, <2>4, <2>5, <3>1, AllocSound
  <2>7. Serves(l, k, b) /\ (Room(l) => ListGoesOn(l, k))
    BY <2>1, <2>3, <2>5, <2>6, SDOS_SdoInfoIndServes
  <2> HIDE DEF k
  <2>8. Room(m) = Room(l) /\ Waiting(m) = Waiting(l)
    BY <2>5 DEF Room, Waiting
  <2>9. Served(l, k) => Served(m, k)
    BY <2>4, <2>5, <2>8 DEF Served, Same, ListGoesOn
  <2>10. ListGoesOn(l, k) => ListGoesOn(m, k)
    BY <2>4, <2>5 DEF ListGoesOn
  <2>11. Continued(m, k)
    BY <2>6, <2>7, <2>8, <2>9, <2>10 DEF Continued, Serves
  <2> QED  BY <2>11 DEF k
<1> QED  BY <1>2, <1>3, <1>4

(***************************************************************************)
(* The bound on the replies, with a queue deep enough for an object list:   *)
(* no reply is kept aside, and while fragments follow there is room for all *)
(* of them, and for the replies to what is already here.  A flag that is    *)
(* left when the last fragment was sent (of two lists served at once)       *)
(* starts one more list.                                                    *)
(***************************************************************************)
DeepQueue == QueueSize > Fragments + 5

Bounded(m) ==
  /\ m.pCoeSendStored = NoMail
  /\ Waiting(m) <= Fragments + 4
  /\ m.u8MailboxSendReqStored =>
       /\ Waiting(m) + m.nSdoInfoFragmentsLeft <= Fragments + 4
       /\ m.nSdoInfoFragmentsLeft = 0 => Waiting(m) <= 3

LEMMA BoundedHasRoom ==
  ASSUME DeepQueue, NEW m \in MbType, Bounded(m)
  PROVE  ~QueueFull(m.sendQ) /\ Room(m)
<1>1. Received(m) \in Nat /\ Queued(m) \in Nat /\ Busy(m) \in 0..1
  BY LengthTypes
<1>2. Queued(m) <= Fragments + 4
  BY <1>1, SizesAssumption DEF Bounded, Waiting
<1>3. Queued(m) # QueueSize - 1
  BY <1>1, <1>2, SizesAssumption DEF DeepQueue
<1> QED  BY <1>3 DEF Queued, QueueFull, Room

\* What a read indication does to the globals.
Read(m, k) ==
  /\ Sound(k, {}) /\ k.running = m.running
  /\ DeepQueue /\ Bounded(m) => /\ Bounded(k) /\ k.recvQ = m.recvQ
                                /\ Whole(m, {}) => Whole(k, {})

LEMMA TurnedBounded ==
  ASSUME NEW m, NEW k, Sound(m, {}), m.bSendMbxIsFull, Turned(m, k)
  PROVE  /\ Same(m, k, {"running", "recvQ"})
         /\ Waiting(k) <= Waiting(m) /\ (Bounded(m) => Bounded(k))
<1>1. m \in MbType /\ k \in MbType /\ m.sendQ \in Seq(Mails) /\ QDistinct(m.sendQ)
  BY DEF Sound, Shape, MbType, Turned
<1>2. Queued(k) = Queued(m) \/ Queued(k) = Queued(m) - 1
  <2>1. CASE m.sendQ # <<>>
    <3>1. Len(Tail(m.sendQ)) = Len(m.sendQ) - 1
      BY <1>1, <2>1, QueueTail
    <3> QED  BY <2>1, <3>1 DEF Turned, Queued
  <2>2. CASE m.sendQ = <<>>
    BY <2>2 DEF Turned, Queued
  <2> QED  BY <2>1, <2>2
<1>3. /\ k.running = m.running /\ k.recvQ = m.recvQ /\ k.pCoeSendStored = m.pCoeSendStored
      /\ k.u8MailboxSendReqStored = m.u8MailboxSendReqStored
      /\ k.nSdoInfoFragmentsLeft = m.nSdoInfoFragmentsLeft
      /\ Received(k) = Received(m) /\ Busy(k) = Busy(m)
  BY BehindFields DEF Turned
<1>4. /\ Received(m) \in Nat /\ Queued(m) \in Nat /\ Queued(k) \in Nat /\ Busy(m) \in 0..1
      /\ Waiting(m) \in Nat /\ Waiting(k) \in Nat /\ m.nSdoInfoFragmentsLeft \in Nat
  BY <1>1, LengthTypes
<1>5. Waiting(k) <= Waiting(m)
  BY <1>2, <1>3, <1>4 DEF Waiting
<1>6. Bounded(m) => Bounded(k)
  BY <1>3, <1>4, <1>5, SizesAssumption DEF Bounded
<1> QED  BY <1>3, <1>5, <1>6 DEF Same

LEMMA ContinuedBounded ==
  ASSUME DeepQueue, NEW m, NEW l, NEW k, Sound(m, {}), m.u8MailboxSendReqStored, Bounded(m),
         l = [m EXCEPT !.u8MailboxSendReqStored = FALSE], Continued(l, k)
  PROVE  Bounded(k) /\ k.recvQ = m.recvQ /\ (Whole(m, {}) => Whole(k, {}))
<1>1. /\ Sound(l, {}) /\ (Whole(m, {}) => Whole(l, {}))
      /\ Same(m, l, (Owning \cup Aside) \ {"u8MailboxSendReqStored"})
      /\ ~l.u8MailboxSendReqStored
  BY FlagSound
<1>2. m \in MbType /\ l \in MbType /\ k \in MbType
  BY <1>1 DEF Sound, Continued
<1>3. /\ l.pCoeSendStored = NoMail /\ l.recvQ = m.recvQ
      /\ l.nSdoInfoFragmentsLeft = m.nSdoInfoFragmentsLeft /\ Waiting(l) = Waiting(m)
      /\ l.sendQ = m.sendQ /\ l.bSendMbxIsFull = m.bSendMbxIsFull
  BY <1>1 DEF Same, Owning, Aside, Bounded, Waiting, Received, Queued, Busy, SdoBusy
<1>4. Room(l)
  BY <1>2, <1>3, BoundedHasRoom DEF Room
<1>5. /\ Waiting(m) \in Nat /\ Waiting(k) \in Nat /\ m.nSdoInfoFragmentsLeft \in 0..Fragments
      /\ NextLeft(l) \in 0..Fragments /\ k.nSdoInfoFragmentsLeft \in 0..Fragments
  BY <1>2, LengthTypes
<1>6. CASE Served(l, k) /\ ListGoesOn(l, k)
  <2>1. /\ k.pCoeSendStored = NoMail /\ k.recvQ = m.recvQ /\ Waiting(k) <= Waiting(m) + 1
        /\ k.nSdoInfoFragmentsLeft = NextLeft(l)
        /\ k.u8MailboxSendReqStored <=> NextLeft(l) > 0
    BY <1>1, <1>3, <1>6 DEF Served, ListGoesOn, Same
  <2>2. /\ Waiting(m) + m.nSdoInfoFragmentsLeft <= Fragments + 4
        /\ m.nSdoInfoFragmentsLeft = 0 => Waiting(m) <= 3
    BY DEF Bounded
  <2>3. NextLeft(l) = IF m.nSdoInfoFragmentsLeft > 0 THEN m.nSdoInfoFragmentsLeft - 1 ELSE Fragments
    BY <1>3 DEF NextLeft
  <2>4. Waiting(k) + NextLeft(l) <= Fragments + 4
    BY <1>5, <2>1, <2>2, <2>3, SizesAssumption
  <2>5. Bounded(k)
    BY <1>5, <2>1, <2>4, SizesAssumption DEF Bounded
  <2> QED  BY <1>1, <1>3, <1>4, <2>1, <2>5 DEF Continued
<1>7. CASE k = [l EXCEPT !.u8MailboxSendReqStored = TRUE]
  <2>1. k = m
    BY <1>2, <1>7 DEF MbType
  <2> QED  BY <2>1
<1> QED  BY <1>3, <1>4, <1>6, <1>7 DEF Continued

LEMMA MBX_MailboxReadIndReads ==
  ASSUME NEW m, NEW ok \in BOOLEAN, Sound(m, {}), m.bSendMbxIsFull,
         m.u8MailboxSendReqStored /\ m.pCoeSendStored = NoMail /\ ok
           => ReleaseRepeat(m).heap # 1..Pool
  PROVE  Read(m, MBX_MailboxReadInd(m, ok))
<1> DEFINE l == SentNext(m)
           n == [l EXCEPT !.u8MailboxSendReqStored = FALSE]
           k == MBX_MailboxReadInd(m, ok)
<1>1. k = IF l.u8MailboxSendReqStored THEN COE_ContinueInd(n, ok) ELSE l
  BY DEF MBX_MailboxReadInd, SentNext
<1>2. Turned(m, l)
  BY SentNextTurned
<1> HIDE DEF l, k
<1>3. /\ Sound(l, {}) /\ (Whole(m, {}) => Whole(l, {})) /\ Same(m, l, {"running", "recvQ"})
      /\ (Bounded(m) => Bounded(l))
  BY <1>2, TurnedSound, TurnedBounded
<1>4. CASE ~l.u8MailboxSendReqStored
  <2>1. k = l
    BY <1>1, <1>4
  <2> QED  BY <1>3, <2>1 DEF Read, Same, k
<1>5. CASE l.u8MailboxSendReqStored
  <2>1. k = COE_ContinueInd(n, ok)
    BY <1>1, <1>5
  <2>2. /\ Sound(n, {}) /\ Same(l, n, (Owning \cup Aside) \ {"u8MailboxSendReqStored"})
        /\ (Whole(l, {}) => Whole(n, {}))
    BY <1>3, FlagSound
  <2>3. n.running = l.running /\ n.pCoeSendStored = l.pCoeSendStored /\ n.heap = l.heap
    BY <2>2 DEF Same, Owning, Aside
  <2>4. m.running /\ l.running = m.running
    BY <1>3 DEF Sound, Shape, Same
  <2>5. n.pCoeSendStored = NoMail => (ok => n.heap # 1..Pool)
    <3>1. l.pCoeSendStored = m.pCoeSendStored /\ m.u8MailboxSendReqStored
      BY <1>2, <1>5, BehindFields DEF Turned
    <3>2. l.heap = m.heap \ Buf(m.psRepeatMbx)
      BY <1>2 DEF Turned
    <3>3. ReleaseRepeat(m).heap = m.heap \ Buf(m.psRepeatMbx)
      <4>1. m \in MbType
        BY DEF Sound
      <4>2. ReleaseRepeat(m) = [m EXCEPT !.heap = @ \ Buf(m.psRepeatMbx)]
        BY ReleaseRepeatFrees
      <4> HIDE DEF n
      <4> QED  BY <4>1, <4>2 DEF MbType
    <3> QED  BY <2>3, <3>1, <3>2, <3>3
  <2>6. Continued(n, k)
    BY <2>1, <2>2, <2>3, <2>4, <2>5, COE_ContinueIndContinued
  <2>7. k.running = m.running /\ Sound(k, {})
    BY <2>4, <2>6 DEF Continued
  <2>8. DeepQueue /\ Bounded(m) => Bounded(k) /\ k.recvQ = m.recvQ /\ (Whole(m, {}) => Whole(k, {}))
    <3>1. l.recvQ = m.recvQ
      BY <1>3 DEF Same
    <3> QED  BY <1>3, <1>5, <2>6, <3>1, ContinuedBounded
  <2> QED  BY <2>7, <2>8 DEF Read, k
<1> QED  BY <1>4, <1>5

\* What a repeat request does: it is acknowledged, and the last reply, if it is
\* still there, is in the send mailbox again.
Repeated(m, k) ==
  /\ Sound(k, {}) /\ (Whole(m, {}) => Whole(k, {}))
  /\ Same(m, k, Behind) /\ k.sendQ = m.sendQ

LEMMA ToggleSound ==
  ASSUME NEW m, Sound(m, {})
  PROVE  Repeated(m, [m EXCEPT !.bMbxRepeatToggle = ~@])
<1> DEFINE k == [m EXCEPT !.bMbxRepeatToggle = ~@]
<1>1. m \in MbType
  BY DEF Sound
<1>2. k \in MbType /\ Same(m, k, Owning) /\ Same(m, k, Behind) /\ k.sendQ = m.sendQ
  BY <1>1 DEF MbType, Same, Owning, Behind
<1> HIDE DEF k
<1>3. Sound(k, {}) /\ (Whole(m, {}) => Whole(k, {}))
  BY <1>2, SameSound
<1> QED  BY <1>2, <1>3 DEF Repeated, k

\* The last reply is in the send mailbox again, the one it takes the place of
\* is stored.
Again(m, k) ==
  /\ k \in MbType /\ Same(m, k, Behind) /\ k.heap = m.heap /\ k.sendQ = m.sendQ
  /\ k.bSendMbxIsFull /\ k.psReadMbx = m.psRepeatMbx /\ k.psRepeatMbx = NoMail
  /\ k.psStoreMbx = IF m.bSendMbxIsFull THEN m.psReadMbx ELSE NoMail

LEMMA AgainRepeated ==
  ASSUME NEW m, NEW k, Sound(m, {}), m.running, m.psRepeatMbx # NoMail, Again(m, k)
  PROVE  Repeated(m, k)
<1> DEFINE H == Held(m, {})
           F == [H EXCEPT !.store = H.read, !.read = {}]
           G == Held(k, {})
<1>1. /\ m.psStoreMbx = NoMail /\ m.psRepeatMbx.buf # 0 /\ (m.bSendMbxIsFull => m.psReadMbx.buf # 0)
  BY DEF Sound, Shape, IsKept
<1>2. /\ k.running = m.running /\ k.sm0 = m.sm0 /\ k.ev0 = m.ev0 /\ k.recvQ = m.recvQ
      /\ k.bReceiveMbxIsLocked = m.bReceiveMbxIsLocked /\ k.unfreed = m.unfreed
      /\ k.pSdoResStored = m.pSdoResStored /\ k.pCoeSendStored = m.pCoeSendStored
      /\ k.heap = m.heap /\ k.sendQ = m.sendQ /\ k.bSendMbxIsFull
      /\ k.psReadMbx = m.psRepeatMbx /\ k.psRepeatMbx = NoMail
      /\ k.psStoreMbx = IF m.bSendMbxIsFull THEN m.psReadMbx ELSE NoMail
  BY BehindFields DEF Again
<1>3. Shape(k)
  BY <1>1, <1>2 DEF Sound, Shape, SdoBusy, IsKept
<1>4. /\ H.store = {} /\ H.repeat = Buf(m.psRepeatMbx)
      /\ H.read = IF m.bSendMbxIsFull THEN Buf(m.psReadMbx) ELSE {}
  BY <1>1, MailFacts DEF Held, Buf
<1>5. /\ F.store = H.read /\ F.read = {} /\ F.repeat = H.repeat /\ F.sdo = H.sdo
      /\ F.coe = H.coe /\ F.recv = H.recv /\ F.send = H.send /\ F.flight = H.flight
  BY DEF Held
<1>6. /\ G.read = H.repeat /\ G.repeat = {} /\ G.sdo = H.sdo /\ G.coe = H.coe
      /\ G.recv = H.recv /\ G.send = H.send /\ G.flight = H.flight
  BY <1>2, <1>4, MailFacts DEF Held, Buf
<1>7. G.store = H.read
  <2>1. G.store = Buf(k.psStoreMbx) /\ Buf(NoMail) = {}
    BY MailFacts DEF Held, Buf
  <2> QED  BY <1>2, <1>4, <2>1
<1> HIDE DEF H, F, G
<1>8. Separate(F) /\ AllOf(F) = AllOf(H)
  <2>1. Separate(H)
    BY DEF Sound, Ownership, H
  <2>2. MovesAll(H, F, "read", "store")
    BY <1>4, <1>5 DEF MovesAll, Moves, Places
  <2>3. "read" \in Places /\ "store" \in Places /\ "read" # "store"
    BY DEF Places
  <2> QED  BY <2>1, <2>2, <2>3, MoveAllKeeps
<1>9. Separate(G) /\ AllOf(G) = AllOf(F)
  <2>1. MovesAll(F, G, "repeat", "read")
    BY <1>5, <1>6, <1>7 DEF MovesAll, Moves, Places
  <2>2. "repeat" \in Places /\ "read" \in Places /\ "repeat" # "read"
    BY DEF Places
  <2> QED  BY <1>8, <2>1, <2>2, MoveAllKeeps
<1>10. Sound(k, {}) /\ (Whole(m, {}) => Whole(k, {}))
  BY <1>2, <1>3, <1>8, <1>9 DEF Again, Sound, Ownership, Whole, Usable, G, H
<1> QED  BY <1>10 DEF Repeated, Again

LEMMA MBX_MailboxRepeatReqRepeats ==
  ASSUME NEW m, Sound(m, {}), m.running
  PROVE  Repeated(m, MBX_MailboxRepeatReq(m))
<1>1. m \in MbType /\ NoMail \in Mails /\ m.psRepeatMbx \in Mails
  BY MailFacts DEF Sound, MbType
<1>2. CASE m.psRepeatMbx = NoMail
  BY <1>2, ToggleSound DEF MBX_MailboxRepeatReq
<1>3. CASE m.psRepeatMbx # NoMail
  <2> DEFINE t == TakeBack(m)
             c == MBX_CopyToSendMailbox(t, m.psRepeatMbx)
             l == [c EXCEPT !.psRepeatMbx = NoMail]
             k == [l EXCEPT !.bMbxRepeatToggle = ~@]
  <2>1. MBX_MailboxRepeatReq(m) = k
    BY <1>3 DEF MBX_MailboxRepeatReq
  <2>2. m.psStoreMbx = NoMail
    BY <1>3 DEF Sound, Shape
  <2>3. /\ t \in MbType /\ Same(m, t, Behind) /\ t.heap = m.heap /\ t.sendQ = m.sendQ
        /\ t.psStoreMbx = IF m.bSendMbxIsFull THEN m.psReadMbx ELSE NoMail
    BY <1>1, <2>2 DEF TakeBack, MbType, Same, Behind
  <2> HIDE DEF t
  <2>4. /\ c \in MbType /\ Same(t, c, Behind) /\ c.heap = t.heap /\ c.bSendMbxIsFull
        /\ c.psStoreMbx = t.psStoreMbx /\ c.psReadMbx = m.psRepeatMbx /\ c.sendQ = t.sendQ
    BY <1>1, <2>3, MBX_CopyToSendMailboxFills
  <2> HIDE DEF c
  <2>5. /\ l \in MbType /\ Same(c, l, Behind) /\ l.heap = c.heap /\ l.bSendMbxIsFull
        /\ l.psStoreMbx = c.psStoreMbx /\ l.psReadMbx = c.psReadMbx /\ l.sendQ = c.sendQ
        /\ l.psRepeatMbx = NoMail
    BY <1>1, <2>4 DEF MbType, Same, Behind
  <2> HIDE DEF l
  <2>6. Again(m, l)
    BY <2>3, <2>4, <2>5 DEF Again, Same
  <2>7. Repeated(m, l)
    BY <1>3, <2>6, AgainRepeated
  <2>8. Repeated(l, k)
    BY <2>7, ToggleSound DEF Repeated
  <2> HIDE DEF k
  <2>9. Repeated(m, k)
    BY <2>7, <2>8 DEF Repeated, Same
  <2> QED  BY <2>1, <2>9
<1> QED  BY <1>2, <1>3
-------------------------------------------------------------------------------
(* Stopping the mailbox, and the SDO service that is finished.                *)

LEMMA Zeros == NoMail \in Mails /\ NoMail.buf = 0 /\ 0 \in 0..Fragments /\ 0 \in 0..Counters
<1>1. NoMail \in Mails /\ NoMail.buf = 0
  BY MailFacts
<1>2. 0 \in 0..Fragments /\ 0 \in 0..Counters
  BY SizesAssumption
<1> QED  BY <1>1, <1>2

LEMMA StoppedFields ==
  /\ Stopped \in MbType /\ Stopped.recvQ = <<>> /\ Stopped.sendQ = <<>>
  /\ Stopped.psReadMbx = NoMail /\ Stopped.psRepeatMbx = NoMail
  /\ Stopped.psStoreMbx = NoMail /\ Stopped.pSdoResStored = NoMail
  /\ Stopped.pCoeSendStored = NoMail /\ Stopped.heap = {} /\ Stopped.unfreed = {}
  /\ ~Stopped.bSendMbxIsFull /\ ~Stopped.bReceiveMbxIsLocked /\ ~Stopped.ev0
  /\ ~Stopped.u8MailboxSendReqStored
BY Zeros DEF Stopped, MbType

\* Everything is given back but the reply kept in pCoeSendStored.
LEMMA StoppedSound ==
  ASSUME NEW m, Sound(m, {})
  PROVE  LET k == MBX_StopMailboxHandler(m)
         IN  /\ Sound(k, {}) /\ (Whole(m, {}) => Whole(k, {}))
             /\ k.recvQ = <<>> /\ k.sendQ = <<>> /\ k.pSdoResStored = NoMail
             /\ ~k.u8MailboxSendReqStored /\ k.pCoeSendStored = m.pCoeSendStored
<1> DEFINE k == MBX_StopMailboxHandler(m)
           H == Held(m, {})
           G == Held(k, {})
           O == Owned(m) \ {0}
<1>1. m \in MbType /\ NoMail \in Mails /\ NoMail.buf = 0 /\ m.heap \subseteq 1..Pool
  BY MailFacts DEF Sound, MbType
<1>2. /\ k \in MbType /\ k.pCoeSendStored = m.pCoeSendStored /\ k.unfreed = m.unfreed
      /\ k.heap = m.heap \ Owned(m) /\ k.recvQ = <<>> /\ k.sendQ = <<>>
      /\ k.psReadMbx = NoMail /\ k.psRepeatMbx = NoMail /\ k.psStoreMbx = NoMail
      /\ k.pSdoResStored = NoMail /\ ~k.bSendMbxIsFull /\ ~k.bReceiveMbxIsLocked /\ ~k.ev0
      /\ ~k.u8MailboxSendReqStored
  <2>1. /\ m.pCoeSendStored \in Mails /\ m.nSdoInfoFragmentsLeft \in 0..Fragments
        /\ m.heap \ Owned(m) \in SUBSET (1..Pool) /\ m.unfreed \in SUBSET (1..Pool)
    BY <1>1 DEF MbType
  <2> QED  BY <2>1, StoppedFields DEF MBX_StopMailboxHandler, MbType
<1> HIDE DEF k
<1>3. /\ G.read = {} /\ G.repeat = {} /\ G.store = {} /\ G.sdo = {} /\ G.recv = {}
      /\ G.send = {} /\ G.flight = {} /\ G.coe = Buf(m.pCoeSendStored)
  BY <1>1, <1>2, QueueOfNone DEF Held, Buf
<1>4. /\ H.coe = Buf(m.pCoeSendStored) /\ H.flight = {} /\ H.repeat = Buf(m.psRepeatMbx)
      /\ H.store = Buf(m.psStoreMbx) /\ H.sdo = Buf(m.pSdoResStored)
      /\ H.recv = QBufs(m.recvQ) /\ H.send = QBufs(m.sendQ)
      /\ H.read \cup H.repeat = Buf(m.psReadMbx) \cup Buf(m.psRepeatMbx)
      /\ 0 \notin H.recv /\ 0 \notin H.send
  <2>1. ~m.bSendMbxIsFull => m.psReadMbx = m.psRepeatMbx
    BY DEF Sound, Shape
  <2>2. 0 \notin QBufs(m.recvQ) /\ 0 \notin QBufs(m.sendQ)
    BY DEF Sound, Shape
  <2> QED  BY <2>1, <2>2 DEF Held
<1>5. O = UNION {H[p] : p \in Places \ {"coe"}}
  <2>1. O = (H.read \cup H.repeat) \cup H.store \cup H.sdo \cup H.recv \cup H.send
    BY <1>4 DEF Owned, Buf, QBufs
  <2> HIDE DEF O, H
  <2> QED  BY <1>4, <2>1 DEF Places
<1>6. k.heap = m.heap \ O
  BY <1>1, <1>2
<1> HIDE DEF H, G, O
<1>7. Separate(H) /\ AllOf(H) \subseteq Usable(m) /\ m.unfreed \subseteq m.heap
  BY DEF Sound, Ownership, H
<1>8. AllOf(H) = O \cup H.coe /\ O \cap H.coe = {}
  <2>1. "coe" \in Places
    BY DEF Places
  <2> QED  BY <1>5, <1>7, <2>1 DEF AllOf, Separate
<1>9. Separate(G) /\ AllOf(G) = H.coe
  BY <1>3, <1>4 DEF Separate, AllOf, Places
<1>10. Usable(k) = Usable(m) \ O /\ k.unfreed \subseteq k.heap
  BY <1>2, <1>6, <1>7, <1>8 DEF Usable
<1>11. Shape(k)
  BY <1>1, <1>2, QueueOfNone DEF Sound, Shape, IsKept, SdoBusy
<1> QED  BY <1>2, <1>7, <1>8, <1>9, <1>10, <1>11 DEF Sound, Ownership, Whole, G, H, k

\* The mail of the service in work is taken to be answered.
LEMMA FinishedSound ==
  ASSUME NEW m, Sound(m, {}), SdoBusy(m)
  PROVE  LET l == [m EXCEPT !.pSdoResStored = NoMail]
             b == m.pSdoResStored.buf
         IN  /\ Sound(l, {b}) /\ (Whole(m, {}) => Whole(l, {b}))
             /\ m.pSdoResStored \in Mails /\ b # 0 /\ l.running /\ ~SdoBusy(l)
             /\ Same(m, l, {"recvQ", "sendQ", "bSendMbxIsFull", "pCoeSendStored",
                            "u8MailboxSendReqStored", "nSdoInfoFragmentsLeft"})
<1> DEFINE l == [m EXCEPT !.pSdoResStored = NoMail]
           b == m.pSdoResStored.buf
           H == Held(m, {})
           G == Held(l, {b})
<1>1. /\ m \in MbType /\ b # 0 /\ NoMail \in Mails /\ m.pSdoResStored \in Mails
      /\ m.pSdoResStored # NoMail /\ m.running
  BY MailFacts DEF Sound, Shape, IsKept, SdoBusy, MbType
<1>2. /\ l \in MbType /\ l.pSdoResStored = NoMail
      /\ Same(m, l, (Owning \cup Aside \cup {"u8MailboxSendReqStored"}) \ {"pSdoResStored"})
  BY <1>1 DEF MbType, Same, Owning, Aside
<1>3. /\ l.running = m.running /\ l.sm0 = m.sm0 /\ l.ev0 = m.ev0 /\ l.recvQ = m.recvQ
      /\ l.sendQ = m.sendQ /\ l.psReadMbx = m.psReadMbx /\ l.bSendMbxIsFull = m.bSendMbxIsFull
      /\ l.psRepeatMbx = m.psRepeatMbx /\ l.psStoreMbx = m.psStoreMbx
      /\ l.bReceiveMbxIsLocked = m.bReceiveMbxIsLocked
      /\ l.pCoeSendStored = m.pCoeSendStored /\ l.heap = m.heap /\ l.unfreed = m.unfreed
  BY <1>2 DEF Same, Owning, Aside
<1> HIDE DEF l
<1>4. Shape(l)
  BY <1>2, <1>3 DEF Sound, Shape, SdoBusy, IsKept
<1>5. Moves(H, G, "sdo", "flight", {b}) /\ {b} \subseteq H["sdo"]
  <2>1. H.sdo = {b} /\ H.flight = {}
    BY <1>1 DEF Held, Buf
  <2>2. /\ G.sdo = {} /\ G.flight = {b} /\ G.read = H.read /\ G.repeat = H.repeat
        /\ G.store = H.store /\ G.coe = H.coe /\ G.recv = H.recv /\ G.send = H.send
    BY <1>2, <1>3, MailFacts DEF Held, Buf
  <2> HIDE DEF H, G, b
  <2> QED  BY <2>1, <2>2 DEF Moves, Places
<1> HIDE DEF H, G
<1>6. Separate(G) /\ AllOf(G) = AllOf(H)
  <2>1. Separate(H)
    BY DEF Sound, Ownership, H
  <2> QED  BY <1>5, <2>1, MoveKeeps DEF Places
<1>7. Sound(l, {b}) /\ (Whole(m, {}) => Whole(l, {b}))
  BY <1>2, <1>3, <1>4, <1>6 DEF Sound, Ownership, Whole, Usable, G, H
<1>8. /\ ~SdoBusy(l) /\ Same(m, l, {"recvQ", "sendQ", "bSendMbxIsFull", "pCoeSendStored",
                                    "u8MailboxSendReqStored", "nSdoInfoFragmentsLeft"})
  BY <1>2 DEF SdoBusy, Same, Owning, Aside
<1> QED  BY <1>1, <1>3, <1>7, <1>8 DEF l
-------------------------------------------------------------------------------
(* The steps.  A step of phase p that leads to phase q takes the globals m    *)
(* to k.                                                                      *)

(***************************************************************************)
(* What is received is bounded, too: a request is only copied while no      *)
(* reply waits, so that none is left of the requests before it when MBX_Main *)
(* serves it, and at most one is received before and one after that.         *)
(***************************************************************************)
Phases == {"main", "activate", "status", "al", "ind", "write", "coe"}

Few(m, p) ==
  m.recvQ # <<>> =>
    /\ Received(m) + Queued(m) <= 2
    /\ p # "main" => ~m.u8MailboxSendReqStored /\ m.sendQ = <<>>
    /\ p \notin {"main", "coe"} => Received(m) = 1
    /\ p \in {"activate", "status", "al", "ind"} => ~m.bSendMbxIsFull
    /\ p = "coe" /\ m.bSendMbxIsFull => Received(m) = 1

Tight(m, p) == Bounded(m) /\ Whole(m, {}) /\ Few(m, p)

Step(m, p, k, q) == Sound(k, {}) /\ (DeepQueue /\ Tight(m, p) => Tight(k, q))

LEMMA PhaseSteps ==
  ASSUME NEW m, NEW p, NEW q, Sound(m, {}), Few(m, p) => Few(m, q)
  PROVE  Step(m, p, m, q)
BY DEF Step, Tight

\* What Bounded and Few speak of.
Counted == {"recvQ", "sendQ", "bSendMbxIsFull", "pCoeSendStored", "pSdoResStored",
            "u8MailboxSendReqStored", "nSdoInfoFragmentsLeft"}

LEMMA CountedSteps ==
  ASSUME NEW m, NEW k, NEW p, Sound(k, {}), Whole(m, {}) => Whole(k, {}), Same(m, k, Counted)
  PROVE  Step(m, p, k, p)
<1>1. /\ k.recvQ = m.recvQ /\ k.sendQ = m.sendQ /\ k.bSendMbxIsFull = m.bSendMbxIsFull
      /\ k.pCoeSendStored = m.pCoeSendStored /\ k.pSdoResStored = m.pSdoResStored
      /\ k.u8MailboxSendReqStored = m.u8MailboxSendReqStored
      /\ k.nSdoInfoFragmentsLeft = m.nSdoInfoFragmentsLeft
  BY DEF Same, Counted
<1>2. Received(k) = Received(m) /\ Queued(k) = Queued(m) /\ Waiting(k) = Waiting(m)
  BY <1>1 DEF Received, Queued, Waiting, Busy, SdoBusy
<1> QED  BY <1>1, <1>2 DEF Step, Tight, Bounded, Few

\* MBX_Main serves the first mail of the queue.
LEMMA ServedSteps ==
  ASSUME NEW m, NEW n, NEW k, Sound(m, {}), m.recvQ # <<>>, n = [m EXCEPT !.recvQ = Tail(@)],
         \/ k = MailboxServiceInd(n, Head(m.recvQ))
         \/ k = SendError(n, Head(m.recvQ))
  PROVE  Step(m, "main", k, "main")
<1> DEFINE b == Head(m.recvQ).buf
<1>1. /\ Head(m.recvQ) \in Mails /\ b # 0 /\ n.running
      /\ Sound(n, {b}) /\ (Whole(m, {}) => Whole(n, {b}))
      /\ Received(n) = Received(m) - 1 /\ Queued(n) = Queued(m) /\ Busy(n) = Busy(m)
      /\ Same(m, n, {"sendQ", "bSendMbxIsFull", "pCoeSendStored",
                     "u8MailboxSendReqStored", "nSdoInfoFragmentsLeft"})
  BY PopSound
<1>2. Serves(n, k, b)
  BY <1>1, MailboxServiceIndServes, SendErrorServes
<1> HIDE DEF b
<1>3. Sound(k, {}) /\ m \in MbType /\ n \in MbType /\ k \in MbType
  BY <1>1, <1>2 DEF Serves, Sound
<1>4. ASSUME DeepQueue, Tight(m, "main")
      PROVE  Tight(k, "main")
  <2>1. /\ n.sendQ = m.sendQ /\ n.bSendMbxIsFull = m.bSendMbxIsFull
        /\ n.pCoeSendStored = m.pCoeSendStored
        /\ n.u8MailboxSendReqStored = m.u8MailboxSendReqStored
        /\ n.nSdoInfoFragmentsLeft = m.nSdoInfoFragmentsLeft
    BY <1>1 DEF Same
  <2>2. Room(n)
    BY <1>3, <1>4, <2>1, BoundedHasRoom DEF Tight, Room
  <2>3. Served(n, k) /\ Whole(k, {})
    BY <1>1, <1>2, <1>4, <2>2 DEF Serves, Tight
  <2>4. Bounded(m) /\ Received(m) + Queued(m) <= 2
    BY <1>4 DEF Tight, Few
  <2>5. /\ Received(m) \in Nat /\ Queued(m) \in Nat /\ Busy(m) \in 0..1 /\ Waiting(m) \in Nat
        /\ Waiting(k) \in Nat /\ Received(k) \in Nat /\ Queued(k) \in Nat
        /\ Received(n) \in Nat
        /\ NextLeft(n) \in 0..Fragments /\ k.nSdoInfoFragmentsLeft \in 0..Fragments
    BY <1>3, LengthTypes
  <2>6. Waiting(m) <= 3 /\ Waiting(n) = Waiting(m) - 1
    BY <1>1, <2>4, <2>5 DEF Waiting
  <2>7. /\ Waiting(k) <= Waiting(m) /\ k.pCoeSendStored = NoMail
        /\ Received(k) = Received(m) - 1 /\ Queued(k) <= Queued(m) + 1
    <3>1. /\ Received(k) = Received(n) /\ k.pCoeSendStored = n.pCoeSendStored
          /\ Waiting(k) <= Waiting(n) + 1 /\ Queued(k) <= Queued(n) + 1
      BY <2>3 DEF Served, Same, Received
    <3>2. Waiting(k) <= Waiting(m)
      BY <2>5, <2>6, <3>1
    <3> QED  BY <1>1, <2>1, <2>4, <3>1, <3>2 DEF Bounded
  <2>8. \/ /\ k.nSdoInfoFragmentsLeft = m.nSdoInfoFragmentsLeft
           /\ k.u8MailboxSendReqStored = m.u8MailboxSendReqStored
        \/ k.nSdoInfoFragmentsLeft = NextLeft(n)
    BY <2>1, <2>3 DEF Served, ListGoesOn
  <2>9. Bounded(k)
    <3>1. Waiting(k) <= 3 /\ k.nSdoInfoFragmentsLeft <= Fragments /\ Fragments \in Nat
      <4>1. k.nSdoInfoFragmentsLeft <= Fragments /\ Fragments \in Nat
        BY <2>5, SizesAssumption
      <4>2. Waiting(k) <= 3
        BY <2>5, <2>6, <2>7
      <4> QED  BY <4>1, <4>2
    <3>2. Waiting(k) <= Fragments + 4 /\ Waiting(k) + k.nSdoInfoFragmentsLeft <= Fragments + 4
      <4>1. Waiting(k) \in Nat /\ k.nSdoInfoFragmentsLeft \in Nat
        BY <2>5
      <4> QED  BY <3>1, <4>1
    <3> QED  BY <2>7, <3>1, <3>2 DEF Bounded
  <2>10. Received(k) + Queued(k) <= 2
    BY <2>4, <2>5, <2>7
  <2> QED  BY <2>3, <2>9, <2>10 DEF Tight, Few
<1> QED  BY <1>3, <1>4 DEF Step

\* A request is copied from sync manager 0, by MBX_Main or at its event.
LEMMA CopiedSteps ==
  ASSUME NEW m, NEW k, Sound(m, {}), Copied(m, k)
  PROVE  /\ m.recvQ = <<>> => Step(m, "main", k, "activate")
         /\ Step(m, "write", k, "coe")
<1>1. Sound(k, {}) /\ m \in MbType /\ k \in MbType
  BY DEF Copied, Sound
<1>2. /\ k.sendQ = m.sendQ /\ k.pCoeSendStored = m.pCoeSendStored
      /\ k.pSdoResStored = m.pSdoResStored /\ (Whole(m, {}) => Whole(k, {}))
      /\ k.u8MailboxSendReqStored = m.u8MailboxSendReqStored
      /\ k.nSdoInfoFragmentsLeft = m.nSdoInfoFragmentsLeft
      /\ Queued(k) = Queued(m) /\ Busy(k) = Busy(m)
  BY DEF Copied, Same, Queued, Busy, SdoBusy
<1>3. /\ Received(m) \in Nat /\ Queued(m) \in Nat /\ Busy(m) \in 0..1 /\ Waiting(m) \in Nat
      /\ Received(k) \in Nat /\ Waiting(k) \in Nat /\ Busy(k) \in 0..1
  BY <1>1, LengthTypes
<1>4. m.recvQ = <<>> => Received(m) = 0
  BY DEF Received
<1>5. CASE k.recvQ = m.recvQ
  <2>1. Received(k) = Received(m) /\ Waiting(k) = Waiting(m)
    BY <1>2, <1>5 DEF Received, Waiting
  <2>2. Bounded(m) => Bounded(k)
    BY <1>2, <2>1 DEF Bounded
  <2>3. m.recvQ = <<>> => Few(k, "activate") /\ Few(k, "coe")
    BY <1>5 DEF Few
  <2>4. Few(m, "write") => Few(k, "coe")
    BY <1>2, <1>5, <2>1 DEF Few
  <2> QED  BY <1>1, <1>2, <2>2, <2>3, <2>4 DEF Step, Tight
<1>6. CASE Received(k) = Received(m) + 1 /\ ~k.bSendMbxIsFull /\ ~ReceiveBlocked(m)
  <2>1. m.sendQ = <<>> /\ Queued(m) = 0 /\ ~m.u8MailboxSendReqStored
    <3>1. m.sendQ = <<>> /\ ~m.u8MailboxSendReqStored
      BY <1>6 DEF ReceiveBlocked, Sound, Shape
    <3> QED  BY <3>1 DEF Queued
  <2>2. Received(m) <= 1 /\ Bounded(m) => Bounded(k)
    BY <1>2, <1>3, <1>6, <2>1, SizesAssumption DEF Bounded, Waiting
  <2>3. Received(m) <= 1 => Few(k, "coe")
    BY <1>2, <1>3, <1>6, <2>1 DEF Few
  <2>4. Received(m) = 0 => Few(k, "activate")
    BY <1>2, <1>3, <1>6, <2>1 DEF Few
  <2>5. Few(m, "write") => Received(m) <= 1
    BY <1>4 DEF Few
  <2> QED  BY <1>1, <1>2, <1>4, <2>2, <2>3, <2>4, <2>5 DEF Step, Tight
<1> QED  BY <1>5, <1>6 DEF Copied

LEMMA StartSteps ==
  ASSUME NEW m, NEW k, NEW boot \in BOOLEAN, Sound(m, {}),
         k = [m EXCEPT !.running = TRUE, !.boot = boot]
  PROVE  Step(m, "al", k, "ind")
<1>1. /\ k \in MbType /\ k.running /\ Same(m, k, Owning \ {"running"}) /\ Same(m, k, Counted)
  BY DEF Sound, MbType, Same, Owning, Counted
<1>2. /\ k.sm0 = m.sm0 /\ k.ev0 = m.ev0 /\ k.recvQ = m.recvQ
      /\ k.sendQ = m.sendQ /\ k.psReadMbx = m.psReadMbx /\ k.bSendMbxIsFull = m.bSendMbxIsFull
      /\ k.psRepeatMbx = m.psRepeatMbx /\ k.psStoreMbx = m.psStoreMbx
      /\ k.bReceiveMbxIsLocked = m.bReceiveMbxIsLocked /\ k.pSdoResStored = m.pSdoResStored
      /\ k.pCoeSendStored = m.pCoeSendStored /\ k.heap = m.heap /\ k.unfreed = m.unfreed
  BY <1>1 DEF Same, Owning
<1>3. Held(k, {}) = Held(m, {}) /\ Usable(k) = Usable(m)
  BY <1>2 DEF Held, Usable
<1>4. Shape(k)
  BY <1>1, <1>2 DEF Sound, Shape, SdoBusy
<1>5. Sound(k, {}) /\ (Whole(m, {}) => Whole(k, {}))
  BY <1>1, <1>2, <1>3, <1>4 DEF Sound, Ownership, Whole
<1>6. Step(m, "al", k, "al")
  BY <1>1, <1>5, CountedSteps
<1> QED  BY <1>6 DEF Step, Tight, Few

LEMMA StopSteps ==
  ASSUME NEW m, Sound(m, {})
  PROVE  Step(m, "al", MBX_StopMailboxHandler(m), "ind")
<1> DEFINE k == MBX_StopMailboxHandler(m)
<1>1. /\ Sound(k, {}) /\ (Whole(m, {}) => Whole(k, {}))
      /\ k.recvQ = <<>> /\ k.sendQ = <<>> /\ k.pSdoResStored = NoMail
      /\ ~k.u8MailboxSendReqStored /\ k.pCoeSendStored = m.pCoeSendStored
  BY StoppedSound
<1> HIDE DEF k
<1>2. Waiting(k) = 0
  BY <1>1 DEF Waiting, Received, Queued, Busy, SdoBusy
<1>3. Bounded(m) => Bounded(k)
  BY <1>1, <1>2, SizesAssumption DEF Bounded
<1>4. Few(k, "ind")
  BY <1>1 DEF Few
<1>5. Step(m, "al", k, "ind")
  BY <1>1, <1>3, <1>4 DEF Step, Tight
<1> QED  BY <1>5 DEF k

\* The read indication, and the repeat request after it.
LEMMA ReadSteps ==
  ASSUME NEW m, NEW k, Sound(m, {}), k = m \/ (m.bSendMbxIsFull /\ Read(m, k))
  PROVE  Step(m, "ind", k, "ind")
<1>1. CASE k = m
  BY <1>1, PhaseSteps
<1>2. CASE m.bSendMbxIsFull /\ Read(m, k)
  <2>1. Few(m, "ind") => m.recvQ = <<>>
    BY <1>2 DEF Few
  <2> QED  BY <1>2, <2>1 DEF Step, Tight, Read, Few
<1> QED  BY <1>1, <1>2

LEMMA RepeatSteps ==
  ASSUME NEW m, NEW k, Sound(m, {}), k = m \/ Repeated(m, k)
  PROVE  Step(m, "ind", k, "write")
<1>1. CASE k = m
  <2>1. Few(m, "ind") => Few(m, "write")
    BY DEF Few
  <2> QED  BY <1>1, <2>1, PhaseSteps
<1>2. CASE Repeated(m, k)
  <2>1. /\ Sound(k, {}) /\ (Whole(m, {}) => Whole(k, {}))
        /\ k.recvQ = m.recvQ /\ k.sendQ = m.sendQ /\ k.pCoeSendStored = m.pCoeSendStored
        /\ k.pSdoResStored = m.pSdoResStored
        /\ k.u8MailboxSendReqStored = m.u8MailboxSendReqStored
        /\ k.nSdoInfoFragmentsLeft = m.nSdoInfoFragmentsLeft
    BY <1>2, BehindFields DEF Repeated
  <2>2. Received(k) = Received(m) /\ Queued(k) = Queued(m) /\ Waiting(k) = Waiting(m)
    BY <2>1 DEF Received, Queued, Waiting, Busy, SdoBusy
  <2>3. Bounded(m) => Bounded(k)
    BY <2>1, <2>2 DEF Bounded
  <2>4. Few(m, "ind") => Few(k, "write")
    BY <2>1, <2>2 DEF Few
  <2> QED  BY <2>1, <2>3, <2>4 DEF Step, Tight
<1> QED  BY <1>1, <1>2

\* COE_Main sends the reply of the service that was in work.
LEMMA FinishSteps ==
  ASSUME NEW m, Sound(m, {}), SdoBusy(m)
  PROVE  Step(m, "coe",
              SendCoe([m EXCEPT !.pSdoResStored = NoMail], m.pSdoResStored, FALSE), "main")
<1> DEFINE l    == [m EXCEPT !.pSdoResStored = NoMail]
           mail == m.pSdoResStored
           k    == SendCoe(l, mail, FALSE)
<1>1. /\ Sound(l, {mail.buf}) /\ (Whole(m, {}) => Whole(l, {mail.buf}))
      /\ mail \in Mails /\ mail.buf # 0 /\ l.running /\ ~SdoBusy(l)
      /\ Same(m, l, {"recvQ", "sendQ", "bSendMbxIsFull", "pCoeSendStored",
                     "u8MailboxSendReqStored", "nSdoInfoFragmentsLeft"})
  BY FinishedSound
<1> HIDE DEF l
<1>3. CoeSent(k, l, mail, FALSE)
  BY <1>1, SendCoeSound
<1> HIDE DEF k, mail
<1>4. /\ l.recvQ = m.recvQ /\ l.sendQ = m.sendQ /\ l.bSendMbxIsFull = m.bSendMbxIsFull
      /\ l.pCoeSendStored = m.pCoeSendStored
      /\ l.u8MailboxSendReqStored = m.u8MailboxSendReqStored
      /\ l.nSdoInfoFragmentsLeft = m.nSdoInfoFragmentsLeft
  BY <1>1 DEF Same
<1>5. m \in MbType /\ l \in MbType /\ k \in MbType /\ m.u8MailboxSendReqStored \in BOOLEAN
  BY <1>1, <1>3 DEF Sound, CoeSent, MbType
<1>6. ASSUME DeepQueue, Tight(m, "coe")
      PROVE  Tight(k, "main")
  <2>1. Bounded(m) /\ Room(m) /\ Whole(m, {}) /\ Few(m, "coe")
    BY <1>5, <1>6, BoundedHasRoom DEF Tight
  <2>2. Grows(l, k) /\ k.u8MailboxSendReqStored = m.u8MailboxSendReqStored /\ Whole(k, {})
    BY <1>1, <1>3, <1>4, <1>5, <2>1 DEF CoeSent, Room
  <2>3. /\ k.recvQ = m.recvQ /\ k.pCoeSendStored = m.pCoeSendStored /\ ~SdoBusy(k)
        /\ k.nSdoInfoFragmentsLeft = m.nSdoInfoFragmentsLeft
        /\ Received(k) = Received(m) /\ Queued(k) <= Queued(m) + 1
        /\ ~m.bSendMbxIsFull => k.sendQ = m.sendQ
    BY <1>1, <1>4, <2>2 DEF Grows, Same, Aside, SdoBusy, Received, Queued
  <2>4. Busy(m) = 1 /\ Busy(k) = 0
    BY <2>3 DEF Busy
  <2>5. /\ Received(m) \in Nat /\ Queued(m) \in Nat /\ Queued(k) \in Nat /\ Waiting(m) \in Nat
        /\ Waiting(k) \in Nat /\ m.nSdoInfoFragmentsLeft \in 0..Fragments
    BY <1>5, LengthTypes
  <2>6. Waiting(k) <= Waiting(m)
    BY <2>3, <2>4, <2>5 DEF Waiting
  <2>7. Bounded(k)
    BY <2>1, <2>2, <2>3, <2>5, <2>6, SizesAssumption DEF Bounded
  <2>8. Few(k, "main")
    <3>1. ASSUME m.recvQ # <<>>
          PROVE  Received(m) + Queued(k) <= 2
      <4>1. /\ Received(m) + Queued(m) <= 2 /\ Queued(m) = 0
            /\ m.bSendMbxIsFull => Received(m) = 1
        <5>1. m.sendQ = <<>>
          BY <2>1, <3>1 DEF Few
        <5> QED  BY <2>1, <3>1, <5>1 DEF Few, Queued
      <4>2. ~m.bSendMbxIsFull => Queued(k) = Queued(m)
        BY <2>3 DEF Queued
      <4> QED  BY <2>3, <2>5, <4>1, <4>2
    <3> QED  BY <2>3, <3>1 DEF Few
  <2> QED  BY <2>2, <2>7, <2>8 DEF Tight
<1>7. Step(m, "coe", k, "main")
  BY <1>3, <1>6 DEF Step, CoeSent
<1> QED  BY <1>7 DEF k, l, mail

\* What the master writes to sync manager 0, and what it takes from sync manager 1.
LEMMA MasterSteps ==
  ASSUME NEW m, NEW k, NEW mail \in Mails, NEW p, Sound(m, {}),
         \/ k = [m EXCEPT !.sm0 = mail, !.ev0 = TRUE] /\ m.running /\ mail # NoMail
         \/ k = [m EXCEPT !.sm1 = NoMail]
  PROVE  Step(m, p, k, p)
<1>1. m \in MbType /\ NoMail \in Mails
  BY MailFacts DEF Sound
<1>2. /\ k \in MbType /\ Same(m, k, Owning \ {"sm0", "ev0"}) /\ Same(m, k, Counted)
      /\ \/ m.running /\ k.sm0 # NoMail
         \/ k.sm0 = m.sm0 /\ k.ev0 = m.ev0
  <2>1. CASE k = [m EXCEPT !.sm0 = mail, !.ev0 = TRUE] /\ m.running /\ mail # NoMail
    <3>1. k \in MbType /\ k.sm0 = mail
      BY <1>1, <2>1 DEF MbType
    <3>2. Same(m, k, Owning \ {"sm0", "ev0"})
      BY <1>1, <2>1 DEF MbType, Same, Owning
    <3>3. Same(m, k, Counted)
      BY <1>1, <2>1 DEF MbType, Same, Counted
    <3> QED  BY <2>1, <3>1, <3>2, <3>3
  <2>2. CASE k = [m EXCEPT !.sm1 = NoMail]
    <3>1. k \in MbType /\ k.sm0 = m.sm0 /\ k.ev0 = m.ev0
      BY <1>1, <2>2 DEF MbType
    <3>2. Same(m, k, Owning \ {"sm0", "ev0"})
      BY <1>1, <2>2 DEF MbType, Same, Owning
    <3>3. Same(m, k, Counted)
      BY <1>1, <2>2 DEF MbType, Same, Counted
    <3> QED  BY <3>1, <3>2, <3>3
  <2> QED  BY <2>1, <2>2
<1>3. /\ k.running = m.running /\ k.recvQ = m.recvQ
      /\ k.sendQ = m.sendQ /\ k.psReadMbx = m.psReadMbx /\ k.bSendMbxIsFull = m.bSendMbxIsFull
      /\ k.psRepeatMbx = m.psRepeatMbx /\ k.psStoreMbx = m.psStoreMbx
      /\ k.bReceiveMbxIsLocked = m.bReceiveMbxIsLocked /\ k.pSdoResStored = m.pSdoResStored
      /\ k.pCoeSendStored = m.pCoeSendStored /\ k.heap = m.heap /\ k.unfreed = m.unfreed
  BY <1>2 DEF Same, Owning
<1>4. Held(k, {}) = Held(m, {}) /\ Usable(k) = Usable(m)
  BY <1>3 DEF Held, Usable
<1>5. Shape(k)
  BY <1>2, <1>3 DEF Sound, Shape, SdoBusy
<1>6. Sound(k, {}) /\ (Whole(m, {}) => Whole(k, {}))
  BY <1>2, <1>3, <1>4, <1>5 DEF Sound, Ownership, Whole
<1> QED  BY <1>2, <1>6, CountedSteps
-------------------------------------------------------------------------------
(* The actions.                                                              *)

LEMMA CheckAndCopySteps ==
  ASSUME Sound(mb, {}), mb.bReceiveMbxIsLocked \/ mb.ev0, CheckAndCopy
  PROVE  Copied(mb, mb')
<1>1. CASE ReceiveBlocked(mb)
  <2>1. mb' = MBX_CheckAndCopyMailbox(mb, TRUE)
    BY <1>1 DEF CheckAndCopy
  <2> QED  BY <1>1, <2>1, MBX_CheckAndCopyMailboxCopied
<1>2. CASE ~ReceiveBlocked(mb)
  <2>1. PICK ok \in BOOLEAN : Alloc(mb, ok) /\ mb' = MBX_CheckAndCopyMailbox(mb, ok)
    BY <1>2 DEF CheckAndCopy
  <2>2. ok => mb.heap # 1..Pool
    BY <2>1 DEF Alloc
  <2> QED  BY <2>1, <2>2, MBX_CheckAndCopyMailboxCopied
<1> QED  BY <1>1, <1>2

LEMMA IndicationsSteps ==
  ASSUME Sound(mb, {}), Indications
  PROVE  Step(mb, "ind", mb', "write")
<1> DEFINE read      == mb.running /\ empty /\ mb.bSendMbxIsFull
           Repeat(m) == IF m.running /\ act # m.bMbxRepeatToggle THEN MBX_MailboxRepeatReq(m) ELSE m
<1>1. \E n : /\ n = mb \/ (mb.bSendMbxIsFull /\ Read(mb, n))
             /\ mb' = Repeat(n)
  <2>1. CASE read /\ (mb.u8MailboxSendReqStored /\ mb.pCoeSendStored = NoMail)
    <3>1. PICK ok \in BOOLEAN : Alloc(ReleaseRepeat(mb), ok) /\ mb' = Repeat(MBX_MailboxReadInd(mb, ok))
      BY <2>1 DEF Indications
    <3>2. ok => ReleaseRepeat(mb).heap # 1..Pool
      BY <3>1 DEF Alloc
    <3> HIDE DEF Repeat
    <3>3. Read(mb, MBX_MailboxReadInd(mb, ok))
      BY <2>1, <3>2, MBX_MailboxReadIndReads
    <3> QED  BY <2>1, <3>1, <3>3
  <2>2. CASE read /\ ~(mb.u8MailboxSendReqStored /\ mb.pCoeSendStored = NoMail)
    <3>1. mb' = Repeat(MBX_MailboxReadInd(mb, TRUE))
      BY <2>2 DEF Indications
    <3> HIDE DEF Repeat
    <3>2. Read(mb, MBX_MailboxReadInd(mb, TRUE))
      BY <2>2, MBX_MailboxReadIndReads
    <3> QED  BY <2>2, <3>1, <3>2
  <2>3. CASE ~read
    BY <2>3 DEF Indications
  <2> QED  BY <2>1, <2>2, <2>3
<1>2. PICK n : /\ n = mb \/ (mb.bSendMbxIsFull /\ Read(mb, n))
               /\ mb' = Repeat(n)
  BY <1>1
<1>3. Step(mb, "ind", n, "ind")
  BY <1>2, ReadSteps
<1>4. Step(n, "ind", mb', "write")
  <2>1. Sound(n, {})
    BY <1>3 DEF Step
  <2>2. mb' = n \/ Repeated(n, mb')
    BY <1>2, <2>1, MBX_MailboxRepeatReqRepeats
  <2> QED  BY <2>1, <2>2, RepeatSteps
<1> QED  BY <1>3, <1>4 DEF Step

LEMMA LoopSteps ==
  ASSUME Sound(mb, {}), Loop
  PROVE  Step(mb, pc, mb', pc')
<1>1. CASE Serve
  <2> DEFINE n == [mb EXCEPT !.recvQ = Tail(@)]
  <2>1. /\ pc = "main" /\ pc' = "main" /\ mb.recvQ # <<>>
        /\ \/ mb' = MailboxServiceInd(n, Head(mb.recvQ))
           \/ mb' = SendError(n, Head(mb.recvQ))
    BY <1>1 DEF Serve, Goto
  <2>2. Step(mb, "main", mb', "main")
    BY <2>1, ServedSteps
  <2> QED  BY <2>1, <2>2
<1>2. CASE Main
  <2>1. pc = "main" /\ pc' = "activate" /\ mb.recvQ = <<>>
    BY <1>2 DEF Main, Goto
  <2>2. CASE mb.bReceiveMbxIsLocked
    <3>1. CheckAndCopy
      BY <1>2, <2>2 DEF Main
    <3> QED  BY <2>1, <2>2, <3>1, CheckAndCopySteps, CopiedSteps
  <2>3. CASE ~mb.bReceiveMbxIsLocked
    <3>1. mb' = mb /\ Few(mb, "activate")
      BY <1>2, <2>1, <2>3 DEF Main, Few
    <3> QED  BY <2>1, <3>1, PhaseSteps
  <2> QED  BY <2>2, <2>3
<1>3. CASE ReadActivate \/ ReadStatus \/ NoTransition \/ SdoStillInWork
  <2>1. /\ mb' = mb
        /\ \/ pc = "activate" /\ pc' = "status"
           \/ pc = "status" /\ pc' = "al"
           \/ pc = "al" /\ pc' = "ind"
           \/ pc = "coe" /\ pc' = "main"
    BY <1>3 DEF ReadActivate, ReadStatus, NoTransition, SdoStillInWork, Goto
  <2>2. Few(mb, pc) => Few(mb, pc')
    BY <2>1 DEF Few
  <2> QED  BY <2>1, <2>2, PhaseSteps
<1>4. CASE StartMailbox
  <2>1. PICK boot \in Boots : mb' = [mb EXCEPT !.running = TRUE, !.boot = boot]
    BY <1>4 DEF StartMailbox
  <2>2. pc = "al" /\ pc' = "ind" /\ boot \in BOOLEAN
    BY <1>4, <2>1, ServicesAssumption DEF StartMailbox, Goto
  <2> QED  BY <2>1, <2>2, StartSteps
<1>5. CASE StopMailbox
  <2>1. pc = "al" /\ pc' = "ind" /\ mb' = MBX_StopMailboxHandler(mb)
    BY <1>5 DEF StopMailbox, Goto
  <2> QED  BY <2>1, StopSteps
<1>6. CASE Indications
  <2>1. pc = "ind" /\ pc' = "write"
    BY <1>6 DEF Indications, Goto
  <2> QED  BY <1>6, <2>1, IndicationsSteps
<1>7. CASE WriteEvent
  <2>1. pc = "write" /\ pc' = "coe"
    BY <1>7 DEF WriteEvent, Goto
  <2>2. CASE mb.running /\ mb.ev0
    <3>1. CheckAndCopy
      BY <1>7, <2>2 DEF WriteEvent
    <3> QED  BY <2>1, <2>2, <3>1, CheckAndCopySteps, CopiedSteps
  <2>3. CASE ~(mb.running /\ mb.ev0)
    <3>1. mb' = mb /\ (Few(mb, "write") => Few(mb, "coe"))
      BY <1>7, <2>3 DEF WriteEvent, Few
    <3> QED  BY <2>1, <3>1, PhaseSteps
  <2> QED  BY <2>2, <2>3
<1>8. CASE FinishSdo
  <2>1. /\ pc = "coe" /\ pc' = "main" /\ SdoBusy(mb)
        /\ mb' = SendCoe([mb EXCEPT !.pSdoResStored = NoMail], mb.pSdoResStored, FALSE)
    BY <1>8 DEF FinishSdo, Goto
  <2> QED  BY <2>1, FinishSteps
<1> QED  BY <1>1, <1>2, <1>3, <1>4, <1>5, <1>6, <1>7, <1>8 DEF Loop

\* The rest of the type invariant.
Typed ==
  /\ pc \in Phases
  /\ {act, empty, rep, lost} \subseteq BOOLEAN /\ fails \in 0..Failures
  /\ {got, req} \subseteq Mails /\ open \in Nat /\ left \in 0..Fragments

LEMMA RequestIsMail ==
  ASSUME req \in Mails, NEW s \in Services
  PROVE  LET r == [NoMail EXCEPT !.cnt = (req.cnt % Counters) + 1, !.what = s]
         IN  r \in Mails /\ r # NoMail
<1>1. (req.cnt % Counters) + 1 \in 0..Counters /\ (req.cnt % Counters) + 1 # 0
  <2>1. req.cnt \in 0..Counters
    BY DEF Mails
  <2> QED  BY <2>1, SizesAssumption
<1>2. s \in Whats /\ 0 \in 0..Pool /\ 0 \in 0..Fragments
  BY SizesAssumption DEF Whats
<1> DEFINE c == (req.cnt % Counters) + 1
<1> HIDE DEF c
<1>3. c \in 0..Counters /\ c # 0
  BY <1>1 DEF c
<1>4. LET r == [NoMail EXCEPT !.cnt = c, !.what = s] IN r \in Mails /\ r # NoMail
  BY <1>2, <1>3 DEF NoMail, Mails
<1> QED  BY <1>4 DEF c

LEMMA MasterMasterSteps ==
  ASSUME Sound(mb, {}), req \in Mails, Master
  PROVE  Step(mb, pc, mb', pc')
<1>1. pc' = pc
  BY DEF Master, WriteRequest, WriteAgain, ReadMail, LoseMail, RequestRepeat
<1>2. CASE WriteRequest
  <2>1. PICK s \in Services :
          LET r == [NoMail EXCEPT !.cnt = (req.cnt % Counters) + 1, !.what = s]
          IN  mb' = [mb EXCEPT !.sm0 = r, !.ev0 = TRUE]
    BY <1>2 DEF WriteRequest
  <2> DEFINE r == [NoMail EXCEPT !.cnt = (req.cnt % Counters) + 1, !.what = s]
  <2>2. r \in Mails /\ r # NoMail
    BY RequestIsMail
  <2>3. mb' = [mb EXCEPT !.sm0 = r, !.ev0 = TRUE] /\ mb.running
    BY <1>2, <2>1 DEF WriteRequest
  <2> HIDE DEF r
  <2> QED  BY <1>1, <2>2, <2>3, MasterSteps
<1>3. CASE WriteAgain
  <2>1. mb' = [mb EXCEPT !.sm0 = req, !.ev0 = TRUE] /\ mb.running /\ req # NoMail
    BY <1>3 DEF WriteAgain
  <2> QED  BY <1>1, <2>1, MasterSteps
<1>4. CASE ReadMail \/ LoseMail
  <2>1. mb' = [mb EXCEPT !.sm1 = NoMail]
    BY <1>4 DEF ReadMail, LoseMail
  <2> QED  BY <1>1, <2>1, MasterSteps
<1>5. CASE RequestRepeat
  <2>1. mb' = mb
    BY <1>5 DEF RequestRepeat
  <2> QED  BY <1>1, <2>1, PhaseSteps
<1> QED  BY <1>2, <1>3, <1>4, <1>5 DEF Master

LEMMA FailsKept ==
  ASSUME fails \in 0..Failures, NEW m, NEW ok, Alloc(m, ok)
  PROVE  fails' \in 0..Failures
BY SizesAssumption DEF Alloc

LEMMA LoopTyped ==
  ASSUME Typed, Loop
  PROVE  Typed'
<1>1. /\ pc' \in Phases /\ {act', empty'} \subseteq BOOLEAN
  BY DEF Typed, Loop, Serve, Main, ReadActivate, ReadStatus, NoTransition, StartMailbox,
         StopMailbox, Indications, WriteEvent, FinishSdo, SdoStillInWork, Goto, Phases
<1>2. fails' \in 0..Failures
  <2>1. fails' = fails \/ \E m, ok : Alloc(m, ok)
    BY DEF Loop, Serve, Main, ReadActivate, ReadStatus, NoTransition, StartMailbox,
           StopMailbox, Indications, WriteEvent, FinishSdo, SdoStillInWork, CheckAndCopy
  <2> QED  BY <2>1, FailsKept DEF Typed
<1>3. /\ {rep', lost'} \subseteq BOOLEAN /\ {got', req'} \subseteq Mails
      /\ open' \in Nat /\ left' \in 0..Fragments
  <2>1. CASE StopMailbox
    <3>1. NoMail \in Mails /\ 0 \in 0..Fragments
      BY Zeros
    <3> QED  BY <2>1, <3>1 DEF StopMailbox, Typed
  <2>2. CASE UNCHANGED masterVars
    BY <2>2 DEF masterVars, Typed
  <2>3. StopMailbox \/ UNCHANGED masterVars
    BY DEF Loop, Serve, Main, ReadActivate, ReadStatus, NoTransition, StartMailbox,
           Indications, WriteEvent, FinishSdo, SdoStillInWork
  <2> QED  BY <2>1, <2>2, <2>3
<1> QED  BY <1>1, <1>2, <1>3 DEF Typed

LEMMA MasterTyped ==
  ASSUME Typed, mb \in MbType, Master
  PROVE  Typed'
<1>2. UNCHANGED <<pc, act, empty, fails>>
  BY DEF Master, WriteRequest, WriteAgain, ReadMail, LoseMail, RequestRepeat, masterVars
<1>3. {rep', lost'} \subseteq BOOLEAN
  BY DEF Typed, Master, WriteRequest, WriteAgain, ReadMail, LoseMail, RequestRepeat, masterVars
<1>4. {got', req'} \subseteq Mails
  <2>1. CASE WriteRequest
    <3>1. got' = got
      BY <2>1 DEF WriteRequest
    <3>2. PICK s \in Services :
            req' = [NoMail EXCEPT !.cnt = (req.cnt % Counters) + 1, !.what = s]
      BY <2>1 DEF WriteRequest
    <3>3. req' \in Mails
      BY <3>2, RequestIsMail DEF Typed
    <3> QED  BY <3>1, <3>3 DEF Typed
  <2>2. CASE ReadMail
    <3>1. (got' = got \/ got' = mb.sm1) /\ req' = req /\ mb.sm1 \in Mails
      BY <2>2 DEF ReadMail, MbType
    <3> QED  BY <3>1 DEF Typed
  <2>3. CASE WriteAgain \/ LoseMail \/ RequestRepeat
    BY <2>3 DEF WriteAgain, LoseMail, RequestRepeat, masterVars, Typed
  <2> QED  BY <2>1, <2>2, <2>3 DEF Master
<1>5. open' \in Nat /\ left' \in 0..Fragments
  <2>1. CASE WriteRequest
    <3>1. (left' = left \/ left' = Fragments) /\ (open' = open \/ open' = open + 1)
      BY <2>1 DEF WriteRequest
    <3> QED  BY <3>1, SizesAssumption DEF Typed
  <2>2. CASE ReadMail
    <3>1. /\ open' = open \/ (open > 0 /\ open' = open - 1)
          /\ left' = left \/ (mb.sm1.left > 0 /\ left' = mb.sm1.left - 1)
      BY <2>2 DEF ReadMail
    <3>2. mb.sm1.left \in 0..Fragments
      BY DEF MbType, Mails
    <3> QED  BY <3>1, <3>2, SizesAssumption DEF Typed
  <2>3. CASE WriteAgain \/ LoseMail \/ RequestRepeat
    BY <2>3 DEF WriteAgain, LoseMail, RequestRepeat, masterVars, Typed
  <2> QED  BY <2>1, <2>2, <2>3 DEF Master
<1> QED  BY <1>2, <1>3, <1>4, <1>5 DEF Typed
-------------------------------------------------------------------------------
(* The invariants.                                                           *)

\* With any queue: the globals fit together, and no buffer has two owners.
IInv == Typed /\ Sound(mb, {})

\* With a queue that is deep enough: nothing is dropped or put off.
DInv == IInv /\ Tight(mb, pc)

LEMMA InitInv == Init => IInv /\ DInv
<1> SUFFICES ASSUME Init PROVE IInv /\ Tight(mb, pc)
  BY DEF DInv
<1>1. NoMail \in Mails /\ NoMail.buf = 0 /\ 0 \in 0..Fragments /\ 0 \in 0..Counters
  BY Zeros
<1>2. Typed
  <2>1. Failures \in 0..Failures /\ 0 \in Nat
    BY SizesAssumption
  <2> QED  BY <1>1, <2>1 DEF Init, Typed, Phases
<1>3. /\ mb \in MbType /\ mb.recvQ = <<>> /\ mb.sendQ = <<>> /\ mb.heap = {} /\ mb.unfreed = {}
      /\ mb.psReadMbx = NoMail /\ mb.psRepeatMbx = NoMail /\ mb.psStoreMbx = NoMail
      /\ mb.pSdoResStored = NoMail /\ mb.pCoeSendStored = NoMail
      /\ ~mb.bSendMbxIsFull /\ ~mb.bReceiveMbxIsLocked /\ ~mb.ev0 /\ ~mb.u8MailboxSendReqStored
  BY StoppedFields DEF Init
<1>4. Shape(mb)
  BY <1>3, QueueOfNone DEF Shape, SdoBusy, IsKept
<1>5. \A p \in Places : Held(mb, {})[p] = {}
  BY <1>1, <1>3, QueueOfNone DEF Held, Buf, Places
<1>6. Sound(mb, {}) /\ Whole(mb, {})
  <2> DEFINE H == Held(mb, {})
  <2>1. Separate(H) /\ AllOf(H) = {}
    <3> HIDE DEF H
    <3>1. \A p \in Places : H[p] = {}
      BY <1>5 DEF H
    <3> QED  BY <3>1 DEF Separate, AllOf
  <2>2. Usable(mb) = {}
    BY <1>3 DEF Usable
  <2> QED  BY <1>3, <1>4, <2>1, <2>2 DEF Sound, Ownership, Whole
<1>7. Waiting(mb) = 0
  BY <1>3 DEF Waiting, Received, Queued, Busy, SdoBusy
<1>8. Bounded(mb) /\ Few(mb, pc)
  BY <1>3, <1>7, SizesAssumption DEF Bounded, Few
<1> QED  BY <1>2, <1>6, <1>8 DEF IInv, Tight

LEMMA NextInv ==
  ASSUME IInv, [Next]_vars
  PROVE  IInv' /\ (DeepQueue /\ DInv => DInv')
<1>1. CASE Loop
  BY <1>1, LoopSteps, LoopTyped DEF IInv, DInv, Step
<1>2. CASE Master
  <2>1. mb \in MbType /\ req \in Mails
    BY DEF IInv, Sound, Typed
  <2> QED  BY <1>2, <2>1, MasterMasterSteps, MasterTyped DEF IInv, DInv, Step
<1>3. CASE UNCHANGED vars
  BY <1>3 DEF vars, IInv, DInv, Typed
<1> QED  BY <1>1, <1>2, <1>3 DEF Next

THEOREM Invariance == Spec => []IInv
<1>1. Init => IInv
  BY InitInv
<1>2. IInv /\ [Next]_vars => IInv'
  BY NextInv
<1> QED  BY <1>1, <1>2, PTL DEF Spec

\* The type invariant.
THEOREM TypeCorrect == Spec => []TypeOK
<1>1. IInv => TypeOK
  BY DEF IInv, Typed, Sound, TypeOK, Phases
<1> QED  BY <1>1, Invariance, PTL

\* A request that was refused is still in sync manager 0, whatever the master
\* repeats and whenever the mailbox is stopped: MBX_Main never reads an empty one.
THEOREM LockedMailIsThere == Spec => []LockedHasMail
<1>1. IInv => LockedHasMail
  BY DEF IInv, Sound, Shape, LockedHasMail
<1> QED  BY <1>1, Invariance, PTL
-------------------------------------------------------------------------------
(* From the places back to the pointers.                                     *)

Where == [psReadMbx |-> "read", psRepeatMbx |-> "repeat", psStoreMbx |-> "store",
          pSdoResStored |-> "sdo", pCoeSendStored |-> "coe",
          recvQ |-> "recv", sendQ |-> "send"]

LEMMA OwnerForms ==
  ASSUME NEW b, NEW o \in OwnersOf(b)
  PROVE  \/ /\ o = <<o[1], 0>> /\ mb[o[1]].buf = b
            /\ \/ o[1] \in {"psRepeatMbx", "psStoreMbx", "pSdoResStored", "pCoeSendStored"}
               \/ o[1] = "psReadMbx" /\ mb.psReadMbx # mb.psRepeatMbx
         \/ o = <<"recvQ", o[2]>> /\ o[2] \in DOMAIN mb.recvQ /\ mb.recvQ[o[2]].buf = b
         \/ o = <<"sendQ", o[2]>> /\ o[2] \in DOMAIN mb.sendQ /\ mb.sendQ[o[2]].buf = b
BY DEF OwnersOf, Owners

\* What an owner holds is in its place.
LEMMA OwnerHolds ==
  ASSUME Sound(mb, {}), NEW b \in 1..Pool, NEW o \in OwnersOf(b)
  PROVE  o[1] \in DOMAIN Where /\ b \in Held(mb, {})[Where[o[1]]]
<1>1. b # 0
  OBVIOUS
<1>2. ~mb.bSendMbxIsFull => mb.psReadMbx = mb.psRepeatMbx
  BY DEF Sound, Shape
<1>3. CASE o[1] \in {"psRepeatMbx", "psStoreMbx", "pSdoResStored", "pCoeSendStored"}
  <2>1. mb[o[1]].buf = b
    BY <1>3, OwnerForms
  <2> QED  BY <1>1, <1>3, <2>1 DEF Where, Held, Buf
<1>4. CASE o[1] = "psReadMbx" /\ mb.psReadMbx # mb.psRepeatMbx
  <2>1. mb.psReadMbx.buf = b /\ mb.bSendMbxIsFull
    BY <1>2, <1>4, OwnerForms
  <2> QED  BY <1>1, <1>4, <2>1 DEF Where, Held, Buf
<1>5. CASE o[1] = "recvQ"
  <2>1. o[2] \in DOMAIN mb.recvQ /\ mb.recvQ[o[2]].buf = b
    BY <1>5, OwnerForms
  <2> QED  BY <1>5, <2>1 DEF Where, Held, QBufs
<1>6. CASE o[1] = "sendQ"
  <2>1. o[2] \in DOMAIN mb.sendQ /\ mb.sendQ[o[2]].buf = b
    BY <1>6, OwnerForms
  <2> QED  BY <1>6, <2>1 DEF Where, Held, QBufs
<1> QED  BY <1>3, <1>4, <1>5, <1>6, OwnerForms

LEMMA OneOwner ==
  ASSUME Sound(mb, {}), NEW b \in 1..Pool, NEW o \in OwnersOf(b), NEW u \in OwnersOf(b)
  PROVE  o = u
<1>1. o[1] = u[1]
  <2>1. /\ o[1] \in DOMAIN Where /\ b \in Held(mb, {})[Where[o[1]]]
        /\ u[1] \in DOMAIN Where /\ b \in Held(mb, {})[Where[u[1]]]
    BY OwnerHolds
  <2>2. \A f \in DOMAIN Where : Where[f] \in Places
    BY DEF Where, Places
  <2>3. Where[o[1]] = Where[u[1]]
    BY <2>1, <2>2 DEF Sound, Ownership, Separate
  <2>4. \A f, g \in DOMAIN Where : Where[f] = Where[g] => f = g
    BY DEF Where
  <2> QED  BY <2>1, <2>3, <2>4
<1>2. QDistinct(mb.recvQ) /\ QDistinct(mb.sendQ)
  BY DEF Sound, Shape
<1>3. CASE o[1] = "recvQ"
  <2>1. o = <<"recvQ", o[2]>> /\ o[2] \in DOMAIN mb.recvQ /\ mb.recvQ[o[2]].buf = b
    BY <1>3, OwnerForms
  <2>2. u = <<"recvQ", u[2]>> /\ u[2] \in DOMAIN mb.recvQ /\ mb.recvQ[u[2]].buf = b
    <3>1. u[1] = "recvQ"
      BY <1>1, <1>3
    <3> QED  BY <3>1, OwnerForms
  <2>3. o[2] = u[2]
    BY <1>2, <2>1, <2>2 DEF QDistinct
  <2> QED  BY <2>1, <2>2, <2>3
<1>4. CASE o[1] = "sendQ"
  <2>1. o = <<"sendQ", o[2]>> /\ o[2] \in DOMAIN mb.sendQ /\ mb.sendQ[o[2]].buf = b
    BY <1>4, OwnerForms
  <2>2. u = <<"sendQ", u[2]>> /\ u[2] \in DOMAIN mb.sendQ /\ mb.sendQ[u[2]].buf = b
    <3>1. u[1] = "sendQ"
      BY <1>1, <1>4
    <3> QED  BY <3>1, OwnerForms
  <2>3. o[2] = u[2]
    BY <1>2, <2>1, <2>2 DEF QDistinct
  <2> QED  BY <2>1, <2>2, <2>3
<1>5. CASE o[1] \notin {"recvQ", "sendQ"}
  <2>1. o = <<o[1], 0>>
    BY <1>5, OwnerForms
  <2>2. u = <<u[1], 0>>
    BY <1>1, <1>5, OwnerForms
  <2> QED  BY <1>1, <2>1, <2>2
<1> QED  BY <1>3, <1>4, <1>5

LEMMA HeldHasOwner ==
  ASSUME Sound(mb, {}), NEW b \in AllOf(Held(mb, {}))
  PROVE  OwnersOf(b) # {}
<1> DEFINE H == Held(mb, {})
<1>1. PICK p \in Places : b \in H[p]
  BY DEF AllOf
<1>2. CASE p = "read"
  <2>1. mb.bSendMbxIsFull /\ mb.psReadMbx.buf = b /\ b \in Buf(mb.psReadMbx)
    BY <1>1, <1>2 DEF Held, Buf
  <2>2. mb.psReadMbx # mb.psRepeatMbx
    <3>1. H.read \cap H.repeat = {}
      BY DEF Sound, Ownership, Separate, Places
    <3>2. H.read = Buf(mb.psReadMbx) /\ H.repeat = Buf(mb.psRepeatMbx)
      BY <2>1 DEF Held
    <3> QED  BY <2>1, <3>1, <3>2
  <2>3. <<"psReadMbx", 0>> \in OwnersOf(b)
    BY <2>1, <2>2 DEF OwnersOf, Owners
  <2> QED  BY <2>3
<1>3. CASE p = "repeat"
  <2>1. mb.psRepeatMbx.buf = b
    BY <1>1, <1>3 DEF Held, Buf
  <2>2. <<"psRepeatMbx", 0>> \in OwnersOf(b)
    BY <2>1 DEF OwnersOf, Owners
  <2> QED  BY <2>2
<1>4. CASE p = "store"
  <2>1. mb.psStoreMbx.buf = b
    BY <1>1, <1>4 DEF Held, Buf
  <2>2. <<"psStoreMbx", 0>> \in OwnersOf(b)
    BY <2>1 DEF OwnersOf, Owners
  <2> QED  BY <2>2
<1>5. CASE p = "sdo"
  <2>1. mb.pSdoResStored.buf = b
    BY <1>1, <1>5 DEF Held, Buf
  <2>2. <<"pSdoResStored", 0>> \in OwnersOf(b)
    BY <2>1 DEF OwnersOf, Owners
  <2> QED  BY <2>2
<1>6. CASE p = "coe"
  <2>1. mb.pCoeSendStored.buf = b
    BY <1>1, <1>6 DEF Held, Buf
  <2>2. <<"pCoeSendStored", 0>> \in OwnersOf(b)
    BY <2>1 DEF OwnersOf, Owners
  <2> QED  BY <2>2
<1>7. CASE p = "recv"
  <2>1. PICK i \in DOMAIN mb.recvQ : mb.recvQ[i].buf = b
    BY <1>1, <1>7 DEF Held, QBufs
  <2>2. <<"recvQ", i>> \in OwnersOf(b)
    BY <2>1 DEF OwnersOf
  <2> QED  BY <2>2
<1>8. CASE p = "send"
  <2>1. PICK i \in DOMAIN mb.sendQ : mb.sendQ[i].buf = b
    BY <1>1, <1>8 DEF Held, QBufs
  <2>2. <<"sendQ", i>> \in OwnersOf(b)
    BY <2>1 DEF OwnersOf
  <2> QED  BY <2>2
<1>9. p # "flight"
  BY <1>1 DEF Held
<1> QED  BY <1>1, <1>2, <1>3, <1>4, <1>5, <1>6, <1>7, <1>8, <1>9 DEF Places

\* How many owners a buffer has.
LEMMA OwnersCounted ==
  ASSUME Sound(mb, {}), NEW b \in 1..Pool
  PROVE  Cardinality(OwnersOf(b)) = IF b \in AllOf(Held(mb, {})) THEN 1 ELSE 0
<1>1. CASE b \in AllOf(Held(mb, {}))
  <2>1. PICK o : o \in OwnersOf(b)
    BY <1>1, HeldHasOwner
  <2>2. OwnersOf(b) = {o}
    BY <2>1, OneOwner
  <2> QED  BY <1>1, <2>2, FS_Singleton
<1>2. CASE b \notin AllOf(Held(mb, {}))
  <2>1. \A f \in DOMAIN Where : Where[f] \in Places
    BY DEF Where, Places
  <2>2. OwnersOf(b) = {}
    BY <1>2, <2>1, OwnerHolds DEF AllOf
  <2> QED  BY <1>2, <2>2, FS_EmptySet
<1> QED  BY <1>1, <1>2

\* A buffer never has two owners, and none once it was freed, however short the
\* queue is, whatever is repeated, lost or refused for want of memory.
NoBufferTwice ==
  \A b \in 1..Pool : Cardinality(OwnersOf(b)) <= IF b \in mb.heap \ mb.unfreed THEN 1 ELSE 0

THEOREM BuffersNeverShared == Spec => []NoBufferTwice
<1>1. IInv => NoBufferTwice
  <2> SUFFICES ASSUME IInv, NEW b \in 1..Pool
               PROVE  Cardinality(OwnersOf(b)) <= IF b \in mb.heap \ mb.unfreed THEN 1 ELSE 0
    BY DEF NoBufferTwice
  <2>1. Cardinality(OwnersOf(b)) = IF b \in AllOf(Held(mb, {})) THEN 1 ELSE 0
    BY OwnersCounted DEF IInv
  <2>2. b \in AllOf(Held(mb, {})) => b \in mb.heap \ mb.unfreed
    BY DEF IInv, Sound, Ownership, Usable
  <2> QED  BY <2>1, <2>2
<1> QED  BY <1>1, Invariance, PTL

THEOREM DeepInvariance ==
  ASSUME DeepQueue
  PROVE  Spec => []DInv
<1>1. Init => DInv
  BY InitInv
<1>2. DInv /\ [Next]_vars => DInv'
  BY NextInv DEF DInv
<1> QED  BY <1>1, <1>2, PTL DEF Spec

\* With a queue deep enough for an object list every buffer that was allocated
\* has exactly one owner: none is lost, whatever the master does (but those of
\* FoE mails).
THEOREM BuffersAreOwned ==
  ASSUME DeepQueue
  PROVE  Spec => []BuffersHaveOneOwner
<1>1. DInv => BuffersHaveOneOwner
  <2> SUFFICES ASSUME DInv, NEW b \in 1..Pool
               PROVE  Cardinality(OwnersOf(b)) = IF b \in mb.heap \ mb.unfreed THEN 1 ELSE 0
    BY DEF BuffersHaveOneOwner
  <2>1. Cardinality(OwnersOf(b)) = IF b \in AllOf(Held(mb, {})) THEN 1 ELSE 0
    BY OwnersCounted DEF DInv, IInv
  <2>2. b \in AllOf(Held(mb, {})) <=> b \in mb.heap \ mb.unfreed
    BY DEF DInv, IInv, Sound, Ownership, Tight, Whole, Usable
  <2> QED  BY <2>1, <2>2
<1> QED  BY <1>1, DeepInvariance, PTL

\* With such a queue no reply is put aside in pCoeSendStored and no error reply
\* is dropped, however often the master repeats a request, asks for a reply again
\* or leaves the replies unread.
THEOREM RepliesFit ==
  ASSUME DeepQueue
  PROVE  Spec => []NoReplyStored
<1>1. DInv => NoReplyStored
  <2>1. DInv => mb \in MbType /\ Bounded(mb)
    BY DEF DInv, IInv, Sound, Tight
  <2> QED  BY <2>1, BoundedHasRoom DEF NoReplyStored, Bounded
<1> QED  BY <1>1, DeepInvariance, PTL
===============================================================================
