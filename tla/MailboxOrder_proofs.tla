-------------------------- MODULE MailboxOrder_proofs --------------------------
(***************************************************************************)
(* Proof that Mailbox implements MailQueue: to the master the mailbox is a  *)
(* queue, whatever is lost, repeated, dropped or stopped, for every queue,  *)
(* heap and list and every number of counters from 3.                       *)
(*                                                                         *)
(* The slave keeps the replies in a chain: the one to repeat, the one in    *)
(* the send mailbox, the one taken back, the queue.  A step of the slave    *)
(* leaves the chain alone, appends one reply, or gives up the first one, or *)
(* both; what has to be shown is that a reply given up was accepted, and    *)
(* that the master can tell every other reply in the chain from its last.   *)
(***************************************************************************)
EXTENDS Mailbox_proofs

\* The replies that m has, as Replies.
Chain(m) == IfMail(m.psRepeatMbx)
            \o (IF m.bSendMbxIsFull THEN <<m.psReadMbx>> ELSE <<>>)
            \o IfMail(m.psStoreMbx) \o m.sendQ

\* The counter after c, and that of the next reply.
After(c)    == IF c = Counters THEN 1 ELSE c + 1
Upcoming(m) == IF m.u8MbxReadCounter = 0 THEN 1 ELSE m.u8MbxReadCounter

\* The replies of R are numbered one after the other, the next one gets c.
Numbered(R, c) ==
  /\ \A i \in 1..Len(R) : R[i].cnt \in 1..Counters
  /\ \A i \in 1..(Len(R) - 1) : R[i + 1].cnt = After(R[i].cnt)
  /\ R # <<>> => c = After(R[Len(R)].cnt)

\* The part of R after g, when g is one of its first two (as Undelivered).
Rest(R, g) ==
  CASE Len(R) >= 2 /\ R[2] = g -> SubSeq(R, 3, Len(R))
    [] Len(R) >= 1 /\ R[1] = g -> Tail(R)
    [] OTHER                   -> R
-------------------------------------------------------------------------------
(* Numbered replies.                                                         *)

\* Three counters tell a reply from the two before it.
LEMMA AfterDiffers ==
  ASSUME NEW c \in 0..Counters
  PROVE  /\ After(c) \in 1..Counters /\ After(c) # c /\ After(After(c)) # c
         /\ After(0) = 1
BY SizesAssumption DEF After

LEMMA NumberedAppend ==
  ASSUME NEW R \in Seq(Mails), NEW x \in Mails, NEW c \in 1..Counters,
         Numbered(R, c), x.cnt = c
  PROVE  Append(R, x) \in Seq(Mails) /\ Numbered(Append(R, x), After(c))
<1> DEFINE S == Append(R, x)
<1>1. /\ S \in Seq(Mails) /\ Len(S) = Len(R) + 1 /\ Len(R) \in Nat
      /\ \A i \in 1..Len(R) : S[i] = R[i]
      /\ S[Len(R) + 1] = x /\ S # <<>>
  <2>1. Len(R) \in Nat
    BY LenProperties
  <2> QED  BY <2>1, AppendProperties
<1> HIDE DEF S
<1>2. \A i \in 1..Len(S) : S[i].cnt \in 1..Counters
  BY <1>1 DEF Numbered
<1>3. \A i \in 1..(Len(S) - 1) : S[i + 1].cnt = After(S[i].cnt)
  <2> SUFFICES ASSUME NEW i \in 1..(Len(S) - 1)
               PROVE  S[i + 1].cnt = After(S[i].cnt)
    OBVIOUS
  <2>1. i \in 1..Len(R) /\ S[i] = R[i]
    BY <1>1
  <2>2. CASE i = Len(R)
    <3>1. R # <<>>
      BY <2>1, EmptySeq
    <3> QED  BY <1>1, <2>1, <2>2, <3>1 DEF Numbered
  <2>3. CASE i # Len(R)
    <3>1. i \in 1..(Len(R) - 1) /\ i + 1 \in 1..Len(R)
      BY <1>1, <2>1, <2>3
    <3> QED  BY <1>1, <2>1, <3>1 DEF Numbered
  <2> QED  BY <2>2, <2>3
<1>4. S[Len(S)] = x
  BY <1>1
<1> QED  BY <1>1, <1>2, <1>3, <1>4 DEF Numbered, S

LEMMA NumberedTail ==
  ASSUME NEW R \in Seq(Mails), NEW c, Numbered(R, c), Len(R) >= 2
  PROVE  Tail(R) \in Seq(Mails) /\ Numbered(Tail(R), c) /\ Tail(R)[1] = R[2]
         /\ Len(Tail(R)) = Len(R) - 1
<1> DEFINE T == Tail(R)
<1>1. R # <<>> /\ Len(R) \in Nat
  BY EmptySeq, LenProperties
<1>2. /\ T \in Seq(Mails) /\ Len(T) = Len(R) - 1
      /\ \A i \in 1..Len(T) : T[i] = R[i + 1]
  BY <1>1, HeadTailProperties
<1> HIDE DEF T
<1>3. T[1] = R[2] /\ T[Len(T)] = R[Len(R)]
  BY <1>1, <1>2
<1>4. \A i \in 1..Len(T) : T[i].cnt \in 1..Counters
  <2> SUFFICES ASSUME NEW i \in 1..Len(T) PROVE T[i].cnt \in 1..Counters
    OBVIOUS
  <2>1. i + 1 \in 1..Len(R) /\ T[i] = R[i + 1]
    BY <1>1, <1>2
  <2> QED  BY <2>1 DEF Numbered
<1>5. \A i \in 1..(Len(T) - 1) : T[i + 1].cnt = After(T[i].cnt)
  <2> SUFFICES ASSUME NEW i \in 1..(Len(T) - 1) PROVE T[i + 1].cnt = After(T[i].cnt)
    OBVIOUS
  <2>1. /\ i + 1 \in 1..(Len(R) - 1) /\ T[i] = R[i + 1] /\ T[i + 1] = R[(i + 1) + 1]
    BY <1>1, <1>2
  <2> QED  BY <2>1 DEF Numbered
<1> QED  BY <1>1, <1>2, <1>3, <1>4, <1>5 DEF Numbered, T
-------------------------------------------------------------------------------
(* What is left of the chain for the master that accepted g last.             *)

\* g was accepted before the first reply of R was sent.
Before(g, R) == R # <<>> => After(g.cnt) = R[1].cnt

LEMMA RestNew ==
  ASSUME NEW R \in Seq(Mails), NEW c, Numbered(R, c), NEW g \in Mails, Before(g, R)
  PROVE  Rest(R, g) = R
<1>1. Len(R) \in Nat /\ (R = <<>> => Len(R) = 0) /\ (Len(R) = 0 => R = <<>>)
  BY EmptySeq, LenProperties
<1>2. g.cnt \in 0..Counters
  BY DEF Mails
<1>3. Len(R) >= 1 => R[1] # g
  BY <1>1, <1>2, AfterDiffers DEF Before
<1>4. Len(R) >= 2 => R[2] # g
  <2> SUFFICES ASSUME Len(R) >= 2 PROVE R[2] # g
    OBVIOUS
  <2>1. R[1 + 1].cnt = After(R[1].cnt)
    BY <1>1 DEF Numbered
  <2>2. R[2].cnt = After(After(g.cnt))
    BY <1>1, <2>1 DEF Before
  <2> QED  BY <1>2, <2>2, AfterDiffers
<1> QED  BY <1>3, <1>4 DEF Rest

\* The first two replies differ.
LEMMA FirstTwoDiffer ==
  ASSUME NEW R \in Seq(Mails), NEW c, Numbered(R, c), Len(R) >= 2
  PROVE  R[1] # R[2] /\ R[1] \in Mails /\ R[2] \in Mails
<1>1. Len(R) \in Nat
  BY LenProperties
<1>2. R[1 + 1].cnt = After(R[1].cnt) /\ R[1].cnt \in 1..Counters
  BY <1>1 DEF Numbered
<1>3. R[1] # R[2]
  BY <1>2, AfterDiffers
<1> QED  BY <1>1, <1>3, ElementOfSeq

LEMMA RestFirst ==
  ASSUME NEW R \in Seq(Mails), NEW c, Numbered(R, c), R # <<>>
  PROVE  Rest(R, R[1]) = Tail(R)
<1>1. Len(R) \in Nat /\ Len(R) >= 1
  BY EmptySeq, LenProperties
<1>2. Len(R) >= 2 => R[2] # R[1]
  BY FirstTwoDiffer
<1> QED  BY <1>1, <1>2 DEF Rest

LEMMA NotEmpty ==
  ASSUME NEW T \in Seq(Mails), Len(T) # 0
  PROVE  T # <<>>
BY EmptySeq

LEMMA LongTail ==
  ASSUME NEW R \in Seq(Mails), Len(R) >= 2
  PROVE  /\ R # <<>> /\ Tail(R) \in Seq(Mails) /\ Tail(R) # <<>>
         /\ Len(R) \in Nat /\ Len(Tail(R)) = Len(R) - 1
<1> DEFINE T == Tail(R)
<1>1. R # <<>> /\ Len(R) \in Nat
  BY EmptySeq, LenProperties
<1>2. T \in Seq(Mails) /\ Len(T) = Len(R) - 1
  BY <1>1, HeadTailProperties
<1> HIDE DEF T
<1>3. T # <<>>
  BY <1>1, <1>2, NotEmpty
<1> QED  BY <1>1, <1>2, <1>3 DEF T

LEMMA RestSecond ==
  ASSUME NEW R \in Seq(Mails), NEW c, Numbered(R, c), Len(R) >= 2
  PROVE  Rest(R, R[2]) = Tail(Tail(R))
<1> DEFINE S == SubSeq(R, 3, Len(R))
           T == Tail(Tail(R))
<1>1. R # <<>> /\ Len(R) \in Nat
  BY EmptySeq, LenProperties
<1>2. /\ Tail(R) \in Seq(Mails) /\ Len(Tail(R)) = Len(R) - 1
      /\ \A i \in 1..(Len(R) - 1) : Tail(R)[i] = R[i + 1]
  BY <1>1, HeadTailProperties
<1>3. Tail(R) # <<>>
  BY LongTail
<1>4. /\ T \in Seq(Mails) /\ Len(T) = Len(R) - 2
      /\ \A i \in 1..(Len(R) - 2) : T[i] = Tail(R)[i + 1]
  BY <1>1, <1>2, <1>3, HeadTailProperties
<1>5. /\ S \in Seq(Mails) /\ Len(S) = Len(R) - 2
      /\ \A i \in 1..(Len(R) - 2) : S[i] = R[3 + i - 1]
  <2>1. \A i \in 3..Len(R) : R[i] \in Mails
    BY <1>1, ElementOfSeq
  <2>2. /\ S \in Seq(Mails) /\ Len(S) = IF 3 <= Len(R) THEN Len(R) - 3 + 1 ELSE 0
        /\ \A i \in 1..(Len(R) - 3 + 1) : S[i] = R[3 + i - 1]
    BY <1>1, <2>1, SubSeqProperties
  <2>3. Len(R) - 3 + 1 = Len(R) - 2
    BY <1>1
  <2> QED  BY <1>1, <2>2, <2>3
<1> HIDE DEF S, T
<1>6. \A i \in 1..Len(S) : S[i] = T[i]
  <2> SUFFICES ASSUME NEW i \in 1..(Len(R) - 2) PROVE S[i] = T[i]
    BY <1>5
  <2>1. i + 1 \in 1..(Len(R) - 1) /\ 3 + i - 1 = (i + 1) + 1
    BY <1>1
  <2> QED  BY <1>2, <1>4, <1>5, <2>1
<1>7. S = T
  BY <1>4, <1>5, <1>6, SeqEqual
<1> QED  BY <1>7, FirstTwoDiffer DEF Rest, S, T

\* The reply accepted last is before the chain or one of its first two.
Accepted(g, R) == Before(g, R) \/ (R # <<>> /\ g = R[1]) \/ (Len(R) >= 2 /\ g = R[2])

LEMMA RestType ==
  ASSUME NEW R \in Seq(Mails), NEW c, Numbered(R, c), NEW g \in Mails, Accepted(g, R)
  PROVE  Rest(R, g) \in Seq(Mails)
<1>1. CASE Before(g, R)
  BY <1>1, RestNew
<1>2. CASE R # <<>> /\ g = R[1]
  BY <1>2, RestFirst, HeadTailProperties
<1>3. CASE Len(R) >= 2 /\ g = R[2]
  <2>1. Tail(R) \in Seq(Mails) /\ Tail(R) # <<>>
    BY <1>3, LongTail
  <2> QED  BY <1>3, <2>1, RestSecond, HeadTailProperties
<1> QED  BY <1>1, <1>2, <1>3 DEF Accepted

\* A reply that is appended to the chain is appended to what is left of it.
LEMMA RestAppend ==
  ASSUME NEW R \in Seq(Mails), NEW c \in 1..Counters, Numbered(R, c), NEW g \in Mails,
         Accepted(g, R), NEW x \in Mails, x.cnt = c, R = <<>> => After(g.cnt) = c
  PROVE  Rest(Append(R, x), g) = Append(Rest(R, g), x) /\ Accepted(g, Append(R, x))
<1> DEFINE S == Append(R, x)
<1>1. /\ S \in Seq(Mails) /\ Len(S) = Len(R) + 1 /\ Len(R) \in Nat /\ S # <<>>
      /\ \A i \in 1..Len(R) : S[i] = R[i]
      /\ S[Len(R) + 1] = x
  BY AppendProperties, LenProperties
<1>2. Numbered(S, After(c))
  BY NumberedAppend
<1>3. Tail(S) = IF R = <<>> THEN <<>> ELSE Append(Tail(R), x)
  BY HeadTailAppend
<1> HIDE DEF S
<1>4. CASE Before(g, R)
  <2>1. Before(g, S)
    <3>1. CASE R = <<>>
      BY <1>1, <3>1, EmptySeq DEF Before
    <3>2. CASE R # <<>>
      <4>1. 1 \in 1..Len(R)
        BY <1>1, <3>2, EmptySeq
      <4> QED  BY <1>1, <1>4, <3>2, <4>1 DEF Before
    <3> QED  BY <3>1, <3>2
  <2> QED  BY <1>1, <1>2, <1>4, <2>1, RestNew DEF Accepted, S
<1>5. CASE R # <<>> /\ g = R[1]
  <2>1. 1 \in 1..Len(R)
    BY <1>1, <1>5, EmptySeq
  <2>2. S[1] = g
    BY <1>1, <1>5, <2>1
  <2> QED  BY <1>1, <1>2, <1>3, <1>5, <2>2, RestFirst DEF Accepted, S
<1>6. CASE Len(R) >= 2 /\ g = R[2]
  <2>1. R # <<>> /\ 2 \in 1..Len(R) /\ Len(S) >= 2
    BY <1>1, <1>6, EmptySeq
  <2>2. S[2] = g /\ Tail(R) # <<>> /\ Tail(R) \in Seq(Mails)
    BY <1>1, <1>6, <2>1, LongTail
  <2>3. Rest(S, g) = Tail(Append(Tail(R), x))
    BY <1>1, <1>2, <1>3, <2>1, <2>2, RestSecond
  <2>4. Tail(Append(Tail(R), x)) = Append(Tail(Tail(R)), x)
    BY <2>2, HeadTailAppend
  <2>5. Rest(R, g) = Tail(Tail(R))
    BY <1>6, RestSecond
  <2> QED  BY <2>1, <2>2, <2>3, <2>4, <2>5 DEF Accepted, S
<1> QED  BY <1>4, <1>5, <1>6 DEF Accepted

\* A first reply that was accepted leaves the chain, and nothing else changes.
LEMMA RestTail ==
  ASSUME NEW R \in Seq(Mails), NEW c, Numbered(R, c), Len(R) >= 2, NEW g \in {R[1], R[2]}
  PROVE  Rest(Tail(R), g) = Rest(R, g) /\ (g = R[1] => Before(g, Tail(R)))
<1> DEFINE T == Tail(R)
<1>1. /\ T \in Seq(Mails) /\ Numbered(T, c) /\ T[1] = R[2] /\ Len(T) = Len(R) - 1
      /\ R # <<>> /\ Len(R) \in Nat
  BY NumberedTail, EmptySeq, LenProperties
<1>2. T # <<>>
  BY LongTail
<1>3. R[1] \in Mails
  BY FirstTwoDiffer
<1> HIDE DEF T
<1>4. CASE g = R[1]
  <2>1. R[1 + 1].cnt = After(R[1].cnt)
    BY <1>1 DEF Numbered
  <2>2. Before(g, T)
    BY <1>1, <1>4, <2>1 DEF Before
  <2> QED  BY <1>1, <1>3, <1>4, <2>2, RestNew, RestFirst DEF T
<1>5. CASE g = R[2] /\ g # R[1]
  <2>1. Rest(T, g) = Tail(T)
    BY <1>1, <1>2, <1>5, RestFirst
  <2> QED  BY <1>5, <2>1, RestSecond DEF T
<1> QED  BY <1>4, <1>5
-------------------------------------------------------------------------------
(* The forms of the chain.                                                    *)

LEMMA Cons ==
  ASSUME NEW q \in Seq(Mails), NEW x \in Mails
  PROVE  /\ <<x>> \o q \in Seq(Mails) /\ <<x>> \o q # <<>> /\ Len(<<x>> \o q) = 1 + Len(q)
         /\ (<<x>> \o q)[1] = x /\ Head(<<x>> \o q) = x /\ Tail(<<x>> \o q) = q
         /\ \A i \in 1..Len(q) : (<<x>> \o q)[i + 1] = q[i]
<1> DEFINE s == <<x>>
           t == s \o q
<1>1. s \in Seq(Mails) /\ Len(s) = 1 /\ s[1] = x
  OBVIOUS
<1>2. Len(q) \in Nat
  BY LenProperties
<1> HIDE DEF s
<1>3. /\ t \in Seq(Mails) /\ Len(t) = 1 + Len(q)
      /\ \A i \in 1..(1 + Len(q)) : t[i] = IF i <= 1 THEN s[i] ELSE q[i - 1]
  BY <1>1, ConcatProperties, SMTT(20)
<1> HIDE DEF t
<1>4. 1 \in 1..(1 + Len(q)) /\ t[1] = x
  BY <1>1, <1>2, <1>3
<1>5. \A i \in 1..Len(q) : t[i + 1] = q[i]
  <2> SUFFICES ASSUME NEW i \in 1..Len(q) PROVE t[i + 1] = q[i]
    OBVIOUS
  <2>1. i + 1 \in 1..(1 + Len(q)) /\ ~(i + 1 <= 1) /\ (i + 1) - 1 = i
    BY <1>2
  <2> QED  BY <1>3, <2>1
<1>6. t # <<>>
  BY <1>2, <1>3, EmptySeq
<1>7. /\ Tail(t) \in Seq(Mails) /\ Len(Tail(t)) = Len(q)
      /\ \A i \in 1..Len(q) : Tail(t)[i] = t[i + 1]
  BY <1>2, <1>3, <1>6, HeadTailProperties
<1>8. Tail(t) = q
  <2> DEFINE u == Tail(t)
  <2> HIDE DEF u
  <2>1. u \in Seq(Mails) /\ Len(u) = Len(q) /\ \A i \in 1..Len(q) : u[i] = q[i]
    BY <1>5, <1>7 DEF u
  <2> QED  BY <2>1, SeqEqual DEF u
<1>9. Head(t) = t[1]
  BY <1>3, <1>6
<1> QED  BY <1>3, <1>4, <1>5, <1>6, <1>8, <1>9 DEF t, s

LEMMA ConsAppend ==
  ASSUME NEW q \in Seq(Mails), NEW x \in Mails, NEW y \in Mails
  PROVE  Append(<<x>> \o q, y) = <<x>> \o Append(q, y)
<1>1. <<x>> \in Seq(Mails) /\ <<y>> \in Seq(Mails)
  OBVIOUS
<1>2. (<<x>> \o q) \o <<y>> = <<x>> \o (q \o <<y>>)
  BY <1>1, ConcatAssociative
<1>3. <<x>> \o q \in Seq(Mails)
  BY Cons
<1> QED  BY <1>2, <1>3, AppendIsConcat

\* The chain, where it starts with the reply to repeat, and where it does not.
LEMMA ChainForms ==
  ASSUME NEW m \in MbType, Shape(m)
  PROVE  /\ Chain(m) \in Seq(Mails) /\ m.sendQ \in Seq(Mails)
         /\ IfMail(m.psStoreMbx) \o m.sendQ \in Seq(Mails)
         /\ m.psReadMbx \in Mails /\ m.psRepeatMbx \in Mails /\ m.psStoreMbx \in Mails
         /\ ~m.bSendMbxIsFull => Chain(m) = IfMail(m.psRepeatMbx)
         /\ m.bSendMbxIsFull /\ m.psRepeatMbx # NoMail =>
              /\ m.psStoreMbx = NoMail
              /\ Chain(m) = <<m.psRepeatMbx>> \o (<<m.psReadMbx>> \o m.sendQ)
         /\ m.bSendMbxIsFull /\ m.psRepeatMbx = NoMail =>
              Chain(m) = <<m.psReadMbx>> \o (IfMail(m.psStoreMbx) \o m.sendQ)
<1> DEFINE a == IfMail(m.psRepeatMbx)
           b == IF m.bSendMbxIsFull THEN <<m.psReadMbx>> ELSE <<>>
           c == IfMail(m.psStoreMbx)
           q == m.sendQ
<1>1. /\ m.sendQ \in Seq(Mails) /\ m.psReadMbx \in Mails /\ m.psRepeatMbx \in Mails
      /\ m.psStoreMbx \in Mails
  BY DEF MbType
<1>2. a \in Seq(Mails) /\ b \in Seq(Mails) /\ c \in Seq(Mails) /\ q \in Seq(Mails)
  BY <1>1 DEF IfMail
<1>3. Chain(m) = ((a \o b) \o c) \o q
  BY DEF Chain
<1>4. /\ a = IF m.psRepeatMbx = NoMail THEN <<>> ELSE <<m.psRepeatMbx>>
      /\ b = IF m.bSendMbxIsFull THEN <<m.psReadMbx>> ELSE <<>>
      /\ c = IF m.psStoreMbx = NoMail THEN <<>> ELSE <<m.psStoreMbx>>
  BY DEF IfMail
<1> HIDE DEF a, b, c, q
<1>5. a \o b \in Seq(Mails) /\ (a \o b) \o c \in Seq(Mails) /\ c \o q \in Seq(Mails)
      /\ ((a \o b) \o c) \o q \in Seq(Mails)
  <2>1. a \o b \in Seq(Mails) /\ c \o q \in Seq(Mails)
    BY <1>2, ConcatProperties
  <2>2. (a \o b) \o c \in Seq(Mails)
    BY <1>2, <2>1, ConcatProperties
  <2>3. ((a \o b) \o c) \o q \in Seq(Mails)
    BY <1>2, <2>2, ConcatProperties
  <2> QED  BY <2>1, <2>2, <2>3
<1>6. Chain(m) = (a \o b) \o (c \o q)
  <2> DEFINE d == a \o b
  <2>1. d \in Seq(Mails)
    BY <1>5
  <2>2. Chain(m) = (d \o c) \o q
    BY <1>3
  <2> HIDE DEF d
  <2>3. Chain(m) = d \o (c \o q)
    BY <1>2, <2>1, <2>2, ConcatAssociative, SMTT(20)
  <2> QED  BY <2>3 DEF d
<1>7. Chain(m) = a \o (b \o (c \o q))
  <2> DEFINE d == c \o q
  <2>1. d \in Seq(Mails) /\ Chain(m) = (a \o b) \o d
    BY <1>5, <1>6
  <2> HIDE DEF d
  <2>2. Chain(m) = a \o (b \o d)
    BY <1>2, <2>1, ConcatAssociative, SMTT(20)
  <2> QED  BY <2>2 DEF d
<1>8. ~m.bSendMbxIsFull => Chain(m) = a
  <2> SUFFICES ASSUME ~m.bSendMbxIsFull PROVE Chain(m) = a
    OBVIOUS
  <2>1. b = <<>> /\ c = <<>> /\ q = <<>>
    BY <1>4 DEF Shape, q
  <2> QED  BY <1>2, <1>7, <2>1, ConcatEmptySeq
<1>9. ASSUME m.bSendMbxIsFull, m.psRepeatMbx # NoMail
      PROVE  /\ m.psStoreMbx = NoMail
             /\ Chain(m) = <<m.psRepeatMbx>> \o (<<m.psReadMbx>> \o m.sendQ)
  <2>1. m.psStoreMbx = NoMail
    BY <1>9 DEF Shape
  <2>2. c \o q = q
    BY <1>2, <1>4, <2>1, ConcatEmptySeq
  <2> QED  BY <1>4, <1>7, <1>9, <2>1, <2>2 DEF q
<1>10. ASSUME m.bSendMbxIsFull, m.psRepeatMbx = NoMail
       PROVE  Chain(m) = <<m.psReadMbx>> \o (IfMail(m.psStoreMbx) \o m.sendQ)
  <2>1. a = <<>> /\ b \in Seq(Mails) /\ b \o (c \o q) \in Seq(Mails)
    BY <1>2, <1>4, <1>5, <1>10, ConcatProperties
  <2>2. Chain(m) = b \o (c \o q)
    BY <1>7, <2>1, ConcatEmptySeq
  <2> QED  BY <1>4, <1>10, <2>2 DEF c, q
<1>11. Chain(m) \in Seq(Mails) /\ IfMail(m.psStoreMbx) \o m.sendQ \in Seq(Mails)
  BY <1>3, <1>5 DEF c, q
<1>12. ~m.bSendMbxIsFull => Chain(m) = IfMail(m.psRepeatMbx)
  BY <1>8 DEF a
<1> QED  BY <1>1, <1>9, <1>10, <1>11, <1>12
-------------------------------------------------------------------------------
(* Sending appends to the chain, whoever sends.                                *)

\* What the chain, its numbering and the link are made of.
Chained == {"running", "psRepeatMbx", "psReadMbx", "psStoreMbx", "sendQ", "bSendMbxIsFull",
            "sm1", "u8MbxReadCounter", "bMbxRepeatToggle"}

\* One reply more, in the send mailbox or at the end of the queue.
Sends1(m, k) ==
  \E x \in Mails :
    /\ x.cnt = Upcoming(m) /\ k.u8MbxReadCounter = NextCounter(Upcoming(m))
    /\ k.bSendMbxIsFull
    /\ IF m.bSendMbxIsFull
       THEN k.sm1 = m.sm1 /\ k.psReadMbx = m.psReadMbx /\ k.sendQ = Append(m.sendQ, x)
       ELSE k.sm1 = x /\ k.psReadMbx = x /\ k.sendQ = m.sendQ

\* One reply more, or none.
Sends(m, k) ==
  /\ k \in MbType
  /\ Same(m, k, {"running", "psRepeatMbx", "psStoreMbx", "bMbxRepeatToggle"})
  /\ Same(m, k, Chained) \/ Sends1(m, k)

LEMMA SameSends ==
  ASSUME NEW m, NEW k \in MbType, Same(m, k, Chained)
  PROVE  Sends(m, k)
BY DEF Sends, Same, Chained

LEMMA ChainedFields ==
  ASSUME NEW m, NEW k, Same(m, k, Chained)
  PROVE  /\ k.running = m.running /\ k.psRepeatMbx = m.psRepeatMbx
         /\ k.psReadMbx = m.psReadMbx /\ k.psStoreMbx = m.psStoreMbx /\ k.sendQ = m.sendQ
         /\ k.bSendMbxIsFull = m.bSendMbxIsFull /\ k.sm1 = m.sm1
         /\ k.u8MbxReadCounter = m.u8MbxReadCounter
         /\ k.bMbxRepeatToggle = m.bMbxRepeatToggle
         /\ Chain(k) = Chain(m) /\ Upcoming(k) = Upcoming(m)
BY DEF Same, Chained, Chain, Upcoming

LEMMA SameThenSends ==
  ASSUME NEW m, NEW l, NEW k, Same(m, l, Chained), Sends(l, k)
  PROVE  Sends(m, k)
<1>1. Same(m, k, {"running", "psRepeatMbx", "psStoreMbx", "bMbxRepeatToggle"})
  BY ChainedFields DEF Sends, Same
<1>2. CASE Same(l, k, Chained)
  BY <1>1, <1>2 DEF Sends, Same
<1>3. CASE Sends1(l, k)
  BY <1>1, <1>3, ChainedFields DEF Sends, Sends1
<1> QED  BY <1>2, <1>3 DEF Sends

LEMMA SendsThenSame ==
  ASSUME NEW m, NEW l, NEW k \in MbType, Sends(m, l), Same(l, k, Chained)
  PROVE  Sends(m, k)
<1>1. Same(m, k, {"running", "psRepeatMbx", "psStoreMbx", "bMbxRepeatToggle"})
  BY ChainedFields DEF Sends, Same
<1>2. CASE Same(m, l, Chained)
  BY <1>1, <1>2 DEF Sends, Same
<1>3. CASE Sends1(m, l)
  BY <1>1, <1>3, ChainedFields DEF Sends, Sends1
<1> QED  BY <1>2, <1>3 DEF Sends

LEMMA MBX_MailboxSendReqAppends ==
  ASSUME NEW m \in MbType, NEW mail \in Mails, NEW coe \in BOOLEAN, NEW more \in BOOLEAN
  PROVE  Sends(m, MBX_MailboxSendReq(m, mail, coe, more).m)
<1> DEFINE cnt == Upcoming(m)
           new == [mail EXCEPT !.cnt = cnt]
           m1  == [m EXCEPT !.u8MbxReadCounter = NextCounter(cnt),
                            !.u8MailboxSendReqStored = @ \/ (coe /\ more)]
           r   == MBX_MailboxSendReq(m, mail, coe, more)
<1>1. cnt \in 0..Counters /\ NextCounter(cnt) \in 0..Counters
  <2>1. m.u8MbxReadCounter \in 0..Counters
    BY DEF MbType
  <2>2. cnt \in 0..Counters
    BY <2>1, SizesAssumption DEF Upcoming
  <2> QED  BY <2>2, NextCounterType
<1>2. new \in Mails /\ new.cnt = cnt
  BY <1>1 DEF Mails
<1>3. /\ m1 \in MbType /\ Same(m, m1, Chained \ {"u8MbxReadCounter"})
      /\ m1.u8MbxReadCounter = NextCounter(cnt)
  BY <1>1 DEF MbType, Same, Chained
<1>4. CASE ~m.running
  <2>1. r.m = m
    BY <1>4 DEF MBX_MailboxSendReq
  <2> QED  BY <2>1, SameSends DEF Same
<1>5. CASE m.running /\ ~m.bSendMbxIsFull
  <2> DEFINE k == MBX_CopyToSendMailbox(m1, new)
  <2>1. r.m = k
    BY <1>5 DEF MBX_MailboxSendReq, Upcoming
  <2> HIDE DEF new, m1, r, cnt
  <2>2. /\ k \in MbType /\ k.sm1 = new /\ k.psReadMbx = new /\ k.bSendMbxIsFull
        /\ Same(m1, k, Chained \ {"sm1", "psReadMbx", "bSendMbxIsFull"})
    BY <1>2, <1>3 DEF MBX_CopyToSendMailbox, MbType, Same, Chained
  <2> HIDE DEF k
  <2>3. /\ Same(m, k, {"running", "psRepeatMbx", "psStoreMbx", "bMbxRepeatToggle", "sendQ"})
        /\ k.u8MbxReadCounter = NextCounter(cnt) /\ k.sendQ = m.sendQ
    BY <1>3, <2>2 DEF Same, Chained
  <2>4. Sends1(m, k)
    BY <1>2, <1>5, <2>2, <2>3 DEF Sends1, cnt
  <2> QED  BY <2>1, <2>2, <2>3, <2>4 DEF Sends, Same, r
<1>6. CASE m.running /\ m.bSendMbxIsFull /\ ~QueueFull(m.sendQ)
  <2> DEFINE k == [m1 EXCEPT !.sendQ = Append(@, new)]
  <2>1. r.m = k
    BY <1>6 DEF MBX_MailboxSendReq, Upcoming
  <2>2. m.sendQ \in Seq(Mails) /\ m1.sendQ = m.sendQ
    BY DEF MbType
  <2>3. Append(m1.sendQ, new) \in Seq(Mails)
    BY <1>2, <2>2
  <2> HIDE DEF new, m1, r, cnt
  <2>4. /\ k \in MbType /\ k.sendQ = Append(m.sendQ, new)
        /\ Same(m1, k, Chained \ {"sendQ"})
    BY <1>2, <1>3, <2>2, <2>3 DEF MbType, Same, Chained
  <2> HIDE DEF k
  <2>5. /\ Same(m, k, {"running", "psRepeatMbx", "psStoreMbx", "bMbxRepeatToggle"})
        /\ k.u8MbxReadCounter = NextCounter(cnt) /\ k.bSendMbxIsFull = m.bSendMbxIsFull
        /\ k.sm1 = m.sm1 /\ k.psReadMbx = m.psReadMbx
    BY <1>3, <2>4 DEF Same, Chained
  <2>6. Sends1(m, k)
    BY <1>2, <1>6, <2>4, <2>5 DEF Sends1, cnt
  <2> QED  BY <2>1, <2>4, <2>5, <2>6 DEF Sends, r
<1>7. CASE m.running /\ m.bSendMbxIsFull /\ QueueFull(m.sendQ)
  <2> DEFINE k == [m EXCEPT !.u8MailboxSendReqStored = @ \/ coe]
  <2>1. r.m = k
    BY <1>7 DEF MBX_MailboxSendReq
  <2>2. k \in MbType /\ Same(m, k, Chained)
    BY DEF MbType, Same, Chained
  <2> QED  BY <2>1, <2>2, SameSends
<1> QED  BY <1>4, <1>5, <1>6, <1>7

LEMMA SendErrorAppends ==
  ASSUME NEW m \in MbType, NEW mail \in Mails
  PROVE  Sends(m, SendError(m, mail))
<1> DEFINE e == [mail EXCEPT !.what = "err", !.left = 0]
<1>1. e \in Mails
  BY MailFacts
<1> HIDE DEF e
<1>2. Sends(m, MBX_MailboxSendReq(m, e, FALSE, FALSE).m)
  BY <1>1, MBX_MailboxSendReqAppends
<1> QED  BY <1>2 DEF SendError, e

LEMMA SendCoeAppends ==
  ASSUME NEW m \in MbType, NEW mail \in Mails, NEW more \in BOOLEAN
  PROVE  Sends(m, SendCoe(m, mail, more))
<1> DEFINE r == MBX_MailboxSendReq(m, mail, TRUE, more)
           n == [r.m EXCEPT !.pCoeSendStored = mail]
<1>1. SendCoe(m, mail, more) = IF r.ok THEN r.m ELSE n
  BY DEF SendCoe
<1>2. Sends(m, r.m) /\ r.m \in MbType
  BY MBX_MailboxSendReqAppends DEF Sends
<1> HIDE DEF r
<1>3. n \in MbType /\ Same(r.m, n, Chained)
  BY <1>2 DEF MbType, Same, Chained
<1> HIDE DEF n
<1>4. Sends(m, n)
  BY <1>2, <1>3, SendsThenSame
<1> QED  BY <1>1, <1>2, <1>4

LEMMA SDOS_SdoInfoIndAppends ==
  ASSUME NEW m \in MbType, NEW mail \in Mails
  PROVE  Sends(m, SDOS_SdoInfoInd(m, mail))
<1> DEFINE n == NextLeft(m)
           l == [m EXCEPT !.nSdoInfoFragmentsLeft = n]
           f == [mail EXCEPT !.what = "frag", !.left = n]
<1>1. SDOS_SdoInfoInd(m, mail) = SendCoe(l, f, n > 0)
  BY DEF SDOS_SdoInfoInd, NextLeft
<1>2. n \in 0..Fragments
  BY LengthTypes
<1>3. f \in Mails
  BY <1>2, MailFacts
<1>4. l \in MbType /\ Same(m, l, Chained)
  <2> HIDE DEF n
  <2> QED  BY <1>2 DEF MbType, Same, Chained
<1>5. (n > 0) \in BOOLEAN
  OBVIOUS
<1> HIDE DEF l, f, n
<1>6. Sends(l, SendCoe(l, f, n > 0))
  BY <1>3, <1>4, <1>5, SendCoeAppends
<1> QED  BY <1>1, <1>4, <1>6, SameThenSends

LEMMA MailboxServiceIndAppends ==
  ASSUME NEW m \in MbType, NEW mail \in Mails, mail.buf \in 1..Pool
  PROVE  Sends(m, MailboxServiceInd(m, mail))
<1> DEFINE k == MailboxServiceInd(m, mail)
           w == [m EXCEPT !.pSdoResStored = mail]
           u == [m EXCEPT !.unfreed = @ \cup {mail.buf}]
<1>1. \/ k = SendError(m, mail)
      \/ k = SendCoe(m, mail, FALSE)
      \/ k = w
      \/ k = SDOS_SdoInfoInd(m, mail)
      \/ k = u
  BY DEF MailboxServiceInd
<1>2. w \in MbType /\ Same(m, w, Chained)
  BY DEF MbType, Same, Chained
<1>3. u \in MbType /\ Same(m, u, Chained)
  BY DEF MbType, Same, Chained
<1>4. Sends(m, w) /\ Sends(m, u)
  <2> HIDE DEF w, u
  <2> QED  BY <1>2, <1>3, SameSends
<1>5. /\ Sends(m, SendError(m, mail)) /\ Sends(m, SendCoe(m, mail, FALSE))
      /\ Sends(m, SDOS_SdoInfoInd(m, mail))
  BY SendErrorAppends, SendCoeAppends, SDOS_SdoInfoIndAppends
<1> HIDE DEF k, w, u
<1>6. Sends(m, k)
  BY <1>1, <1>4, <1>5
<1> QED  BY <1>6 DEF k

LEMMA COE_ContinueIndAppends ==
  ASSUME NEW m \in MbType, NEW ok \in BOOLEAN,
         m.pCoeSendStored = NoMail => (ok => m.heap # 1..Pool)
  PROVE  Sends(m, COE_ContinueInd(m, ok))
<1> DEFINE k == COE_ContinueInd(m, ok)
<1>1. CASE m.pCoeSendStored # NoMail
  <2> DEFINE mail == m.pCoeSendStored
             r    == MBX_MailboxSendReq(m, mail, TRUE, FALSE)
             n    == [r.m EXCEPT !.pCoeSendStored = NoMail]
  <2>1. k = IF r.ok THEN n ELSE r.m
    BY <1>1 DEF COE_ContinueInd
  <2>2. mail \in Mails /\ NoMail \in Mails
    BY Zeros DEF MbType
  <2>3. Sends(m, r.m) /\ r.m \in MbType
    BY <2>2, MBX_MailboxSendReqAppends DEF Sends
  <2> HIDE DEF r, k
  <2>4. n \in MbType /\ Same(r.m, n, Chained)
    BY <2>2, <2>3 DEF MbType, Same, Chained
  <2> HIDE DEF n
  <2>5. Sends(m, n)
    BY <2>3, <2>4, SendsThenSame
  <2>6. Sends(m, k)
    BY <2>1, <2>3, <2>5
  <2> QED  BY <2>6 DEF k
<1>2. CASE m.pCoeSendStored = NoMail /\ ~ok
  <2> DEFINE n == [m EXCEPT !.u8MailboxSendReqStored = TRUE]
  <2>1. k = n
    BY <1>2 DEF COE_ContinueInd
  <2>2. n \in MbType /\ Same(m, n, Chained)
    BY DEF MbType, Same, Chained
  <2> QED  BY <2>1, <2>2, SameSends
<1>3. CASE m.pCoeSendStored = NoMail /\ ok
  <2> DEFINE b    == NewBuffer(m)
             l    == [m EXCEPT !.heap = @ \cup {b}]
             mail == [NoMail EXCEPT !.buf = b]
  <2>1. k = SDOS_SdoInfoInd(l, mail)
    BY <1>3 DEF COE_ContinueInd
  <2>2. b \in 1..Pool /\ b \notin m.heap
    BY <1>3, NewBufferIsFree
  <2> HIDE DEF b
  <2>3. mail \in Mails
    <3>1. b \in 0..Pool
      BY <2>2
    <3> QED  BY <3>1, MailFacts
  <2>4. l \in MbType /\ Same(m, l, Chained)
    BY <2>2 DEF MbType, Same, Chained
  <2> HIDE DEF l, mail, k
  <2>5. Sends(l, k)
    BY <2>1, <2>3, <2>4, SDOS_SdoInfoIndAppends
  <2>6. Sends(m, k)
    BY <2>4, <2>5, SameThenSends
  <2> QED  BY <2>6 DEF k
<1> QED  BY <1>1, <1>2, <1>3

LEMMA MBX_MailboxWriteIndAppends ==
  ASSUME NEW m \in MbType, NEW mail \in Mails
  PROVE  Sends(m, MBX_MailboxWriteInd(m, mail))
<1> DEFINE k == MBX_MailboxWriteInd(m, mail)
           l == [m EXCEPT !.u8MbxWriteCounter = mail.cnt]
           f == Free(m, mail)
           a == [l EXCEPT !.recvQ = Append(@, mail)]
<1>1. \/ k = SendError(m, mail) \/ k = f
      \/ k = SendError(l, mail) \/ k = a
  BY DEF MBX_MailboxWriteInd
<1>2. mail.cnt \in 0..Counters /\ m.recvQ \in Seq(Mails)
  BY DEF Mails, MbType
<1>3. l \in MbType /\ Same(m, l, Chained) /\ l.recvQ = m.recvQ
  BY <1>2 DEF MbType, Same, Chained
<1>4. f \in MbType /\ Same(m, f, Chained)
  BY DEF Free, MbType, Same, Chained
<1>5. Append(m.recvQ, mail) \in Seq(Mails)
  BY <1>2
<1> HIDE DEF l, f, k
<1>6. a \in MbType /\ Same(l, a, Chained)
  BY <1>3, <1>5 DEF MbType, Same, Chained
<1> HIDE DEF a
<1>7. Sends(m, f) /\ Sends(l, a)
  BY <1>4, <1>6, SameSends
<1>8. Sends(m, SendError(m, mail)) /\ Sends(l, SendError(l, mail))
  BY <1>3, SendErrorAppends
<1>9. Sends(m, SendError(l, mail)) /\ Sends(m, a)
  BY <1>3, <1>7, <1>8, SameThenSends
<1>10. Sends(m, k)
  BY <1>1, <1>7, <1>8, <1>9
<1> QED  BY <1>10 DEF k

LEMMA MBX_CheckAndCopyMailboxAppends ==
  ASSUME NEW m \in MbType, NEW ok \in BOOLEAN, ok => ReceiveBlocked(m) \/ m.heap # 1..Pool
  PROVE  Sends(m, MBX_CheckAndCopyMailbox(m, ok))
<1> DEFINE b    == NewBuffer(m)
           l    == Take(m, b)
           n    == Refuse(m)
           mail == [m.sm0 EXCEPT !.buf = b]
           k    == MBX_CheckAndCopyMailbox(m, ok)
<1>1. CASE ReceiveBlocked(m) \/ ~ok
  <2>1. k = n
    BY <1>1 DEF MBX_CheckAndCopyMailbox
  <2>2. n \in MbType /\ Same(m, n, Chained)
    BY DEF Refuse, MbType, Same, Chained
  <2> HIDE DEF n
  <2> QED  BY <2>1, <2>2, SameSends
<1>2. CASE ~ReceiveBlocked(m) /\ ok
  <2>1. k = MBX_MailboxWriteInd(l, mail)
    BY <1>2 DEF MBX_CheckAndCopyMailbox
  <2>2. b \in 1..Pool
    BY <1>2, NewBufferIsFree
  <2> HIDE DEF b
  <2>3. mail \in Mails /\ NoMail \in Mails
    <3>1. b \in 0..Pool /\ m.sm0 \in Mails
      BY <2>2 DEF MbType
    <3> QED  BY <3>1, MailFacts
  <2>4. l \in MbType /\ Same(m, l, Chained)
    BY <2>2, <2>3 DEF Take, MbType, Same, Chained
  <2> HIDE DEF l, mail, k
  <2>5. Sends(l, k)
    BY <2>1, <2>3, <2>4, MBX_MailboxWriteIndAppends
  <2>6. Sends(m, k)
    BY <2>4, <2>5, SameThenSends
  <2> QED  BY <2>6 DEF k
<1> QED  BY <1>1, <1>2

LEMMA CheckAndCopyAppends ==
  ASSUME mb \in MbType, CheckAndCopy
  PROVE  Sends(mb, mb')
<1>1. CASE ReceiveBlocked(mb)
  <2>1. mb' = MBX_CheckAndCopyMailbox(mb, TRUE)
    BY <1>1 DEF CheckAndCopy
  <2> QED  BY <1>1, <2>1, MBX_CheckAndCopyMailboxAppends
<1>2. CASE ~ReceiveBlocked(mb)
  <2>1. PICK ok \in BOOLEAN : Alloc(mb, ok) /\ mb' = MBX_CheckAndCopyMailbox(mb, ok)
    BY <1>2 DEF CheckAndCopy
  <2>2. ok => mb.heap # 1..Pool
    BY <2>1 DEF Alloc
  <2> QED  BY <2>1, <2>2, MBX_CheckAndCopyMailboxAppends
<1> QED  BY <1>1, <1>2

\* The steps that do nothing else to the chain.
SendingSteps == Serve \/ Main \/ WriteEvent \/ FinishSdo

LEMMA SendingStepsAppend ==
  ASSUME Sound(mb, {}), SendingSteps
  PROVE  Sends(mb, mb')
<1>1. mb \in MbType /\ Same(mb, mb, Chained) /\ NoMail \in Mails
  BY Zeros DEF Sound, Same
<1>2. Sends(mb, mb)
  BY <1>1, SameSends
<1>3. CASE Serve
  <2> DEFINE n    == [mb EXCEPT !.recvQ = Tail(@)]
             mail == Head(mb.recvQ)
  <2>1. /\ mb.recvQ # <<>>
        /\ \/ mb' = MailboxServiceInd(n, mail)
           \/ mb' = SendError(n, mail)
    BY <1>3 DEF Serve
  <2>2. mail \in Mails /\ mail.buf # 0 /\ Sound(n, {mail.buf})
    BY <2>1, PopSound
  <2>3. mail.buf \in 1..Pool
    <3>1. mail.buf \in 0..Pool /\ Pool \in Nat
      BY <2>2, SizesAssumption DEF Mails
    <3> QED  BY <2>2, <3>1
  <2>4. n \in MbType
    BY <2>2 DEF Sound
  <2>5. Same(mb, n, Chained)
    BY <1>1 DEF MbType, Same, Chained
  <2> HIDE DEF n, mail
  <2>6. Sends(n, MailboxServiceInd(n, mail)) /\ Sends(n, SendError(n, mail))
    BY <2>2, <2>3, <2>4, MailboxServiceIndAppends, SendErrorAppends
  <2> QED  BY <2>1, <2>5, <2>6, SameThenSends
<1>4. CASE Main \/ WriteEvent
  <2>1. CheckAndCopy \/ mb' = mb
    BY <1>4 DEF Main, WriteEvent
  <2> QED  BY <1>1, <1>2, <2>1, CheckAndCopyAppends
<1>5. CASE FinishSdo
  <2> DEFINE l    == [mb EXCEPT !.pSdoResStored = NoMail]
             mail == mb.pSdoResStored
  <2>1. mb' = SendCoe(l, mail, FALSE)
    BY <1>5 DEF FinishSdo
  <2>2. mail \in Mails
    BY <1>1 DEF MbType
  <2>3. l \in MbType /\ Same(mb, l, Chained)
    BY <1>1 DEF MbType, Same, Chained
  <2> HIDE DEF l, mail
  <2>4. Sends(l, SendCoe(l, mail, FALSE))
    BY <2>2, <2>3, SendCoeAppends
  <2> QED  BY <2>1, <2>3, <2>4, SameThenSends
<1> QED  BY <1>3, <1>4, <1>5 DEF SendingSteps
-------------------------------------------------------------------------------
(* What the chain, the link and the master know of each other.                *)

\* The reply in the send mailbox was taken out of SM1.
Taken(m) == m.bSendMbxIsFull /\ m.sm1 = NoMail

\* The replies are numbered, and SM1 holds the first one that was not taken.
Linked(m) ==
  /\ Numbered(Chain(m), Upcoming(m))
  /\ Chain(m) = <<>> => m.u8MbxReadCounter = 0
  /\ m.sm1 # NoMail => m.bSendMbxIsFull /\ m.sm1 = m.psReadMbx
  /\ ~m.running => m.psRepeatMbx = NoMail /\ ~m.bMbxRepeatToggle

\* The master accepted g last: the reply before the chain, its first one, or the
\* one behind it, when that was taken.
Seen(m, g) ==
  /\ Chain(m) = <<>> => g = NoMail
  /\ Chain(m) # <<>> =>
       \/ /\ After(g.cnt) = Chain(m)[1].cnt
          /\ ~(Taken(m) /\ m.psRepeatMbx # NoMail)
       \/ g = Chain(m)[1]
       \/ Taken(m) /\ m.psRepeatMbx # NoMail /\ g = m.psReadMbx

\* What a master that waits for nothing accepted.  bit: its repeat bit; gone: it
\* lost a reply.
Heard(m, g, bit, gone) ==
  ~gone /\ bit = m.bMbxRepeatToggle =>
    /\ Taken(m) => g = m.psReadMbx
    /\ m.psRepeatMbx # NoMail /\ ~Taken(m) => g = m.psRepeatMbx

LEMMA SeenAccepted ==
  ASSUME NEW m, Sound(m, {}), Linked(m), NEW g \in Mails, Seen(m, g)
  PROVE  Accepted(g, Chain(m)) /\ Rest(Chain(m), g) \in Seq(Mails)
<1> DEFINE R == Chain(m)
<1>1. m \in MbType /\ Shape(m)
  BY DEF Sound
<1>2. R \in Seq(Mails) /\ Numbered(R, Upcoming(m))
  BY <1>1, ChainForms DEF Linked
<1>3. ASSUME Taken(m), m.psRepeatMbx # NoMail
      PROVE  R # <<>> /\ Len(R) >= 2 /\ R[2] = m.psReadMbx
  <2>1. /\ R = <<m.psRepeatMbx>> \o (<<m.psReadMbx>> \o m.sendQ)
        /\ m.psRepeatMbx \in Mails /\ m.psReadMbx \in Mails /\ m.sendQ \in Seq(Mails)
    BY <1>1, <1>3, ChainForms DEF Taken
  <2> DEFINE s == <<m.psReadMbx>> \o m.sendQ
  <2>2. s \in Seq(Mails) /\ Len(s) = 1 + Len(m.sendQ) /\ s[1] = m.psReadMbx /\ Len(m.sendQ) \in Nat
    BY <2>1, Cons, LenProperties
  <2> HIDE DEF s
  <2>3. R # <<>> /\ Len(R) = 1 + Len(s) /\ \A i \in 1..Len(s) : R[i + 1] = s[i]
    BY <2>1, <2>2, Cons DEF s
  <2>4. 1 \in 1..Len(s) /\ Len(R) >= 2
    BY <2>2, <2>3
  <2>5. R[1 + 1] = s[1]
    BY <2>3, <2>4
  <2> QED  BY <2>2, <2>3, <2>4, <2>5
<1> HIDE DEF R
<1>4. Accepted(g, R)
  BY <1>3 DEF Seen, Accepted, Before, R
<1>5. Rest(R, g) \in Seq(Mails)
  BY <1>2, <1>4, RestType
<1> QED  BY <1>4, <1>5 DEF R

LEMMA UpcomingTurns ==
  ASSUME NEW m \in MbType
  PROVE  /\ Upcoming(m) \in 1..Counters
         /\ \A k : k.u8MbxReadCounter = NextCounter(Upcoming(m)) =>
              Upcoming(k) = After(Upcoming(m))
<1>1. Upcoming(m) \in 1..Counters
  BY SizesAssumption DEF Upcoming, MbType
<1>2. ASSUME NEW c \in 1..Counters
      PROVE  NextCounter(c) = IF c = Counters THEN 0 ELSE c + 1
  <2>1. CASE c = Counters
    BY <2>1, SizesAssumption DEF NextCounter
  <2>2. CASE c # Counters
    <3>1. c + 1 \in 0..Counters /\ Counters + 1 \in Nat
      BY <2>2, SizesAssumption
    <3>2. (c + 1) % (Counters + 1) = c + 1
      BY <3>1, SizesAssumption
    <3> QED  BY <2>2, <3>2 DEF NextCounter
  <2> QED  BY <2>1, <2>2
<1>3. ASSUME NEW k, k.u8MbxReadCounter = NextCounter(Upcoming(m))
      PROVE  Upcoming(k) = After(Upcoming(m))
  <2> DEFINE c == Upcoming(m)
  <2> HIDE DEF c
  <2>1. c \in 1..Counters /\ k.u8MbxReadCounter = IF c = Counters THEN 0 ELSE c + 1
    BY <1>1, <1>2, <1>3 DEF c
  <2>2. Upcoming(k) = After(c)
    BY <2>1 DEF Upcoming, After
  <2> QED  BY <2>2 DEF c
<1> QED  BY <1>1, <1>3

LEMMA SendsAppends ==
  ASSUME NEW m, NEW k, Sound(m, {}), Sound(k, {}), Sends(m, k), Sends1(m, k)
  PROVE  \E x \in Mails :
           /\ x.cnt = Upcoming(m) /\ Chain(k) = Append(Chain(m), x)
           /\ ~m.bSendMbxIsFull => k.sm1 = x
           /\ m.bSendMbxIsFull => k.sendQ = Append(m.sendQ, x)
<1>1. /\ m \in MbType /\ k \in MbType /\ Shape(m) /\ Shape(k)
      /\ k.psRepeatMbx = m.psRepeatMbx /\ k.psStoreMbx = m.psStoreMbx
  BY DEF Sound, Sends, Same
<1>2. PICK x \in Mails :
        /\ x.cnt = Upcoming(m) /\ k.bSendMbxIsFull
        /\ IF m.bSendMbxIsFull
           THEN k.sm1 = m.sm1 /\ k.psReadMbx = m.psReadMbx /\ k.sendQ = Append(m.sendQ, x)
           ELSE k.sm1 = x /\ k.psReadMbx = x /\ k.sendQ = m.sendQ
  BY DEF Sends1
<1>3. /\ m.sendQ \in Seq(Mails) /\ m.psReadMbx \in Mails /\ m.psRepeatMbx \in Mails
      /\ m.psStoreMbx \in Mails
  BY <1>1 DEF MbType
<1>4. ASSUME NEW y \in Mails
      PROVE  /\ <<y>> \o <<>> = <<y>> /\ Append(<<>>, y) = <<y>> /\ <<y>> \in Seq(Mails)
             /\ Append(<<y>>, x) = <<y>> \o <<x>>
  <2>1. <<y>> \in Seq(Mails) /\ Append(<<>>, y) = <<y>>
    OBVIOUS
  <2>2. <<y>> \o <<>> = <<y>> /\ Append(<<y>>, x) = <<y>> \o <<x>>
    BY <2>1, ConcatEmptySeq, AppendIsConcat
  <2> QED  BY <2>1, <2>2
<1>5. CASE ~m.bSendMbxIsFull
  <2>1. /\ Chain(m) = IfMail(m.psRepeatMbx) /\ m.psStoreMbx = NoMail /\ m.sendQ = <<>>
    BY <1>1, <1>5, ChainForms DEF Shape
  <2>2. CASE m.psRepeatMbx = NoMail
    <3>1. Chain(m) = <<>> /\ IfMail(k.psStoreMbx) = <<>> /\ k.sendQ = <<>>
      BY <1>1, <1>2, <1>5, <2>1, <2>2 DEF IfMail
    <3>2. Chain(k) = <<x>> \o (<<>> \o <<>>)
      BY <1>1, <1>2, <1>5, <2>2, <3>1, ChainForms
    <3>3. <<>> \o <<>> = <<>>
      BY EmptySeq, ConcatEmptySeq
    <3>4. Chain(k) = Append(Chain(m), x)
      BY <1>4, <3>1, <3>2, <3>3
    <3> QED  BY <1>2, <1>5, <3>4
  <2>3. CASE m.psRepeatMbx # NoMail
    <3>1. Chain(m) = <<m.psRepeatMbx>> /\ k.sendQ = <<>>
      BY <1>2, <1>5, <2>1, <2>3 DEF IfMail
    <3>2. Chain(k) = <<m.psRepeatMbx>> \o (<<x>> \o <<>>)
      BY <1>1, <1>2, <1>5, <2>3, <3>1, ChainForms
    <3>3. Chain(k) = Append(Chain(m), x)
      BY <1>3, <1>4, <3>1, <3>2
    <3> QED  BY <1>2, <1>5, <3>3
  <2> QED  BY <2>2, <2>3
<1>6. CASE m.bSendMbxIsFull
  <2>1. k.psReadMbx = m.psReadMbx /\ k.sendQ = Append(m.sendQ, x) /\ k.sendQ \in Seq(Mails)
    BY <1>2, <1>3, <1>6
  <2> DEFINE q == m.sendQ
             r == m.psReadMbx
             p == m.psRepeatMbx
  <2>2. CASE m.psRepeatMbx # NoMail
    <3>1. Chain(m) = <<p>> \o (<<r>> \o q)
      BY <1>1, <1>6, <2>2, ChainForms
    <3>2. Chain(k) = <<p>> \o (<<r>> \o Append(q, x))
      BY <1>1, <1>2, <2>1, <2>2, ChainForms
    <3>3. q \in Seq(Mails) /\ r \in Mails /\ p \in Mails
      BY <1>3
    <3> HIDE DEF p, q, r
    <3>4. <<r>> \o q \in Seq(Mails) /\ Append(<<r>> \o q, x) = <<r>> \o Append(q, x)
      BY <3>3, Cons, ConsAppend
    <3>5. Append(<<p>> \o (<<r>> \o q), x) = <<p>> \o Append(<<r>> \o q, x)
      BY <3>3, <3>4, ConsAppend
    <3> QED  BY <1>2, <1>6, <3>1, <3>2, <3>4, <3>5
  <2>3. CASE m.psRepeatMbx = NoMail
    <3> DEFINE s == IfMail(m.psStoreMbx)
    <3>1. Chain(m) = <<r>> \o (s \o q)
      BY <1>1, <1>6, <2>3, ChainForms
    <3>2. Chain(k) = <<r>> \o (s \o Append(q, x))
      BY <1>1, <1>2, <2>1, <2>3, ChainForms
    <3>3. q \in Seq(Mails) /\ r \in Mails /\ s \in Seq(Mails) /\ <<x>> \in Seq(Mails)
      BY <1>3, <1>4, EmptySeq DEF IfMail
    <3> HIDE DEF q, r, s
    <3>4. s \o q \in Seq(Mails)
      BY <3>3, ConcatProperties
    <3>5. Append(s \o q, x) = (s \o q) \o <<x>> /\ Append(q, x) = q \o <<x>>
      BY <3>3, <3>4, AppendIsConcat
    <3>6. (s \o q) \o <<x>> = s \o (q \o <<x>>)
      BY <3>3, ConcatAssociative
    <3>7. Append(<<r>> \o (s \o q), x) = <<r>> \o Append(s \o q, x)
      BY <3>3, <3>4, ConsAppend
    <3> QED  BY <1>2, <1>6, <3>1, <3>2, <3>5, <3>6, <3>7
  <2> QED  BY <2>2, <2>3
<1> QED  BY <1>5, <1>6

LEMMA EmptyChain ==
  ASSUME NEW m \in MbType, Shape(m), Chain(m) = <<>>
  PROVE  ~m.bSendMbxIsFull /\ m.psRepeatMbx = NoMail
<1>1. m.psReadMbx \in Mails /\ m.psRepeatMbx \in Mails /\ m.sendQ \in Seq(Mails)
      /\ IfMail(m.psStoreMbx) \o m.sendQ \in Seq(Mails)
  BY ChainForms
<1>2. /\ <<m.psReadMbx>> \o m.sendQ \in Seq(Mails)
      /\ <<m.psReadMbx>> \o (IfMail(m.psStoreMbx) \o m.sendQ) # <<>>
  BY <1>1, Cons
<1>3. <<m.psRepeatMbx>> \o (<<m.psReadMbx>> \o m.sendQ) # <<>>
  BY <1>1, <1>2, Cons
<1>4. ~m.bSendMbxIsFull
  BY <1>2, <1>3, ChainForms
<1>5. IfMail(m.psRepeatMbx) = <<>>
  BY <1>4, ChainForms
<1> QED  BY <1>4, <1>5 DEF IfMail

\* What is left for the master stays, or a reply is appended.
Grown(p, q) == q = p \/ \E x \in Mails : q = Append(p, x)

\* The invariant of the chain, for a master that accepted g last.
Known(m, g) == Linked(m) /\ Seen(m, g)

LEMMA SameKnown ==
  ASSUME NEW m, NEW k, NEW g, Same(m, k, Chained)
  PROVE  /\ Known(m, g) => Known(k, g)
         /\ \A bit, gone : Heard(m, g, bit, gone) => Heard(k, g, bit, gone)
         /\ Rest(Chain(k), g) = Rest(Chain(m), g)
BY ChainedFields DEF Known, Linked, Seen, Heard, Taken

LEMMA SendsKnown ==
  ASSUME NEW m, NEW k, Sound(m, {}), Sound(k, {}), Sends(m, k),
         NEW g \in Mails, Known(m, g)
  PROVE  /\ Known(k, g) /\ Grown(Rest(Chain(m), g), Rest(Chain(k), g))
         /\ \A bit, gone : Heard(m, g, bit, gone) => Heard(k, g, bit, gone)
<1>1. CASE Same(m, k, Chained)
  BY <1>1, SameKnown DEF Grown
<1>2. CASE Sends1(m, k)
  <2> DEFINE R == Chain(m)
             S == Chain(k)
  <2>1. PICK x \in Mails : /\ x.cnt = Upcoming(m) /\ S = Append(R, x)
                           /\ ~m.bSendMbxIsFull => k.sm1 = x
    BY <1>2, SendsAppends
  <2>2. /\ k.bSendMbxIsFull /\ k.running = m.running /\ k.psRepeatMbx = m.psRepeatMbx
        /\ k.psStoreMbx = m.psStoreMbx /\ k.bMbxRepeatToggle = m.bMbxRepeatToggle
        /\ m.bSendMbxIsFull => k.sm1 = m.sm1 /\ k.psReadMbx = m.psReadMbx
        /\ ~m.bSendMbxIsFull => k.sm1 = k.psReadMbx
        /\ k.u8MbxReadCounter = NextCounter(Upcoming(m))
    BY <1>2 DEF Sends, Sends1, Same
  <2>3. /\ m \in MbType /\ Shape(m) /\ R \in Seq(Mails) /\ Numbered(R, Upcoming(m))
        /\ Upcoming(m) \in 1..Counters /\ Upcoming(k) = After(Upcoming(m))
    BY <2>2, UpcomingTurns, ChainForms DEF Known, Linked, Sound
  <2>4. x # NoMail
    BY <2>1, <2>3 DEF NoMail
  <2>5. /\ Taken(k) <=> Taken(m)
        /\ Taken(m) => k.psReadMbx = m.psReadMbx
    BY <2>1, <2>2, <2>4 DEF Taken
  <2>6. /\ R # <<>> => S # <<>> /\ S[1] = R[1]
        /\ R = <<>> => S # <<>> /\ S[1] = x
        /\ Numbered(S, Upcoming(k)) /\ S # <<>>
    <3> HIDE DEF R, S
    <3>1. Numbered(S, Upcoming(k)) /\ S # <<>> /\ Len(R) \in Nat
          /\ \A i \in 1..Len(R) : S[i] = R[i]
      BY <2>1, <2>3, NumberedAppend, AppendProperties, LenProperties
    <3>2. R # <<>> => 1 \in 1..Len(R)
      BY <2>3, EmptySeq
    <3>3. R = <<>> => S[1] = x
      BY <2>1
    <3>4. R # <<>> => S[1] = R[1]
      BY <3>1, <3>2
    <3> QED  BY <3>1, <3>3, <3>4
  <2>7. Accepted(g, R)
    BY SeenAccepted DEF Known
  <2>8. R = <<>> => After(g.cnt) = Upcoming(m) /\ ~Taken(m) /\ m.psRepeatMbx = NoMail
    <3> SUFFICES ASSUME R = <<>>
                 PROVE  After(g.cnt) = Upcoming(m) /\ ~Taken(m) /\ m.psRepeatMbx = NoMail
      OBVIOUS
    <3>1. g = NoMail /\ m.u8MbxReadCounter = 0
      BY DEF Known, Seen, Linked
    <3>2. After(g.cnt) = Upcoming(m)
      BY <3>1, AfterDiffers, SizesAssumption DEF NoMail, Upcoming
    <3>3. m.psRepeatMbx = NoMail /\ ~m.bSendMbxIsFull
      BY <2>3, EmptyChain
    <3> QED  BY <3>2, <3>3 DEF Taken
  <2> HIDE DEF R, S
  <2>9. Rest(S, g) = Append(Rest(R, g), x)
    BY <2>1, <2>3, <2>7, <2>8, RestAppend
  <2>10. Linked(k)
    BY <2>2, <2>6 DEF Known, Linked, S
  <2>11. Seen(k, g)
    <3>1. CASE R = <<>>
      BY <2>1, <2>2, <2>5, <2>6, <2>8, <3>1 DEF Seen, S
    <3>2. CASE R # <<>>
      BY <2>2, <2>5, <2>6, <3>2 DEF Known, Seen, R, S
    <3> QED  BY <3>1, <3>2
  <2>12. \A bit, gone : Heard(m, g, bit, gone) => Heard(k, g, bit, gone)
    BY <2>2, <2>5 DEF Heard
  <2> QED  BY <2>9, <2>10, <2>11, <2>12 DEF Known, Grown, R, S
<1> QED  BY <1>1, <1>2 DEF Sends
-------------------------------------------------------------------------------
(* The reply that was taken: the one before it leaves the chain.              *)

\* What the step does to the link.
Relinked(m, k) ==
  /\ k.bMbxRepeatToggle = m.bMbxRepeatToggle
  /\ k.u8MbxReadCounter = m.u8MbxReadCounter
  /\ k.sm1 = IF k.bSendMbxIsFull THEN k.psReadMbx ELSE NoMail

LEMMA SentNextRelinked ==
  ASSUME NEW m, Sound(m, {}), Taken(m)
  PROVE  Relinked(m, SentNext(m))
<1> DEFINE l == [ReleaseRepeat(m) EXCEPT !.bSendMbxIsFull = FALSE, !.psRepeatMbx = m.psReadMbx]
           Link == {"bMbxRepeatToggle", "u8MbxReadCounter"}
<1>1. m \in MbType /\ m.sendQ \in Seq(Mails) /\ m.sm1 = NoMail
  BY DEF Sound, MbType, Taken
<1>2. /\ l \in MbType /\ Same(m, l, Link) /\ l.sm1 = NoMail /\ ~l.bSendMbxIsFull
      /\ l.psStoreMbx = m.psStoreMbx /\ l.sendQ = m.sendQ
  <2>1. /\ ReleaseRepeat(m) = [m EXCEPT !.heap = @ \ Buf(m.psRepeatMbx)]
        /\ ReleaseRepeat(m) \in MbType
    BY ReleaseRepeatFrees DEF Taken
  <2> HIDE DEF l
  <2> QED  BY <1>1, <2>1 DEF MbType, Same, l
<1> HIDE DEF l
<1>3. SentNext(m) = SendNext(l)
  BY DEF SentNext, l
<1>4. CASE m.psStoreMbx # NoMail
  <2> DEFINE c == MBX_CopyToSendMailbox(l, m.psStoreMbx)
             k == [c EXCEPT !.psStoreMbx = NoMail]
  <2>1. SentNext(m) = k
    BY <1>2, <1>3, <1>4 DEF SendNext
  <2>2. /\ k.sm1 = k.psReadMbx /\ k.bSendMbxIsFull /\ Same(l, k, Link)
    BY <1>2 DEF MBX_CopyToSendMailbox, MbType, Same
  <2> HIDE DEF k
  <2> QED  BY <1>2, <2>1, <2>2 DEF Relinked, Same
<1>5. CASE m.psStoreMbx = NoMail /\ m.sendQ # <<>>
  <2> DEFINE c == MBX_CopyToSendMailbox(l, Head(m.sendQ))
             k == [c EXCEPT !.sendQ = Tail(@)]
  <2>1. SentNext(m) = k
    BY <1>2, <1>3, <1>5 DEF SendNext
  <2>2. /\ k.sm1 = k.psReadMbx /\ k.bSendMbxIsFull /\ Same(l, k, Link)
    BY <1>2 DEF MBX_CopyToSendMailbox, MbType, Same
  <2> HIDE DEF k
  <2> QED  BY <1>2, <2>1, <2>2 DEF Relinked, Same
<1>6. CASE m.psStoreMbx = NoMail /\ m.sendQ = <<>>
  <2>1. SentNext(m) = l
    BY <1>2, <1>3, <1>6 DEF SendNext
  <2> QED  BY <1>2, <2>1 DEF Relinked, Same
<1> QED  BY <1>4, <1>5, <1>6

LEMMA HeadAndTail ==
  ASSUME NEW q \in Seq(Mails), q # <<>>
  PROVE  q = <<Head(q)>> \o Tail(q) /\ Head(q) \in Mails /\ Tail(q) \in Seq(Mails)
<1> DEFINE h == Head(q)
           u == Tail(q)
           t == <<h>> \o u
<1>1. /\ h \in Mails /\ u \in Seq(Mails) /\ Len(u) = Len(q) - 1
      /\ \A i \in 1..(Len(q) - 1) : u[i] = q[i + 1]
  BY HeadTailProperties
<1>2. h = q[1] /\ Len(q) \in Nat /\ Len(q) >= 1
  BY EmptySeq, LenProperties
<1> HIDE DEF h, u
<1>3. /\ t \in Seq(Mails) /\ Len(t) = 1 + Len(u) /\ t[1] = h
      /\ \A i \in 1..Len(u) : t[i + 1] = u[i]
  BY <1>1, Cons
<1> HIDE DEF t
<1>4. ASSUME NEW i \in 1..Len(t) PROVE t[i] = q[i]
  <2>1. CASE i = 1
    BY <1>2, <1>3, <2>1
  <2>2. CASE i # 1
    <3>1. i - 1 \in 1..Len(u) /\ (i - 1) + 1 = i /\ i - 1 \in 1..(Len(q) - 1)
      BY <1>1, <1>2, <1>3, <2>2
    <3>2. t[(i - 1) + 1] = u[i - 1] /\ u[i - 1] = q[(i - 1) + 1]
      BY <1>1, <1>3, <3>1
    <3> QED  BY <3>1, <3>2
  <2> QED  BY <2>1, <2>2
<1>5. t = q
  <2>1. Len(t) = Len(q)
    BY <1>1, <1>2, <1>3
  <2> QED  BY <1>3, <1>4, <2>1, SeqEqual
<1> QED  BY <1>1, <1>5 DEF t, h, u

LEMMA TurnedChain ==
  ASSUME NEW m, NEW k, Sound(m, {}), Sound(k, {}), Taken(m), Turned(m, k)
  PROVE  /\ Chain(k) = IF m.psRepeatMbx = NoMail THEN Chain(m) ELSE Tail(Chain(m))
         /\ m.psRepeatMbx # NoMail =>
              Len(Chain(m)) >= 2 /\ Chain(m)[1] = m.psRepeatMbx /\ Chain(m)[2] = m.psReadMbx
         /\ Chain(m)[1] = IF m.psRepeatMbx = NoMail THEN m.psReadMbx ELSE m.psRepeatMbx
         /\ Chain(m) # <<>>
<1> DEFINE q == m.sendQ
           r == m.psReadMbx
           p == m.psRepeatMbx
           s == m.psStoreMbx
<1>1. /\ m \in MbType /\ k \in MbType /\ Shape(m) /\ Shape(k) /\ m.bSendMbxIsFull
      /\ q \in Seq(Mails) /\ r \in Mails /\ p \in Mails /\ s \in Mails
      /\ k.psRepeatMbx = r /\ k.psStoreMbx = NoMail
  BY DEF Sound, MbType, Taken, Turned
<1>2. r # NoMail
  BY <1>1, Zeros DEF Shape
<1>3. Chain(k) = <<r>> \o (IfMail(s) \o q)
  <2>1. CASE s # NoMail
    <3>1. k.bSendMbxIsFull /\ k.psReadMbx = s /\ k.sendQ = q
      BY <2>1 DEF Turned
    <3>2. Chain(k) = <<r>> \o (<<s>> \o q)
      BY <1>1, <1>2, <3>1, ChainForms
    <3> QED  BY <2>1, <3>2 DEF IfMail
  <2>2. CASE s = NoMail /\ q # <<>>
    <3>1. k.bSendMbxIsFull /\ k.psReadMbx = Head(q) /\ k.sendQ = Tail(q)
      BY <2>2 DEF Turned
    <3>2. Chain(k) = <<r>> \o (<<Head(q)>> \o Tail(q))
      BY <1>1, <1>2, <3>1, ChainForms
    <3> HIDE DEF q
    <3>3. <<Head(q)>> \o Tail(q) = q /\ <<>> \o q = q
      BY <1>1, <2>2, HeadAndTail, ConcatEmptySeq
    <3> QED  BY <2>2, <3>2, <3>3 DEF IfMail
  <2>3. CASE s = NoMail /\ q = <<>>
    <3>1. ~k.bSendMbxIsFull
      BY <2>3 DEF Turned
    <3>2. Chain(k) = <<r>>
      BY <1>1, <1>2, <3>1, ChainForms DEF IfMail
    <3>3. <<>> \o <<>> = <<>> /\ <<r>> \in Seq(Mails)
      BY <1>1, EmptySeq, ConcatEmptySeq
    <3>4. <<r>> \o <<>> = <<r>>
      BY <3>3, ConcatEmptySeq
    <3> QED  BY <2>3, <3>2, <3>3, <3>4 DEF IfMail
  <2> QED  BY <2>1, <2>2, <2>3
<1>4. CASE p = NoMail
  <2>1. Chain(m) = <<r>> \o (IfMail(s) \o q)
    BY <1>1, <1>4, ChainForms
  <2>2. IfMail(s) \o q \in Seq(Mails)
    BY <1>1, ChainForms
  <2> DEFINE t == IfMail(s) \o q
  <2> HIDE DEF t
  <2>3. Chain(m) # <<>> /\ Chain(m)[1] = r
    BY <1>1, <2>1, <2>2, Cons DEF t
  <2> QED  BY <1>3, <1>4, <2>1, <2>3
<1>5. CASE p # NoMail
  <2>1. s = NoMail /\ Chain(m) = <<p>> \o (<<r>> \o q)
    BY <1>1, <1>5, ChainForms
  <2> HIDE DEF q
  <2>2. Chain(k) = <<r>> \o q
    BY <1>1, <1>3, <2>1, ConcatEmptySeq DEF IfMail
  <2> DEFINE t == <<r>> \o q
  <2>3. t \in Seq(Mails) /\ t[1] = r /\ Len(t) = 1 + Len(q) /\ Len(q) \in Nat
    BY <1>1, Cons, LenProperties
  <2>4. Chain(m) = <<p>> \o t /\ Chain(k) = t
    BY <2>1, <2>2
  <2> HIDE DEF t
  <2>5. /\ Chain(m) # <<>> /\ Len(Chain(m)) = 1 + Len(t) /\ Tail(Chain(m)) = t
        /\ Chain(m)[1] = p /\ \A i \in 1..Len(t) : Chain(m)[i + 1] = t[i]
    BY <1>1, <2>3, <2>4, Cons
  <2>6. 1 \in 1..Len(t) /\ Len(Chain(m)) >= 2
    BY <2>3, <2>5
  <2>7. Chain(m)[1 + 1] = t[1]
    BY <2>5, <2>6
  <2> QED  BY <1>5, <2>3, <2>4, <2>5, <2>6, <2>7
<1> QED  BY <1>4, <1>5

LEMMA TurnedKnown ==
  ASSUME NEW m, NEW k, Sound(m, {}), Sound(k, {}), Taken(m), Turned(m, k), Relinked(m, k),
         NEW g \in Mails, Known(m, g)
  PROVE  /\ Known(k, g) /\ Rest(Chain(k), g) = Rest(Chain(m), g) /\ ~Taken(k)
         /\ \A bit, gone : Heard(m, g, bit, gone) => Heard(k, g, bit, gone)
<1> DEFINE R == Chain(m)
           T == Chain(k)
           c == Upcoming(m)
<1>1. /\ m \in MbType /\ k \in MbType /\ Shape(m) /\ Shape(k) /\ m.bSendMbxIsFull
      /\ m.running /\ k.running /\ k.psRepeatMbx = m.psReadMbx
  BY BehindFields DEF Sound, Shape, Taken, Turned
<1>2. /\ R \in Seq(Mails) /\ T \in Seq(Mails) /\ Numbered(R, c) /\ Upcoming(k) = c
  BY <1>1, ChainForms DEF Known, Linked, Relinked, Upcoming
<1>3. /\ T = IF m.psRepeatMbx = NoMail THEN R ELSE Tail(R)
      /\ m.psRepeatMbx # NoMail => Len(R) >= 2 /\ R[1] = m.psRepeatMbx /\ R[2] = m.psReadMbx
      /\ R[1] = IF m.psRepeatMbx = NoMail THEN m.psReadMbx ELSE m.psRepeatMbx
      /\ R # <<>>
  BY TurnedChain
<1>4. ~Taken(k) /\ (k.sm1 # NoMail => k.bSendMbxIsFull /\ k.sm1 = k.psReadMbx)
  BY <1>1, Zeros DEF Taken, Relinked, Shape
<1>5. \A bit, gone : Heard(m, g, bit, gone) => Heard(k, g, bit, gone)
  BY <1>1, <1>4 DEF Heard, Relinked
<1>6. CASE m.psRepeatMbx = NoMail
  <2>1. T = R
    BY <1>3, <1>6
  <2>2. Linked(k)
    BY <1>1, <1>2, <1>3, <1>4, <2>1 DEF Linked
  <2>3. Seen(k, g)
    BY <1>3, <1>4, <1>6, <2>1 DEF Known, Seen
  <2> QED  BY <1>4, <1>5, <2>1, <2>2, <2>3 DEF Known
<1>7. CASE m.psRepeatMbx # NoMail
  <2>1. T = Tail(R) /\ Len(R) >= 2 /\ g \in {R[1], R[2]}
    BY <1>3, <1>7 DEF Known, Seen
  <2> HIDE DEF R, T, c
  <2>2. Numbered(T, c) /\ T[1] = R[2] /\ T # <<>>
    BY <1>2, <2>1, NumberedTail, LongTail
  <2>3. Rest(T, g) = Rest(R, g) /\ (g = R[1] => Before(g, T))
    BY <1>2, <2>1, RestTail
  <2>4. Linked(k)
    BY <1>1, <1>2, <1>4, <2>2 DEF Linked, T
  <2>5. Seen(k, g)
    BY <1>4, <2>1, <2>2, <2>3 DEF Seen, Before, T
  <2> QED  BY <1>4, <1>5, <2>3, <2>4, <2>5 DEF Known, R, T
<1> QED  BY <1>6, <1>7

\* A step of the slave, for a master that accepted g last.
Delivers(m, k, g) ==
  /\ Known(k, g) /\ Grown(Rest(Chain(m), g), Rest(Chain(k), g))
  /\ \A bit, gone : Heard(m, g, bit, gone) => Heard(k, g, bit, gone)

LEMMA MBX_MailboxReadIndDelivers ==
  ASSUME NEW m, NEW ok \in BOOLEAN, Sound(m, {}), Taken(m),
         m.u8MailboxSendReqStored /\ m.pCoeSendStored = NoMail /\ ok
           => ReleaseRepeat(m).heap # 1..Pool,
         NEW g \in Mails, Known(m, g)
  PROVE  LET k == MBX_MailboxReadInd(m, ok)
         IN  Sound(k, {}) /\ k.running /\ Delivers(m, k, g) /\ ~Taken(k)
             /\ k.bMbxRepeatToggle = m.bMbxRepeatToggle
<1> DEFINE l == SentNext(m)
           n == [l EXCEPT !.u8MailboxSendReqStored = FALSE]
           k == MBX_MailboxReadInd(m, ok)
<1>1. k = IF l.u8MailboxSendReqStored THEN COE_ContinueInd(n, ok) ELSE l
  BY DEF MBX_MailboxReadInd, SentNext
<1>2. Turned(m, l) /\ Relinked(m, l) /\ m.bSendMbxIsFull /\ m.running
  BY SentNextTurned, SentNextRelinked DEF Taken, Sound, Shape
<1> HIDE DEF l, k
<1>3. Sound(l, {}) /\ l.running /\ l.bMbxRepeatToggle = m.bMbxRepeatToggle
  BY <1>2, TurnedSound, BehindFields DEF Turned, Relinked
<1>4. /\ Known(l, g) /\ Rest(Chain(l), g) = Rest(Chain(m), g) /\ ~Taken(l)
      /\ \A bit, gone : Heard(m, g, bit, gone) => Heard(l, g, bit, gone)
  BY <1>2, <1>3, TurnedKnown
<1>5. CASE ~l.u8MailboxSendReqStored
  <2>1. k = l
    BY <1>1, <1>5
  <2> QED  BY <1>3, <1>4, <2>1 DEF Delivers, Grown, k
<1>6. CASE l.u8MailboxSendReqStored
  <2>1. k = COE_ContinueInd(n, ok)
    BY <1>1, <1>6
  <2>2. Sound(n, {}) /\ Same(l, n, (Owning \cup Aside) \ {"u8MailboxSendReqStored"})
    BY <1>3, FlagSound
  <2>3. n.running = l.running /\ n.pCoeSendStored = l.pCoeSendStored /\ n.heap = l.heap
    BY <2>2 DEF Same, Owning, Aside
  <2>4. n.pCoeSendStored = NoMail => (ok => n.heap # 1..Pool)
    <3>1. l.pCoeSendStored = m.pCoeSendStored /\ m.u8MailboxSendReqStored
      BY <1>2, <1>6, BehindFields DEF Turned
    <3>2. l.heap = m.heap \ Buf(m.psRepeatMbx)
      BY <1>2 DEF Turned
    <3>3. ReleaseRepeat(m).heap = m.heap \ Buf(m.psRepeatMbx)
      <4>1. m \in MbType
        BY DEF Sound
      <4>2. ReleaseRepeat(m) = [m EXCEPT !.heap = @ \ Buf(m.psRepeatMbx)]
        BY <1>2, ReleaseRepeatFrees
      <4> HIDE DEF n
      <4> QED  BY <4>1, <4>2 DEF MbType
    <3> QED  BY <2>3, <3>1, <3>2, <3>3
  <2>5. Same(l, n, Chained)
    <3>1. l \in MbType
      BY <1>3 DEF Sound
    <3> QED  BY <3>1 DEF MbType, Same, Chained
  <2> HIDE DEF n
  <2>6. Sound(k, {}) /\ k.running
    BY <1>3, <2>1, <2>2, <2>3, <2>4, COE_ContinueIndContinued DEF Continued
  <2>7. Sends(n, k)
    BY <2>1, <2>2, <2>4, COE_ContinueIndAppends DEF Sound
  <2>8. Sends(l, k)
    BY <2>5, <2>7, SameThenSends
  <2>9. /\ Known(k, g) /\ Grown(Rest(Chain(l), g), Rest(Chain(k), g))
        /\ \A bit, gone : Heard(l, g, bit, gone) => Heard(k, g, bit, gone)
    BY <1>3, <1>4, <2>6, <2>8, SendsKnown
  <2>10. ~Taken(k)
    <3>1. CASE Same(l, k, Chained)
      BY <1>4, <3>1, ChainedFields DEF Taken
    <3>2. CASE Sends1(l, k)
      <4>1. l \in MbType /\ Upcoming(l) \in 1..Counters
        BY <1>3, UpcomingTurns DEF Sound
      <4>2. CASE l.bSendMbxIsFull
        BY <1>4, <3>2, <4>2 DEF Sends1, Taken
      <4>3. CASE ~l.bSendMbxIsFull
        <5>1. k.sm1.cnt = Upcoming(l)
          BY <3>2, <4>3 DEF Sends1
        <5>2. k.sm1 # NoMail
          BY <4>1, <5>1 DEF NoMail
        <5> QED  BY <5>2 DEF Taken
      <4> QED  BY <4>2, <4>3
    <3> QED  BY <2>8, <3>1, <3>2 DEF Sends
  <2>11. k.bMbxRepeatToggle = m.bMbxRepeatToggle
    BY <1>3, <2>8 DEF Sends, Same
  <2> QED  BY <1>4, <2>6, <2>9, <2>10, <2>11 DEF Delivers, k
<1> QED  BY <1>5, <1>6
-------------------------------------------------------------------------------
(* The reply that is asked for again: it is in SM1 once more, and the one that *)
(* was there waits behind it.                                                 *)

LEMMA RepeatReqFields ==
  ASSUME NEW m, Sound(m, {}), m.running, m.psRepeatMbx # NoMail
  PROVE  LET k == MBX_MailboxRepeatReq(m)
         IN  /\ k.sm1 = m.psRepeatMbx /\ k.psReadMbx = m.psRepeatMbx /\ k.bSendMbxIsFull
             /\ k.psRepeatMbx = NoMail /\ k.sendQ = m.sendQ /\ k.running
             /\ k.psStoreMbx = IF m.bSendMbxIsFull THEN m.psReadMbx ELSE NoMail
             /\ k.u8MbxReadCounter = m.u8MbxReadCounter
<1> DEFINE t == TakeBack(m)
           c == MBX_CopyToSendMailbox(t, m.psRepeatMbx)
           l == [c EXCEPT !.psRepeatMbx = NoMail]
           k == [l EXCEPT !.bMbxRepeatToggle = ~@]
<1>1. m \in MbType /\ NoMail \in Mails /\ m.psStoreMbx = NoMail
  BY Zeros DEF Sound, Shape
<1>2. MBX_MailboxRepeatReq(m) = k
  BY DEF MBX_MailboxRepeatReq
<1>3. /\ t \in MbType /\ Same(m, t, {"running", "sendQ", "u8MbxReadCounter"})
      /\ t.psStoreMbx = IF m.bSendMbxIsFull THEN m.psReadMbx ELSE NoMail
  BY <1>1 DEF TakeBack, MbType, Same
<1> HIDE DEF t
<1>4. /\ k.sm1 = m.psRepeatMbx /\ k.psReadMbx = m.psRepeatMbx /\ k.bSendMbxIsFull
      /\ k.psRepeatMbx = NoMail /\ k.psStoreMbx = t.psStoreMbx
      /\ Same(t, k, {"running", "sendQ", "u8MbxReadCounter"})
  BY <1>1, <1>3 DEF MBX_CopyToSendMailbox, MbType, Same
<1> HIDE DEF k
<1> QED  BY <1>2, <1>3, <1>4 DEF Same

LEMMA MBX_MailboxRepeatReqKeeps ==
  ASSUME NEW m, Sound(m, {}), m.running, ~Taken(m), NEW g \in Mails, Known(m, g)
  PROVE  LET k == MBX_MailboxRepeatReq(m)
         IN  /\ Sound(k, {}) /\ Known(k, g) /\ Chain(k) = Chain(m)
             /\ \A bit, gone : Heard(k, g, bit, gone)
<1> DEFINE k == MBX_MailboxRepeatReq(m)
<1>1. Sound(k, {})
  BY MBX_MailboxRepeatReqRepeats DEF Repeated
<1>2. m \in MbType /\ Shape(m) /\ Shape(k) /\ k \in MbType
  BY <1>1 DEF Sound
<1>3. CASE m.psRepeatMbx = NoMail
  <2> DEFINE n == [m EXCEPT !.bMbxRepeatToggle = ~@]
  <2>1. k = n
    BY <1>3 DEF MBX_MailboxRepeatReq
  <2>2. Same(m, n, Chained \ {"bMbxRepeatToggle"})
    BY <1>2 DEF MbType, Same, Chained
  <2> HIDE DEF n, k
  <2>3. /\ k.running = m.running /\ k.psRepeatMbx = m.psRepeatMbx
        /\ k.psReadMbx = m.psReadMbx /\ k.psStoreMbx = m.psStoreMbx /\ k.sendQ = m.sendQ
        /\ k.bSendMbxIsFull = m.bSendMbxIsFull /\ k.sm1 = m.sm1
        /\ k.u8MbxReadCounter = m.u8MbxReadCounter
    BY <2>1, <2>2 DEF Same, Chained
  <2>4. Chain(k) = Chain(m) /\ Upcoming(k) = Upcoming(m) /\ ~Taken(k)
    BY <2>3 DEF Chain, Upcoming, Taken
  <2>5. Linked(k) /\ Seen(k, g)
    BY <1>3, <2>3, <2>4 DEF Known, Linked, Seen
  <2>6. \A bit, gone : Heard(k, g, bit, gone)
    BY <1>3, <2>3, <2>4 DEF Heard
  <2> QED  BY <1>1, <2>4, <2>5, <2>6 DEF Known, k
<1>4. CASE m.psRepeatMbx # NoMail
  <2> DEFINE q == m.sendQ
             r == m.psReadMbx
             p == m.psRepeatMbx
  <2>1. /\ k.sm1 = p /\ k.psReadMbx = p /\ k.bSendMbxIsFull
        /\ k.psRepeatMbx = NoMail /\ k.sendQ = q /\ k.running
        /\ k.psStoreMbx = IF m.bSendMbxIsFull THEN r ELSE NoMail
        /\ k.u8MbxReadCounter = m.u8MbxReadCounter
    BY <1>4, RepeatReqFields
  <2> HIDE DEF k
  <2>2. q \in Seq(Mails) /\ r \in Mails /\ p \in Mails
    BY <1>2 DEF MbType
  <2>3. Chain(k) = <<p>> \o (IfMail(k.psStoreMbx) \o q)
    BY <1>2, <2>1, ChainForms
  <2>4. Chain(k) = Chain(m)
    <3>1. CASE m.bSendMbxIsFull
      <4>1. r # NoMail
        BY <1>2, <3>1, Zeros DEF Shape
      <4>2. Chain(m) = <<p>> \o (<<r>> \o q)
        BY <1>2, <1>4, <3>1, ChainForms
      <4> QED  BY <2>1, <2>3, <3>1, <4>1, <4>2 DEF IfMail
    <3>2. CASE ~m.bSendMbxIsFull
      <4>1. Chain(m) = <<p>> /\ q = <<>>
        BY <1>2, <1>4, <3>2, ChainForms DEF Shape, IfMail
      <4>2. IfMail(k.psStoreMbx) = <<>>
        BY <2>1, <3>2 DEF IfMail
      <4>3. <<>> \o <<>> = <<>> /\ <<p>> \o <<>> = <<p>>
        <5>1. <<p>> \in Seq(Mails)
          BY <2>2
        <5> QED  BY <5>1, EmptySeq, ConcatEmptySeq
      <4> QED  BY <2>3, <4>1, <4>2, <4>3
    <3> QED  BY <3>1, <3>2
  <2>5. ~Taken(k) /\ Upcoming(k) = Upcoming(m)
    BY <1>4, <2>1 DEF Taken, Upcoming
  <2>6. Linked(k) /\ Seen(k, g)
    BY <2>1, <2>4, <2>5 DEF Known, Linked, Seen
  <2>7. \A bit, gone : Heard(k, g, bit, gone)
    BY <2>1, <2>5 DEF Heard
  <2> QED  BY <1>1, <2>4, <2>6, <2>7 DEF Known, k
<1> QED  BY <1>3, <1>4
-------------------------------------------------------------------------------
(* A reply that is read, or lost.                                             *)

\* Only SM1 has changed.
Emptied(m, k) == Same(m, k, Chained \ {"sm1"}) /\ k.sm1 = NoMail

LEMMA ReadingKnown ==
  ASSUME NEW m, NEW k, Sound(m, {}), m.sm1 # NoMail, Emptied(m, k),
         NEW g \in Mails, Known(m, g), Heard(m, g, m.bMbxRepeatToggle, FALSE)
  PROVE  LET mail == m.sm1
         IN  /\ mail \in Mails /\ mail = m.psReadMbx /\ Taken(k) /\ Known(k, g)
             /\ k.bMbxRepeatToggle = m.bMbxRepeatToggle /\ k.running = m.running
             /\ Chain(k) = Chain(m)
             /\ mail.cnt = g.cnt => g = mail
             /\ mail.cnt # g.cnt =>
                  /\ Known(k, mail) /\ Rest(Chain(m), g) # <<>>
                  /\ mail = Head(Rest(Chain(m), g))
                  /\ Rest(Chain(k), mail) = Tail(Rest(Chain(m), g))
<1> DEFINE mail == m.sm1
           R    == Chain(m)
<1>1. m \in MbType /\ Shape(m) /\ NoMail \in Mails
  BY Zeros DEF Sound
<1>2. Same(m, k, Chained \ {"sm1"}) /\ k.sm1 = NoMail
  BY DEF Emptied
<1>3. /\ k.running = m.running /\ k.psRepeatMbx = m.psRepeatMbx
      /\ k.psReadMbx = m.psReadMbx /\ k.psStoreMbx = m.psStoreMbx /\ k.sendQ = m.sendQ
      /\ k.bSendMbxIsFull = m.bSendMbxIsFull
      /\ k.u8MbxReadCounter = m.u8MbxReadCounter
      /\ k.bMbxRepeatToggle = m.bMbxRepeatToggle
  BY <1>2 DEF Same, Chained
<1>4. Chain(k) = R /\ Upcoming(k) = Upcoming(m)
  BY <1>3 DEF Chain, Upcoming
<1>5. /\ m.bSendMbxIsFull /\ mail = m.psReadMbx /\ mail \in Mails /\ ~Taken(m) /\ Taken(k)
      /\ Linked(k)
  BY <1>1, <1>2, <1>3, <1>4 DEF Known, Linked, Taken, MbType
<1>6. R \in Seq(Mails) /\ Numbered(R, Upcoming(m)) /\ m.sendQ \in Seq(Mails)
      /\ m.psReadMbx \in Mails /\ m.psRepeatMbx \in Mails
      /\ IfMail(m.psStoreMbx) \o m.sendQ \in Seq(Mails)
  BY <1>1, ChainForms DEF Known, Linked
<1>7. CASE m.psRepeatMbx # NoMail
  <2> DEFINE t == <<mail>> \o m.sendQ
  <2>1. R = <<m.psRepeatMbx>> \o t
    BY <1>1, <1>5, <1>7, ChainForms
  <2>2. t \in Seq(Mails) /\ t # <<>> /\ t[1] = mail /\ Head(t) = mail /\ Tail(t) = m.sendQ
        /\ Len(t) = 1 + Len(m.sendQ) /\ Len(m.sendQ) \in Nat
    <3>1. Len(m.sendQ) \in Nat
      BY <1>6, LenProperties
    <3> QED  BY <1>5, <1>6, <3>1, Cons
  <2> HIDE DEF t, R
  <2>3. /\ R # <<>> /\ R[1] = m.psRepeatMbx /\ Tail(R) = t /\ Len(R) = 1 + Len(t)
        /\ \A i \in 1..Len(t) : R[i + 1] = t[i]
    <3>1. t \in Seq(Mails) /\ m.psRepeatMbx \in Mails
      BY <1>6, <2>2
    <3> QED  BY <2>1, <3>1, Cons
  <2>4. 1 \in 1..Len(t) /\ Len(R) >= 2
    BY <2>2, <2>3
  <2>5. R[1 + 1] = t[1]
    BY <2>3, <2>4
  <2>6. R[2] = mail
    BY <2>2, <2>5
  <2>7. g = R[1]
    BY <1>5, <1>7, <2>3 DEF Heard
  <2>8. Rest(R, g) = t /\ Rest(R, mail) = Tail(t)
    BY <1>6, <2>3, <2>4, <2>6, <2>7, RestFirst, RestSecond
  <2>9. mail.cnt # g.cnt
    <3>1. 1 \in 1..Len(R) /\ 1 \in 1..(Len(R) - 1)
      BY <2>2, <2>3
    <3>2. R[1].cnt \in 1..Counters /\ R[1 + 1].cnt = After(R[1].cnt)
      BY <1>6, <3>1 DEF Numbered
    <3> QED  BY <2>6, <2>7, <3>2, AfterDiffers
  <2>10. Seen(k, g) /\ Seen(k, mail)
    BY <1>3, <1>4, <1>5, <1>7, <2>3, <2>7 DEF Seen, R
  <2> QED  BY <1>3, <1>4, <1>5, <2>2, <2>8, <2>9, <2>10 DEF Known, R
<1>8. CASE m.psRepeatMbx = NoMail
  <2> DEFINE t == IfMail(m.psStoreMbx) \o m.sendQ
  <2>1. R = <<mail>> \o t
    BY <1>1, <1>5, <1>8, ChainForms
  <2> HIDE DEF t, R
  <2>2. R # <<>> /\ R[1] = mail /\ Tail(R) = t /\ Head(R) = mail
    BY <1>5, <1>6, <2>1, Cons DEF t
  <2>3. Rest(R, mail) = Tail(R)
    BY <1>6, <2>2, RestFirst
  <2>4. After(g.cnt) = mail.cnt \/ g = mail
    BY <1>5, <2>2 DEF Known, Seen, R
  <2>5. g.cnt \in 0..Counters
    BY DEF Mails
  <2>6. mail.cnt = g.cnt => g = mail
    BY <2>4, <2>5, AfterDiffers
  <2>7. mail.cnt # g.cnt => Rest(R, g) = R
    BY <1>6, <2>2, <2>4, RestNew DEF Before
  <2>8. Seen(k, g) /\ Seen(k, mail)
    BY <1>3, <1>4, <1>8, <2>2, <2>4 DEF Seen, R
  <2> QED  BY <1>3, <1>4, <1>5, <2>2, <2>3, <2>6, <2>7, <2>8 DEF Known, R
<1> QED  BY <1>7, <1>8
-------------------------------------------------------------------------------
(* The invariant.                                                            *)

\* What ECAT_Main read of SM1 is still true when it uses it: the master asks for
\* a repetition, and reads, only after the last one was acknowledged.
Polled ==
  /\ pc \in {"status", "al", "ind"} /\ mb.running /\ act # mb.bMbxRepeatToggle => act = rep
  /\ pc \in {"al", "ind"} /\ mb.running /\ mb.bSendMbxIsFull /\ empty => mb.sm1 = NoMail
  /\ pc \in {"al", "ind"} /\ mb.running /\ act # mb.bMbxRepeatToggle /\ Taken(mb) => empty
  /\ pc \in {"status", "al"} /\ ~mb.running => ~act

Order == Known(mb, got) /\ Heard(mb, got, rep, lost) /\ Polled

OInv == IInv /\ Order

\* A step of the mailbox, as one of the queue.
Maps(p, g, q, h) ==
  \/ h = g /\ Grown(p, q)
  \/ p # <<>> /\ h = Head(p) /\ q = Tail(p)
  \/ q = <<>> /\ h = NoMail

\* A step keeps the order and is one of the queue.
InOrder == Order' /\ Maps(Rest(Chain(mb), got), got, Rest(Chain(mb'), got'), got')

LEMMA SendingInOrder ==
  ASSUME OInv, Sound(mb', {}), SendingSteps
  PROVE  InOrder
<1>1. /\ Sound(mb, {}) /\ got \in Mails /\ Known(mb, got) /\ Heard(mb, got, rep, lost)
  BY DEF OInv, IInv, Typed, Order
<1>2. Sends(mb, mb')
  BY <1>1, SendingStepsAppend
<1>3. /\ Known(mb', got) /\ Grown(Rest(Chain(mb), got), Rest(Chain(mb'), got))
      /\ Heard(mb', got, rep, lost)
  BY <1>1, <1>2, SendsKnown
<1>4. got' = got /\ rep' = rep /\ lost' = lost /\ pc' \in {"main", "activate", "coe"}
  BY DEF SendingSteps, Serve, Main, WriteEvent, FinishSdo, Goto, masterVars
<1>5. Polled'
  BY <1>4 DEF Polled
<1> QED  BY <1>3, <1>4, <1>5 DEF InOrder, Order, Maps

LEMMA PollingInOrder ==
  ASSUME OInv, ReadActivate \/ ReadStatus \/ NoTransition \/ SdoStillInWork
  PROVE  InOrder
<1>1. mb' = mb /\ got' = got /\ rep' = rep /\ lost' = lost
  BY DEF ReadActivate, ReadStatus, NoTransition, SdoStillInWork, masterVars
<1>2. Known(mb', got') /\ Heard(mb', got', rep', lost')
  BY <1>1 DEF OInv, Order
<1>3. mb.running \in BOOLEAN /\ mb.bMbxRepeatToggle \in BOOLEAN /\ act \in BOOLEAN
      /\ rep \in BOOLEAN
  BY DEF OInv, IInv, Typed, Sound, MbType
<1>4. Polled'
  <2>1. CASE ReadActivate
    BY <1>1, <1>3, <2>1 DEF ReadActivate, Goto, Polled
  <2>2. CASE ReadStatus
    BY <1>1, <1>3, <2>2 DEF ReadStatus, Goto, Polled, OInv, Order, Taken
  <2>3. CASE NoTransition
    BY <1>1, <2>3 DEF NoTransition, Goto, Polled, OInv, Order
  <2>4. CASE SdoStillInWork
    BY <2>4 DEF SdoStillInWork, Goto, Polled
  <2> QED  BY <2>1, <2>2, <2>3, <2>4
<1> QED  BY <1>1, <1>2, <1>4 DEF InOrder, Order, Maps, Grown

LEMMA StartInOrder ==
  ASSUME OInv, StartMailbox
  PROVE  InOrder
<1>1. PICK boot \in Boots : mb' = [mb EXCEPT !.running = TRUE, !.boot = boot]
  BY DEF StartMailbox
<1>2. mb \in MbType /\ Shape(mb) /\ ~mb.running /\ pc = "al" /\ pc' = "ind"
  BY DEF OInv, IInv, Sound, StartMailbox, Goto
<1>3. Same(mb, mb', Chained \ {"running"}) /\ mb'.running
  BY <1>1, <1>2 DEF MbType, Same, Chained
<1>4. /\ mb'.psRepeatMbx = mb.psRepeatMbx
      /\ mb'.psReadMbx = mb.psReadMbx /\ mb'.psStoreMbx = mb.psStoreMbx
      /\ mb'.sendQ = mb.sendQ /\ mb'.bSendMbxIsFull = mb.bSendMbxIsFull /\ mb'.sm1 = mb.sm1
      /\ mb'.u8MbxReadCounter = mb.u8MbxReadCounter
      /\ mb'.bMbxRepeatToggle = mb.bMbxRepeatToggle
  BY <1>3 DEF Same, Chained
<1>5. got' = got /\ rep' = rep /\ lost' = lost /\ act' = act /\ empty' = empty
  BY DEF StartMailbox, masterVars
<1>6. Known(mb, got) /\ Heard(mb, got, rep, lost) /\ ~act /\ ~mb.bMbxRepeatToggle
      /\ ~mb.bSendMbxIsFull
  BY <1>2 DEF OInv, Order, Polled, Known, Linked, Shape
<1>7. Chain(mb') = Chain(mb) /\ Upcoming(mb') = Upcoming(mb) /\ (Taken(mb') <=> Taken(mb))
  BY <1>4 DEF Chain, Upcoming, Taken
<1>8. Known(mb', got')
  BY <1>3, <1>4, <1>5, <1>6, <1>7 DEF Known, Linked, Seen
<1>9. Heard(mb', got', rep', lost')
  BY <1>4, <1>5, <1>6, <1>7 DEF Heard
<1>10. act \in BOOLEAN /\ mb.bMbxRepeatToggle \in BOOLEAN
  BY <1>2 DEF OInv, IInv, Typed, MbType
<1>11. Polled'
  BY <1>2, <1>4, <1>5, <1>6, <1>10 DEF Polled
<1> QED  BY <1>5, <1>7, <1>8, <1>9, <1>11 DEF InOrder, Order, Maps, Grown

\* No reply is left when the mailbox was stopped.
LEMMA StoppedChain ==
  ASSUME NEW m
  PROVE  LET k == MBX_StopMailboxHandler(m)
         IN  Chain(k) = <<>> /\ Rest(Chain(k), NoMail) = <<>>
<1> DEFINE k == MBX_StopMailboxHandler(m)
<1>1. k.sendQ = <<>> /\ k.psRepeatMbx = NoMail /\ k.psStoreMbx = NoMail /\ ~k.bSendMbxIsFull
  BY DEF MBX_StopMailboxHandler, Stopped
<1> HIDE DEF k
<1>2. <<>> \o <<>> = <<>> /\ Len(<<>>) = 0
  BY EmptySeq, ConcatEmptySeq
<1>3. Chain(k) = <<>>
  BY <1>1, <1>2 DEF Chain, IfMail
<1> QED  BY <1>2, <1>3 DEF Rest, k

LEMMA StopInOrder ==
  ASSUME StopMailbox
  PROVE  InOrder
<1> DEFINE k == MBX_StopMailboxHandler(mb)
<1>1. /\ pc' = "ind" /\ got' = NoMail /\ lost' = FALSE /\ mb' = k
  BY DEF StopMailbox, Goto
<1>2. /\ ~k.running /\ k.sm1 = NoMail /\ k.sendQ = <<>> /\ k.psRepeatMbx = NoMail
      /\ k.psStoreMbx = NoMail /\ ~k.bSendMbxIsFull /\ ~k.bMbxRepeatToggle
      /\ k.u8MbxReadCounter = 0
  BY DEF MBX_StopMailboxHandler, Stopped
<1>3. Chain(k) = <<>> /\ Rest(Chain(k), NoMail) = <<>>
  BY StoppedChain
<1> HIDE DEF k
<1>4. Linked(k)
  <2>1. Len(<<>>) = 0
    BY EmptySeq
  <2>2. Numbered(<<>>, Upcoming(k))
    BY <2>1 DEF Numbered
  <2> QED  BY <1>2, <1>3, <2>2 DEF Linked
<1>5. Known(k, NoMail) /\ Heard(k, NoMail, rep', FALSE)
  BY <1>2, <1>3, <1>4 DEF Known, Seen, Heard, Taken
<1>6. Polled'
  BY <1>1, <1>2 DEF Polled
<1> QED  BY <1>1, <1>3, <1>5, <1>6 DEF InOrder, Order, Maps

\* The reply in SM1 is found read, when it was, and the next one sent.
MayTurn(m, n) ==
  \/ n = m
  \/ /\ Taken(m)
     /\ \E ok \in BOOLEAN :
          /\ m.u8MailboxSendReqStored /\ m.pCoeSendStored = NoMail /\ ok
               => ReleaseRepeat(m).heap # 1..Pool
          /\ n = MBX_MailboxReadInd(m, ok)

\* A repetition is asked for.
AsksAgain(m) == m.running /\ act # m.bMbxRepeatToggle

LEMMA IndicationsTurn ==
  ASSUME OInv, Indications
  PROVE  \E n : /\ Sound(n, {}) /\ MayTurn(mb, n) /\ Delivers(mb, n, got)
                /\ AsksAgain(n) => ~Taken(n)
                /\ mb' = IF AsksAgain(n) THEN MBX_MailboxRepeatReq(n) ELSE n
<1> DEFINE read      == mb.running /\ empty /\ mb.bSendMbxIsFull
           Repeat(m) == IF m.running /\ act # m.bMbxRepeatToggle THEN MBX_MailboxRepeatReq(m) ELSE m
<1>1. /\ Sound(mb, {}) /\ got \in Mails /\ Known(mb, got) /\ Heard(mb, got, rep, lost)
  BY DEF OInv, IInv, Typed, Order
<1>2. pc = "ind" /\ pc' = "write" /\ got' = got /\ rep' = rep /\ lost' = lost
  BY DEF Indications, Goto, masterVars
<1>3. \E n : /\ \/ ~read /\ n = mb
                \/ read /\ \E ok \in BOOLEAN :
                     /\ mb.u8MailboxSendReqStored /\ mb.pCoeSendStored = NoMail /\ ok
                          => ReleaseRepeat(mb).heap # 1..Pool
                     /\ n = MBX_MailboxReadInd(mb, ok)
             /\ mb' = Repeat(n)
  <2>1. CASE read /\ (mb.u8MailboxSendReqStored /\ mb.pCoeSendStored = NoMail)
    <3>1. PICK ok \in BOOLEAN : Alloc(ReleaseRepeat(mb), ok) /\ mb' = Repeat(MBX_MailboxReadInd(mb, ok))
      BY <2>1 DEF Indications
    <3>2. ok => ReleaseRepeat(mb).heap # 1..Pool
      BY <3>1 DEF Alloc
    <3> HIDE DEF Repeat, read
    <3> QED  BY <2>1, <3>1, <3>2
  <2>2. CASE read /\ ~(mb.u8MailboxSendReqStored /\ mb.pCoeSendStored = NoMail)
    <3>1. mb' = Repeat(MBX_MailboxReadInd(mb, TRUE))
      BY <2>2 DEF Indications
    <3> HIDE DEF Repeat, read
    <3> QED  BY <2>2, <3>1
  <2>3. CASE ~read
    BY <2>3 DEF Indications
  <2> QED  BY <2>1, <2>2, <2>3
<1>4. PICK n : /\ \/ ~read /\ n = mb
                  \/ read /\ \E ok \in BOOLEAN :
                       /\ mb.u8MailboxSendReqStored /\ mb.pCoeSendStored = NoMail /\ ok
                            => ReleaseRepeat(mb).heap # 1..Pool
                       /\ n = MBX_MailboxReadInd(mb, ok)
               /\ mb' = Repeat(n)
  BY <1>3
<1>5. /\ Sound(n, {}) /\ MayTurn(mb, n) /\ Delivers(mb, n, got)
      /\ n.running /\ act # n.bMbxRepeatToggle => ~Taken(n)
  <2>1. CASE ~read /\ n = mb
    <3>1. Delivers(mb, n, got)
      BY <1>1, <2>1 DEF Delivers, Grown
    <3>2. n.running /\ act # n.bMbxRepeatToggle => ~Taken(n)
      BY <1>2, <2>1 DEF OInv, Order, Polled, Taken
    <3> QED  BY <1>1, <2>1, <3>1, <3>2 DEF MayTurn
  <2>2. CASE read
    <3>1. Taken(mb)
      BY <1>2, <2>2 DEF OInv, Order, Polled, Taken
    <3>2. PICK ok \in BOOLEAN :
            /\ mb.u8MailboxSendReqStored /\ mb.pCoeSendStored = NoMail /\ ok
                 => ReleaseRepeat(mb).heap # 1..Pool
            /\ n = MBX_MailboxReadInd(mb, ok)
      BY <1>4, <2>2
    <3>3. Sound(n, {}) /\ Delivers(mb, n, got) /\ ~Taken(n)
      BY <1>1, <3>1, <3>2, MBX_MailboxReadIndDelivers
    <3> QED  BY <3>1, <3>2, <3>3 DEF MayTurn
  <2> QED  BY <1>4, <2>1, <2>2
<1> QED  BY <1>4, <1>5 DEF AsksAgain

LEMMA IndicationsInOrder ==
  ASSUME OInv, Indications
  PROVE  InOrder
<1>1. /\ got \in Mails /\ Known(mb, got) /\ Heard(mb, got, rep, lost)
  BY DEF OInv, IInv, Typed, Order
<1>2. pc = "ind" /\ pc' = "write" /\ got' = got /\ rep' = rep /\ lost' = lost
  BY DEF Indications, Goto, masterVars
<1>3. PICK n : /\ Sound(n, {}) /\ Delivers(mb, n, got)
               /\ AsksAgain(n) => ~Taken(n)
               /\ mb' = IF AsksAgain(n) THEN MBX_MailboxRepeatReq(n) ELSE n
  BY IndicationsTurn
<1>4. /\ Known(mb', got) /\ Chain(mb') = Chain(n) /\ Heard(mb', got, rep, lost)
  <2>1. Known(n, got) /\ Heard(n, got, rep, lost)
    BY <1>1, <1>3 DEF Delivers
  <2>2. CASE AsksAgain(n)
    <3>1. mb' = MBX_MailboxRepeatReq(n)
      BY <1>3, <2>2
    <3> QED  BY <1>1, <1>3, <2>1, <2>2, <3>1, MBX_MailboxRepeatReqKeeps DEF AsksAgain
  <2>3. CASE ~AsksAgain(n)
    BY <1>3, <2>1, <2>3
  <2> QED  BY <2>2, <2>3
<1>5. Grown(Rest(Chain(mb), got), Rest(Chain(mb'), got))
  BY <1>3, <1>4 DEF Delivers
<1>6. Polled'
  BY <1>2 DEF Polled
<1> QED  BY <1>2, <1>4, <1>5, <1>6 DEF InOrder, Order, Maps

LEMMA WriteInOrder ==
  ASSUME OInv, WriteRequest \/ WriteAgain
  PROVE  InOrder
<1>1. \E mail : mb' = [mb EXCEPT !.sm0 = mail, !.ev0 = TRUE]
  BY DEF WriteRequest, WriteAgain
<1>2. mb \in MbType
  BY DEF OInv, IInv, Sound
<1>3. Same(mb, mb', Chained)
  BY <1>1, <1>2 DEF MbType, Same, Chained
<1>4. /\ pc' = pc /\ act' = act /\ empty' = empty /\ rep' = rep /\ lost' = lost /\ got' = got
  BY DEF WriteRequest, WriteAgain, masterVars
<1>5. Known(mb', got) /\ Heard(mb', got, rep, lost) /\ Rest(Chain(mb'), got) = Rest(Chain(mb), got)
  BY <1>3, SameKnown DEF OInv, Order
<1>6. Polled'
  BY <1>3, <1>4, ChainedFields DEF Polled, OInv, Order, Taken
<1> QED  BY <1>4, <1>5, <1>6 DEF InOrder, Order, Maps, Grown

LEMMA RequestRepeatInOrder ==
  ASSUME OInv, RequestRepeat
  PROVE  InOrder
<1>1. /\ mb' = mb /\ pc' = pc /\ act' = act /\ empty' = empty /\ got' = got
      /\ rep = mb.bMbxRepeatToggle /\ rep' = ~rep
  BY DEF RequestRepeat
<1>2. rep \in BOOLEAN /\ act \in BOOLEAN /\ mb.bMbxRepeatToggle \in BOOLEAN
  BY DEF OInv, IInv, Typed, Sound, MbType
<1>3. Heard(mb', got', rep', lost')
  BY <1>1, <1>2 DEF Heard
<1>4. Polled'
  BY <1>1, <1>2 DEF Polled, OInv, Order
<1> QED  BY <1>1, <1>3, <1>4 DEF InOrder, Order, Maps, Grown, OInv

LEMMA ReadInOrder ==
  ASSUME OInv, ReadMail \/ LoseMail
  PROVE  InOrder
<1> DEFINE mail == mb.sm1
<1>1. /\ mb.running /\ mail # NoMail /\ rep = mb.bMbxRepeatToggle /\ ~lost
      /\ mb' = [mb EXCEPT !.sm1 = NoMail]
      /\ pc' = pc /\ act' = act /\ empty' = empty /\ rep' = rep
  BY DEF ReadMail, LoseMail, MayRead
<1>2. /\ Sound(mb, {}) /\ mb \in MbType /\ got \in Mails /\ Known(mb, got) /\ Polled
      /\ Heard(mb, got, rep, lost)
  BY DEF OInv, IInv, Typed, Order, Sound
<1>3. Emptied(mb, mb')
  BY <1>1, <1>2, Zeros DEF MbType, Emptied, Same, Chained
<1>4. Heard(mb, got, mb.bMbxRepeatToggle, FALSE)
  BY <1>1, <1>2 DEF Heard
<1>5. /\ mail = mb.psReadMbx /\ Taken(mb') /\ Known(mb', got)
      /\ mb'.bMbxRepeatToggle = mb.bMbxRepeatToggle /\ mb'.running = mb.running
      /\ Chain(mb') = Chain(mb)
      /\ mail.cnt = got.cnt => got = mail
      /\ mail.cnt # got.cnt =>
           /\ Known(mb', mail) /\ Rest(Chain(mb), got) # <<>>
           /\ mail = Head(Rest(Chain(mb), got))
           /\ Rest(Chain(mb'), mail) = Tail(Rest(Chain(mb), got))
  BY <1>1, <1>2, <1>3, <1>4, ReadingKnown
<1>6. mb'.sm1 = NoMail /\ mb'.psReadMbx = mb.psReadMbx
  BY <1>3 DEF Emptied, Same, Chained
<1>7. Polled'
  BY <1>1, <1>2, <1>5, <1>6 DEF Polled
<1> HIDE DEF mail
<1>8. CASE LoseMail
  <2>1. got' = got /\ lost' = TRUE
    BY <1>8 DEF LoseMail
  <2> QED  BY <1>5, <1>7, <2>1 DEF InOrder, Order, Heard, Maps, Grown
<1>9. CASE ReadMail /\ mail.cnt = got.cnt
  <2>1. got' = got /\ lost' = lost
    BY <1>9 DEF ReadMail, mail
  <2>2. Heard(mb', got', rep', lost')
    BY <1>5, <1>6, <1>9, <2>1 DEF Heard
  <2> QED  BY <1>5, <1>7, <2>1, <2>2 DEF InOrder, Order, Maps, Grown
<1>10. CASE ReadMail /\ mail.cnt # got.cnt
  <2>1. got' = mail /\ lost' = lost
    BY <1>10 DEF ReadMail, mail
  <2>2. Heard(mb', got', rep', lost')
    BY <1>5, <1>6, <2>1 DEF Heard
  <2> QED  BY <1>5, <1>7, <1>10, <2>1, <2>2 DEF InOrder, Order, Maps
<1> QED  BY <1>8, <1>9, <1>10
-------------------------------------------------------------------------------
(* The theorems.                                                             *)

LEMMA InitOrder == Init => OInv /\ Undelivered = <<>> /\ got = NoMail
<1> SUFFICES ASSUME Init PROVE OInv /\ Undelivered = <<>> /\ got = NoMail
  OBVIOUS
<1>1. IInv /\ mb = Stopped /\ pc = "main" /\ got = NoMail
  BY InitInv DEF Init
<1>2. /\ ~mb.running /\ mb.sm1 = NoMail /\ mb.sendQ = <<>> /\ mb.psRepeatMbx = NoMail
      /\ mb.psStoreMbx = NoMail /\ ~mb.bSendMbxIsFull /\ ~mb.bMbxRepeatToggle
      /\ mb.u8MbxReadCounter = 0
  BY <1>1 DEF Stopped
<1>3. <<>> \o <<>> = <<>> /\ Len(<<>>) = 0
  BY EmptySeq, ConcatEmptySeq
<1>4. Chain(mb) = <<>>
  BY <1>2, <1>3 DEF Chain, IfMail
<1>5. Linked(mb)
  <2>1. Numbered(<<>>, Upcoming(mb))
    BY <1>3 DEF Numbered
  <2> QED  BY <1>2, <1>4, <2>1 DEF Linked
<1>6. Seen(mb, got) /\ Heard(mb, got, rep, lost) /\ Polled
  BY <1>1, <1>2, <1>4 DEF Seen, Heard, Taken, Polled
<1>7. Rest(Chain(mb), got) = <<>>
  BY <1>3, <1>4 DEF Rest
<1>8. Undelivered = Rest(Chain(mb), got)
  BY DEF Undelivered, Replies, Rest, Chain
<1> QED  BY <1>1, <1>5, <1>6, <1>7, <1>8 DEF OInv, Order, Known

LEMMA NextInOrder ==
  ASSUME OInv, Next
  PROVE  OInv' /\ InOrder
<1>1. IInv'
  BY NextInv DEF OInv
<1>2. Sound(mb', {})
  BY <1>1 DEF IInv
<1>3. InOrder
  <2>1. CASE Serve \/ Main \/ WriteEvent \/ FinishSdo
    BY <1>2, <2>1, SendingInOrder DEF SendingSteps
  <2>2. CASE ReadActivate \/ ReadStatus \/ NoTransition \/ SdoStillInWork
    BY <2>2, PollingInOrder
  <2>3. CASE StartMailbox \/ StopMailbox \/ Indications
    BY <2>3, StartInOrder, StopInOrder, IndicationsInOrder
  <2>4. CASE Master
    BY <2>4, WriteInOrder, ReadInOrder, RequestRepeatInOrder DEF Master
  <2> QED  BY <2>1, <2>2, <2>3, <2>4 DEF Next, Loop
<1> QED  BY <1>1, <1>3 DEF OInv, InOrder

LEMMA StutterOrder ==
  ASSUME OInv, UNCHANGED vars
  PROVE  OInv'
<1>1. IInv'
  BY NextInv DEF OInv
<1>2. Order'
  BY DEF vars, OInv, Order, Polled
<1> QED  BY <1>1, <1>2 DEF OInv

\* The order of the replies is kept: their numbers follow each other from the
\* oldest one the slave has (mailbox.c:705), SM1 holds the one that
\* was not read, the master accepted last the reply before the oldest or one of
\* the first two, and what ECAT_Main read of SM1 still holds when it acts on it
\* (ecatslv.c:2770).
THEOREM OrderInvariance == Spec => []OInv
<1>1. Init => OInv
  BY InitOrder
<1>2. OInv /\ [Next]_vars => OInv'
  BY NextInOrder, StutterOrder
<1> QED  BY <1>1, <1>2, PTL DEF Spec

\* A step of the queue, from what a step of the mailbox does to the replies.
LEMMA MapsToQueue ==
  ASSUME Undelivered \in Seq(Mails), Maps(Undelivered, got, Undelivered', got')
  PROVE  [Q!Next]_Q!vars
<1>1. CASE got' = got /\ Undelivered' = Undelivered
  BY <1>1 DEF Q!vars
<1>2. CASE got' = got /\ \E x \in Mails : Undelivered' = Append(Undelivered, x)
  <2> DEFINE p == Undelivered
             q == Undelivered'
  <2>1. PICK x \in Mails : q = Append(p, x)
    BY <1>2
  <2>2. p \in Seq(Mails)
    OBVIOUS
  <2> HIDE DEF p, q
  <2>3. Len(q) = Len(p) + 1 /\ Len(p) \in Nat /\ q \in Seq(Mails)
        /\ \A i \in 1..Len(p) : q[i] = p[i]
    BY <2>1, <2>2, AppendProperties, LenProperties
  <2>4. Len(q) > Len(p)
    BY <2>3
  <2>5. SubSeq(q, 1, Len(p)) = p
    <3> DEFINE s == SubSeq(q, 1, Len(p))
    <3>1. \A i \in 1..Len(p) : q[i] \in Mails
      BY <2>2, <2>3, ElementOfSeq
    <3>2. /\ s \in Seq(Mails) /\ Len(s) = IF 1 <= Len(p) THEN Len(p) - 1 + 1 ELSE 0
          /\ \A i \in 1..(Len(p) - 1 + 1) : s[i] = q[1 + i - 1]
      BY <2>3, <3>1, SubSeqProperties
    <3> HIDE DEF s
    <3>3. Len(s) = Len(p) /\ Len(p) - 1 + 1 = Len(p)
      BY <2>3, <3>2
    <3>4. \A i \in 1..Len(p) : s[i] = p[i]
      <4> SUFFICES ASSUME NEW i \in 1..Len(p) PROVE s[i] = p[i]
        OBVIOUS
      <4>1. 1 + i - 1 = i
        BY <2>3
      <4> QED  BY <2>3, <3>2, <3>3, <4>1
    <3>5. s = p
      BY <2>2, <3>2, <3>3, <3>4, SeqEqual
    <3> QED  BY <3>5 DEF s
  <2>6. Q!Send
    BY <1>2, <2>4, <2>5 DEF Q!Send, p, q
  <2> QED  BY <2>6 DEF Q!Next
<1>3. CASE /\ Undelivered # <<>> /\ got' = Head(Undelivered)
           /\ Undelivered' = Tail(Undelivered)
  BY <1>3 DEF Q!Next, Q!Receive
<1>4. CASE Undelivered' = <<>> /\ got' = NoMail
  BY <1>4 DEF Q!Next, Q!Stop
<1> QED  BY <1>1, <1>2, <1>3, <1>4 DEF Maps, Grown

\* To the master the mailbox is a queue: no loss of a reply, no repetition, no
\* failed allocation and no full queue doubles, drops or reorders a reply that
\* was sent, whatever the number of fragments, the depth of the queue, the size
\* of the heap and the number of counters (from 3).
THEOREM RefinesMailQueue == Spec => ImplementsMailQueue
<1>1. Init => Q!Init
  BY InitOrder DEF Q!Init
<1>2. OInv /\ [Next]_vars => [Q!Next]_Q!vars
  <2> SUFFICES ASSUME OInv, [Next]_vars PROVE [Q!Next]_Q!vars
    OBVIOUS
  <2>1. /\ Undelivered = Rest(Chain(mb), got)
        /\ Undelivered' = Rest(Chain(mb'), got')
    BY DEF Undelivered, Replies, Rest, Chain
  <2>2. Undelivered \in Seq(Mails)
    BY <2>1, SeenAccepted DEF OInv, IInv, Typed, Order, Known
  <2>3. CASE Next
    BY <2>1, <2>2, <2>3, NextInOrder, MapsToQueue DEF InOrder
  <2>4. CASE UNCHANGED vars
    BY <2>4 DEF vars, Q!vars, Undelivered, Replies
  <2> QED  BY <2>3, <2>4
<1> QED  BY <1>1, <1>2, OrderInvariance, PTL DEF Spec, ImplementsMailQueue, Q!Spec
===============================================================================
