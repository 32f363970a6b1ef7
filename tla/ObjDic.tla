------------------------------- MODULE ObjDic -------------------------------
(***************************************************************************)
(* The object dictionary of the drive application (the build with          *)
(* CiA402_SAMPLE_APPLICATION) and what changes it: the master assigns PDOs *)
(* (0x1C12) or configures modules (0xF030) by SDO downloads, the way to    *)
(* SAFEOP puts the objects of the assigned axes into the linked list of    *)
(* objects or takes them out, and in between the fragments of an object    *)
(* list are read from it.                                                  *)
(*                                                                         *)
(* Downloads that are refused as a whole change nothing and are left out;  *)
(* those that fail half-way are not.  0x1C13 is written as 0x1C12 is.      *)
(***************************************************************************)
EXTENDS Integers, FiniteSets, SequencesExt

CONSTANTS MAX_AXES,
          General,     \* indices of GenObjDic and ApplicationObjDic, in their order
          AxisObjects, \* indices of the ObjDic of each axis, in their order
          PdoSize,     \* bytes of the RxPDO of each mode (0: csv/csp, 1: csp, 2: csv)
          Pdos,        \* values the master writes to the entries of 0x1C12
          Modules,     \* and of 0xF030
          Uppers,      \* upper bytes of the words it writes to their subindex 0
          Room         \* bytes for indices in the first fragment of a list

NULL == 0

Slots   == 0..MAX_AXES - 1
Indices == ToSet(General) \cup UNION {ToSet(AxisObjects[a]) : a \in Slots}

\* Four bits of the index of a PDO name its axis.
ASSUME AxesAssumption == /\ MAX_AXES \in 1..16
                         /\ General \in Seq(Nat \ {0})
                         /\ AxisObjects \in [Slots -> Seq(Nat \ {0})]
\* The offsets 0x10 and 0x800 of CiA402_Init keep the axes apart, so that
\* COE_AddObjectToDic never finds an object that it is to add.
ASSUME DistinctAssumption ==
  /\ IsInjective(General) /\ \A a \in Slots : IsInjective(AxisObjects[a])
  /\ \A a \in Slots : ToSet(General) \cap ToSet(AxisObjects[a]) = {}
  /\ \A a, b \in Slots : a # b => ToSet(AxisObjects[a]) \cap ToSet(AxisObjects[b]) = {}
ASSUME PdoAssumption == /\ Pdos \subseteq Nat /\ Uppers \subseteq 0..255
                        /\ Modules \subseteq {"none", "csvcsp", "csp", "csv", "bad"}
                        /\ PdoSize \in [0..2 -> Nat]
\* The size of the send mailbox is even.
ASSUME RoomAssumption == Room \in Nat /\ Room > 0 /\ Room % 2 = 0

VARIABLES al,      \* nAlStatus
          rx,      \* sRxPDOassign: subindex 0 and the entries, by slot
          late,    \* whether these changed in SAFEOP or OP, after the mapping
          modules, \* sConfiguredModuleIdentList, likewise
          endless, \* whether the loop over the modules has no end any more
          active,  \* bAxisIsActive
          size,    \* nPdOutputSize
          dic,     \* ObjDicList, pNext and pPrev
          list     \* object list: nSdoInfoFragmentsLeft, pSdoInfoObjEntry; the
                   \* indices the master has got and whether dic is still as it was

vars == <<al, rx, late, modules, endless, active, size, dic, list>>

-----------------------------------------------------------------------------
(* The linked list.  *)

(***************************************************************************)
(* The objects from e on, as pNext leads to them.  (The walk has as many   *)
(* steps as there are objects: it ends in a list with a loop, too.)        *)
(***************************************************************************)
ChainFrom(d, e) ==
  LET at[i \in 1..Cardinality(Indices) + 1] ==
        IF i = 1 THEN e ELSE IF at[i - 1] = NULL THEN NULL ELSE d.next[at[i - 1]]
  IN  SubSeq(at, 1, Cardinality({i \in DOMAIN at : at[i] # NULL}))

Chain(d) == ChainFrom(d, d.head)

Empty == [head |-> NULL, next |-> [x \in Indices |-> NULL], prev |-> [x \in Indices |-> NULL]]

Link(f, x, y) == IF x = NULL THEN f ELSE [f EXCEPT ![x] = y]

(***************************************************************************)
(* Before e, the first object with a greater index; or after t, the last.  *)
(***************************************************************************)
InsertBefore(d, x, e) ==
  LET p == IF e = d.head THEN NULL ELSE d.prev[e]
  IN  [head |-> IF e = d.head THEN x ELSE d.head,
       next |-> Link([d.next EXCEPT ![x] = e], p, x),
       prev |-> [d.prev EXCEPT ![x] = p, ![e] = x]]

InsertAfter(d, x, t) ==
  [d EXCEPT !.next = Link([@ EXCEPT ![x] = NULL], t, x), !.prev[x] = t]

COE_AddObjectToDic(d, x) ==
  LET c == Chain(d)
      i == SelectInSeq(c, LAMBDA y : y >= x)
  IN  CASE c = <<>>            -> [d EXCEPT !.head = x, !.next[x] = NULL, !.prev[x] = NULL]
        [] c # <<>> /\ i = 0   -> InsertAfter(d, x, Last(c))
        [] i # 0 /\ c[i] = x   -> d
        [] i # 0 /\ c[i] # x   -> InsertBefore(d, x, c[i])

(***************************************************************************)
(* An operator ...Mutated, here and below, is the next definition with a   *)
(* slip that a property must find.                                         *)
(***************************************************************************)
COE_RemoveDicEntryMutated(d, x) ==
  IF x \notin ToSet(Chain(d)) THEN d
  ELSE [head |-> IF x = d.head THEN d.next[x] ELSE d.head,
        next |-> [Link(d.next, d.prev[x], d.next[x]) EXCEPT ![x] = NULL],
        prev |-> [d.prev EXCEPT ![x] = NULL]]
COE_RemoveDicEntry(d, x) ==
  IF x \notin ToSet(Chain(d)) THEN d
  ELSE [head |-> IF x = d.head THEN d.next[x] ELSE d.head,
        next |-> [Link(d.next, d.prev[x], d.next[x]) EXCEPT ![x] = NULL],
        prev |-> [Link(d.prev, d.next[x], d.prev[x]) EXCEPT ![x] = NULL]]

COE_ObjDictionaryInit == FoldLeft(COE_AddObjectToDic, Empty, General)

-----------------------------------------------------------------------------
(* The mapping.  *)

AxisOf(pdo) == (pdo \div 16) % 16
ModeOf(pdo) == pdo % 16

SizeOf(pdo) == IF ModeOf(pdo) \in DOMAIN PdoSize THEN PdoSize[ModeOf(pdo)] ELSE 0

OutputSize(assign) ==
  FoldLeft(LAMBDA n, j : n + SizeOf(assign.e[j - 1]), 0, [j \in 1..assign.n |-> j])

(***************************************************************************)
(* A slot whose PDO is one of its own axis activates the axis, any other   *)
(* PDO deactivates it; slots that are not counted are left alone.          *)
(***************************************************************************)
AdaptSlot(s, j) ==
  CASE AxisOf(rx.e[j]) = j /\ ~s.active[j] ->
         [s EXCEPT !.dic = FoldLeft(COE_AddObjectToDic, @, AxisObjects[j]), !.active[j] = TRUE]
    [] AxisOf(rx.e[j]) # j /\ s.active[j] ->
         [s EXCEPT !.dic = FoldLeft(COE_RemoveDicEntry, @, AxisObjects[j]), !.active[j] = FALSE]
    [] OTHER -> s

APPL_GenerateMapping ==
  LET s == FoldLeft(AdaptSlot, [dic |-> dic, active |-> active], [i \in 1..rx.n |-> i - 1])
  IN  /\ dic' = s.dic
      /\ active' = s.active
      /\ size' = OutputSize(rx)
      /\ late' = FALSE
      /\ list' = [list EXCEPT !.calm = @ /\ s.dic = dic]

(***************************************************************************)
(* PREOP_2_SAFEOP: the mapping, then CheckSmSettings and the rest, which   *)
(* may refuse.  More PDOs than axes are refused before anything is mapped. *)
(***************************************************************************)
ToSafeop ==
  /\ al = "PREOP"
  /\ \/ rx.n > MAX_AXES /\ UNCHANGED <<al, late, active, size, dic, list>>
     \/ rx.n <= MAX_AXES /\ APPL_GenerateMapping /\ al' \in {"PREOP", "SAFEOP"}
  /\ UNCHANGED <<rx, modules, endless>>

OtherTransition ==
  /\ al # "PREOP"
  /\ al' \in {"PREOP", "SAFEOP", "OP"} \ {al}
  /\ UNCHANGED <<rx, late, modules, endless, active, size, dic, list>>

-----------------------------------------------------------------------------
(***************************************************************************)
(* Subindex 0 is written as a word of which only the lower byte is         *)
(* compared with the number of entries; the word is stored.  (In an access *)
(* to subindex 0 alone the upper byte is the fill byte of the frame.)      *)
(***************************************************************************)
Low(w) == w % 256

Words == {n + 256 * u : n \in 0..MAX_AXES + 1, u \in Uppers}

-----------------------------------------------------------------------------
(* OBJ_Write to 0x1C12: an object without a Write function.  *)

ValidPdos == {0} \cup (\h1600..\h17FF) \cup (\h1A00..\h1BFF)

(***************************************************************************)
(* The first k entries written one after the other, up to a bad one.       *)
(***************************************************************************)
FirstBad(new, k, good) ==
  {j \in Slots : j < k /\ new[j] \notin good /\ \A i \in 0..j - 1 : new[i] \in good}

Written(old, new, k, good) ==
  [j \in Slots |-> IF j < k /\ \A i \in 0..j : new[i] \in good THEN new[j] ELSE old[j]]

MaxSubindex(object) == IF Low(object.n) = 0 THEN MAX_AXES ELSE Low(object.n)

Elsewhere == <<al, late, modules, endless, active, size, dic, list>>

WriteCountMutated(w) ==
  /\ al = "PREOP"
  /\ rx' = [rx EXCEPT !.n = w]
  /\ UNCHANGED Elsewhere
WriteCount(w) ==
  /\ al = "PREOP" /\ Low(w) <= MAX_AXES
  /\ rx' = [rx EXCEPT !.n = w]
  /\ UNCHANGED Elsewhere

(***************************************************************************)
(* Entries can be changed while the lower byte of subindex 0 is 0 only.    *)
(***************************************************************************)
WriteEntry(j, v) ==
  /\ al = "PREOP" /\ Low(rx.n) = 0 /\ j < MaxSubindex(rx) /\ v \in ValidPdos
  /\ rx' = [rx EXCEPT !.e[j] = v]
  /\ UNCHANGED Elsewhere

(***************************************************************************)
(* Complete access, from subindex 0.                                       *)
(***************************************************************************)
WriteAllMutated(w, e) ==
  /\ Low(w) <= MAX_AXES
  /\ rx' = [n |-> w, e |-> Written(rx.e, e, Low(w), ValidPdos)]
  /\ UNCHANGED Elsewhere
WriteAll(w, e) ==
  /\ al = "PREOP" /\ Low(w) <= MAX_AXES
  /\ rx' = [n |-> w, e |-> Written(rx.e, e, Low(w), ValidPdos)]
  /\ UNCHANGED Elsewhere

(***************************************************************************)
(* Complete access, from subindex 1.                                       *)
(***************************************************************************)
WriteEntries(e) ==
  /\ al = "PREOP" /\ Low(rx.n) = 0
  /\ rx' = [rx EXCEPT !.e = Written(@, e, MaxSubindex(rx), ValidPdos)]
  /\ UNCHANGED Elsewhere

-----------------------------------------------------------------------------
(* Write0xF030.  *)

ValidModules == {"none", "csvcsp", "csp", "csv"}

PdoOf(m, j) == CASE m = "csvcsp" -> \h1600 + 16 * j
                 [] m = "csp"    -> \h1601 + 16 * j
                 [] m = "csv"    -> \h1602 + 16 * j
                 [] OTHER        -> 0

Assigned(m) == [n |-> m.n, e |-> [j \in Slots |-> IF j < m.n THEN PdoOf(m.e[j], j) ELSE rx.e[j]]]

(***************************************************************************)
(* Subindex 0 is w and the first k entries are written; then the modules   *)
(* go to 0x1C12, in a loop whose counter is a byte: it has no end when w   *)
(* is more, and runs out of the arrays, which is where the model ends.     *)
(* After a bad entry subindex 0 says how far the entries go, and 0x1C12    *)
(* stays as it was.                                                        *)
(***************************************************************************)
Configure(w, e, k) ==
  LET m   == [n |-> w, e |-> Written(modules.e, e, k, ValidModules)]
      bad == FirstBad(e, k, ValidModules)
  IN  /\ \/ /\ bad = {} /\ modules' = m /\ rx' = Assigned(m)
            /\ late' = (late \/ al # "PREOP") /\ endless' = (w > 255)
         \/ /\ \E j \in bad : modules' = [m EXCEPT !.n = IF m.e[j] # "none" THEN j + 1 ELSE j]
            /\ UNCHANGED <<rx, late, endless>>
      /\ UNCHANGED <<al, active, size, dic, list>>

ConfigureCount(w) == al = "PREOP" /\ Low(w) <= MAX_AXES /\ Configure(w, modules.e, 0)

ConfigureEntry(j, m) ==
  al = "PREOP" /\ j < modules.n /\ Configure(modules.n, [modules.e EXCEPT ![j] = m], j + 1)

(***************************************************************************)
(* Complete access, from subindex 0 and from subindex 1: the AL state and  *)
(* the access rights of the entries are not looked at.                     *)
(***************************************************************************)
ConfigureAll(w, e) == Low(w) <= MAX_AXES /\ Configure(w, e, Low(w))

ConfigureEntries(e) == Configure(modules.n, e, Low(modules.n))

-----------------------------------------------------------------------------
(* SDOS_SdoInfoInd: the list of all objects.  *)

(***************************************************************************)
(* OBJ_GetObjectList: as many indices as there is room for, from e on.     *)
(* (It starts again with the list when e is 0x1000: that is the first      *)
(* index there is, and the first fragment always has it.)                  *)
(***************************************************************************)
Fragment(e, room) ==
  LET c == ChainFrom(dic, e)
      k == IF Len(c) <= room \div 2 THEN Len(c) ELSE room \div 2
  IN  [indices |-> SubSeq(c, 1, k), rest |-> IF k < Len(c) THEN c[k + 1] ELSE NULL]

(***************************************************************************)
(* Fragments after the first, which have room for one index more.          *)
(***************************************************************************)
FragmentsLeftMutated(n) ==
  IF 2 * n > Room THEN (2 * n - Room) \div (Room + 2) ELSE 0
FragmentsLeft(n) ==
  IF 2 * n > Room THEN (2 * n - Room + Room + 1) \div (Room + 2) ELSE 0

FirstFragment ==
  /\ list.left = 0
  /\ LET f == Fragment(dic.head, Room)
     IN  list' = [left |-> FragmentsLeft(Len(Chain(dic))), at |-> f.rest,
                  got |-> f.indices, calm |-> TRUE]
  /\ UNCHANGED <<al, rx, late, modules, endless, active, size, dic>>

NextFragment ==
  /\ list.left > 0
  /\ LET f == Fragment(list.at, Room + 2)
     IN  list' = [list EXCEPT !.left = @ - 1, !.at = f.rest, !.got = @ \o f.indices]
  /\ UNCHANGED <<al, rx, late, modules, endless, active, size, dic>>

-----------------------------------------------------------------------------
(***************************************************************************)
(* ecat_thread_entry: the dictionary and a first mapping, which activates  *)
(* axis 0.                                                                 *)
(***************************************************************************)
Init ==
  /\ al = "PREOP"
  /\ rx = [n |-> 1, e |-> [j \in Slots |-> IF j = 0 THEN \h1601 ELSE 0]]
  /\ late = FALSE /\ endless = FALSE
  /\ modules = [n |-> 1, e |-> [j \in Slots |-> IF j = 0 THEN "csp" ELSE "none"]]
  /\ active = [j \in Slots |-> j = 0]
  /\ size = OutputSize(rx)
  /\ dic = FoldLeft(COE_AddObjectToDic, COE_ObjDictionaryInit, AxisObjects[0])
  /\ list = [left |-> 0, at |-> NULL, got |-> <<>>, calm |-> FALSE]

Downloads ==
  \/ \E w \in Words : WriteCount(w) \/ ConfigureCount(w)
  \/ \E w \in Words, e \in [Slots -> Pdos] : WriteAll(w, e)
  \/ \E w \in Words, e \in [Slots -> Modules] : ConfigureAll(w, e)
  \/ \E j \in Slots, v \in Pdos : WriteEntry(j, v)
  \/ \E j \in Slots, m \in Modules : ConfigureEntry(j, m)
  \/ \E e \in [Slots -> Pdos] : WriteEntries(e)
  \/ \E e \in [Slots -> Modules] : ConfigureEntries(e)

Next == /\ ~endless
        /\ ToSafeop \/ OtherTransition \/ Downloads \/ FirstFragment \/ NextFragment

Spec == Init /\ [][Next]_vars

-----------------------------------------------------------------------------
(* Properties.  *)

Objects == ToSet(General) \cup UNION {ToSet(AxisObjects[a]) : a \in {b \in Slots : active[b]}}

Ascending(s) == \A i, j \in DOMAIN s : i < j => s[i] < s[j]

(***************************************************************************)
(* Whatever the master writes, and wherever a write stops, no value that   *)
(* was refused is in the objects.  Of the words in subindex 0 only the     *)
(* lower byte is sure to be a number of entries, until the loop over the   *)
(* modules is past: what it leaves is one.                                 *)
(***************************************************************************)
TypeOK ==
  /\ al \in {"PREOP", "SAFEOP", "OP"}
  /\ rx.n \in Nat /\ Low(rx.n) <= MAX_AXES /\ \A j \in Slots : rx.e[j] \in ValidPdos
  /\ modules.n \in Nat /\ Low(modules.n) <= MAX_AXES
  /\ modules.e \in [Slots -> ValidModules]
  /\ endless \in BOOLEAN /\ (~endless => modules.n <= MAX_AXES)
  /\ late \in BOOLEAN /\ active \in [Slots -> BOOLEAN] /\ size \in Nat
  /\ dic \in [head : Indices \cup {NULL}, next : [Indices -> Indices \cup {NULL}],
               prev : [Indices -> Indices \cup {NULL}]]
  /\ list.left \in Nat /\ list.at \in Indices \cup {NULL} /\ list.calm \in BOOLEAN

(***************************************************************************)
(* The list has the general objects and those of the active axes, each     *)
(* once, by index, and can be walked both ways, however often axes come    *)
(* and go - as long as no loop runs over it.                               *)
(***************************************************************************)
DictionaryIsOrdered ==
  LET c == Chain(dic)
  IN  ~endless =>
        /\ Ascending(c) /\ ToSet(c) = Objects
        /\ \A i \in DOMAIN c : dic.prev[c[i]] = IF i = 1 THEN NULL ELSE c[i - 1]

(***************************************************************************)
(* APPL_OutputMapping goes by the PDOs assigned now: in SAFEOP and OP they *)
(* are no more than the axes, however subindex 0 was written.  Unless all  *)
(* modules were written since the mapping, they have the size the sync     *)
(* manager was checked against, and the PDO of a slot's own axis finds the *)
(* axis active.                                                            *)
(***************************************************************************)
Fits ==
  /\ size = OutputSize(rx)
  /\ \A j \in 0..rx.n - 1 : AxisOf(rx.e[j]) = j => active[j]

MappingFits ==
  al # "PREOP" /\ ~endless => rx.n <= MAX_AXES /\ (late \/ Fits)

(***************************************************************************)
(* The fragments of a list together are ascending indices.  They are all   *)
(* there, with none announced too few or too many, when no mapping changed *)
(* the dictionary since the first; when one did, the list may end early:   *)
(* pSdoInfoObjEntry may be an object that was taken out.                   *)
(***************************************************************************)
ListsAreComplete ==
  ~endless => /\ Ascending(list.got)
              /\ list.calm /\ list.left = 0 => list.got = Chain(dic)
=============================================================================
