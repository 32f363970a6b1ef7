------------------------------ MODULE MCObjDic ------------------------------
(***************************************************************************)
(* Values of the constants of ObjDic for model checking.                   *)
(***************************************************************************)
EXTENDS ObjDic

\* Objects of GenObjDic, then one of ApplicationObjDic, which goes in between.
MCGeneral == <<\h1000, \h1C32, \h1C12>>

\* One PDO and the control word of each of the two axes.
MCAxisObjects == [a \in Slots |-> IF a = 0 THEN <<\h1601, \h6040>> ELSE <<\h1611, \h6840>>]

\* DefCiA402ObjectValues: 128, 224 and 192 bits.
MCPdoSize == [m \in 0..2 |-> <<16, 28, 24>>[m + 1]]

\* One of axis 1 (0x1601 and 0x1611 come from the modules and have another size), and
\* the index of no PDO.
MCPdos == {\h1612, \h1018}
===============================================================================
