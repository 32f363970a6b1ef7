----------------------------- MODULE MCSdoServer -----------------------------
(***************************************************************************)
(* Values of the constants of SdoServer for model checking.                *)
(***************************************************************************)
EXTENDS SdoServer

MCObjects == {"name", "list", "log"}

(***************************************************************************)
(* With mailboxes of 34 bytes: one mail is enough for name; list fills its *)
(* first segment; log needs three, the last for one byte.                  *)
(***************************************************************************)
MCLength == [o \in MCObjects |-> CASE o = "name" -> 4 [] o = "list" -> 43 [] o = "log" -> 69]
=============================================================================
