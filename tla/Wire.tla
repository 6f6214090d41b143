-------------------------------- MODULE Wire --------------------------------
(***************************************************************************)
(* protocol.cpp on the bytes of a packet: what is sent, and what spd makes *)
(* of the bytes that one recv returned.                                    *)
(***************************************************************************)
EXTENDS Json

TYPE == <<116, 121, 112, 101>>
NODE_ID == <<110, 111, 100, 101, 95, 105, 100>>
STATUS == <<115, 116, 97, 116, 117, 115>>
ERROR_MESSAGE == <<101, 114, 114, 111, 114, 95, 109, 101, 115, 115, 97, 103, 101>>
OK == <<111, 107>>
ERROR == <<101, 114, 114, 111, 114>>
CONNECT == <<99, 111, 110, 110, 101, 99, 116>>
REGISTER == <<114, 101, 103, 105, 115, 116, 101, 114>>
NEWLINE == <<10>>

\* j[key], which makes a null an object and throws on anything else.
Member(j, key) ==
  CASE j.type = "object" /\ key \in DOMAIN j.object -> Returns(j.object[key])
    [] j.type = "object" /\ key \notin DOMAIN j.object -> Returns(Null)
    [] j.type = "null" -> Returns(Null)
    [] OTHER -> Throws

\* j[key] = text, on a null j or an object.
Assign(j, key, text) ==
  Object((key :> Text(text)) @@ (IF j.type = "null" THEN <<>> ELSE j.object))

makeRequest(type, node_id) ==
  dump(Assign(Assign(Null, TYPE, type), NODE_ID, node_id)) \o NEWLINE

makeResponse(success, errMsg) ==
  LET res == Assign(Null, STATUS, IF success THEN OK ELSE ERROR) IN
  dump(IF success THEN res ELSE Assign(res, ERROR_MESSAGE, errMsg)) \o NEWLINE

\* buf[res_len] = '\0': the constructor gets buf up to its first NUL.
CString(bytes) ==
  LET end == {i \in DOMAIN bytes : bytes[i] = 0} IN
  IF end = {} THEN bytes
  ELSE SubSeq(bytes, 1, (CHOOSE i \in end : \A k \in end : i <= k) - 1)

\* The type of the request that spd received, and the id in it: of the two
\* requests that carry one and come from another program's command line.
NodeIdOf(j, type) ==
  LET id == Member(j, NODE_ID) IN
  IF id.value.type = "string" THEN Returns([type |-> type, node_id |-> id.value.string])
                              ELSE Throws
RequestOf(r, type) ==
  IF ~r.ok THEN Throws
  ELSE IF ~type.ok THEN Throws
  ELSE IF type.value \in {Text(REGISTER), Text(CONNECT)}
       THEN NodeIdOf(r.value, type.value.string)
       ELSE Returns([type |-> <<>>])
Received(bytes) == LET r == parse(CString(bytes)) IN RequestOf(r, Member(r.value, TYPE))
=============================================================================
