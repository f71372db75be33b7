----------------------------- MODULE MCObjBytes -----------------------------
(* Lengths of arrays, with which ObjBytes is checked: files, and folders     *)
(* with a key in front of the rest.  Two of them do not pack.                *)
EXTENDS ObjBytes

MCArrays == {<<>>, <<1>>, <<3>>, <<5>>, <<6>>, <<7>>, <<8>>, <<9>>,
             <<1, 1>>, <<1, 2>>, <<1, 5>>}
=============================================================================
