------------------------------- MODULE MCWire -------------------------------
(* Bytes of two bits and cookies of two bytes.  A hello has an empty or a     *)
(* longer field; the client's array doubles for every packet, and the bytes   *)
(* behind an answer are none or some.  A torn read may begin with the version  *)
(* number, which then reads as SC_QUERY_MEMORY.                               *)
EXTENDS Wire

MCXor == [b \in 0..3 |-> IF b % 2 = 0 THEN b + 1 ELSE b - 1]
MCTransformer == [b \in 0..3 |-> 3 - b]
MCHellos == {<< <<1>>, <<2, 3>>, <<3>>, <<1, 2>> >>, << <<>>, <<2>>, <<>>, <<3>> >>}
MCCookies == {<<1, 2>>, <<2, 0>>}
MCTails == {<<>>, <<1, 3>>}
=============================================================================
