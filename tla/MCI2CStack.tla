----------------------------- MODULE MCI2CStack -----------------------------
(* The I2C stack on requests of two and three bytes, two bits to a byte.   *)
EXTENDS I2CStack

Byte(b1, b0) == [i \in 0 .. 1 |-> IF i = 0 THEN b0 ELSE b1]
Addr(b)      == [i \in 0 .. 0 |-> b]
Req(a, w, n) == [addr |-> Addr(a), writes |-> w, reads |-> n]

Mixed == { Req(1, <<Byte(0, 1), Byte(0, 0)>>, 0),
           Req(1, <<Byte(1, 0), Byte(0, 1), Byte(1, 1)>>, 0),
           Req(0, <<Byte(0, 1)>>, 2),
           Req(1, <<>>, 2) }

OneByte  == { Req(1, <<Byte(1, 0)>>, 0) }
============================================================================
