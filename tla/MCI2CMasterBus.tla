--------------------------- MODULE MCI2CMasterBus ---------------------------
(* The I2C master with any user and any bus: two bits to a byte and a      *)
(* quarter of SCL of two clocks, the smallest the bus rule allows.  The    *)
(* user asks for a write (bit 0 is 0) and for a read.                      *)
EXTENDS I2CMasterBus

TwoBytes == {[i \in BitNo |-> 0], [i \in BitNo |-> 1]}
============================================================================
