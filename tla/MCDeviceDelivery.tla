-------------------------- MODULE MCDeviceDelivery --------------------------
(***************************************************************************)
(* Two instances; three polls and a request that signs.                    *)
(***************************************************************************)
EXTENDS DeviceDelivery

CONSTANTS i1, i2, old, new, r1, r2, r3, r4

Places == [r \in {r1, r2, r3, r4} |-> IF r \in {r1, r2} THEN i1 ELSE i2]
TwoKeys == [i \in {i1, i2} |-> IF i = i1 THEN old ELSE new]

=============================================================================
