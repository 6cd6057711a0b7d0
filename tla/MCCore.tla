------------------------------- MODULE MCCore -------------------------------
(* A phone p with a USB serial u and a network address j, which a phone q may   *)
(* get as well; ro.serialno of p is its USB serial.                            *)
EXTENDS Core

MCPhones == {"p", "q"}
MCIds == Addrs \cup {"u", "q"}
MCSerialNo == [p |-> "u", q |-> "q"]
MCKindOf == [a \in Addrs |-> IF a = "u" THEN "usb" ELSE "ip"]
MCHomes == [a \in Addrs |-> IF a = "j" THEN {"p", "q"} ELSE {"p"}]
=============================================================================
