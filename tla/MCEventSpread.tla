----------------------------- MODULE MCEventSpread -----------------------------
(* Settings for TLC. *)
EXTENDS EventSpread

Setting(s, r, o, b) == [sender |-> s, reader |-> r, order |-> o, breaks |-> b]

\* Every sender and every reader.
PassModes ==
    {Setting("tcp", "tcp", o, {"shut", "reset"}) : o \in BOOLEAN}
    \cup {Setting("cdev", "cdev", FALSE, {"shut"}), Setting("cdev", "cdev", TRUE, {})}

\* A sorting reader, and a sender that ends.
ShutModes == {Setting("tcp", "tcp", TRUE, {"shut"})}
====
