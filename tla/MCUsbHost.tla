------------------------------ MODULE MCUsbHost ------------------------------
EXTENDS UsbHost, TLC

CONSTANT t1
Ways == [via : {"aoa", "adb", "wifi"}, of : {t1}]
\* One start with the network off and the tablet known by its cable, one with USB
\* off and the app approved.
Files == {[lan |-> FALSE, usb |-> TRUE, auto |-> TRUE, known |-> {t1}, approved |-> {}],
          [lan |-> TRUE, usb |-> FALSE, auto |-> TRUE, known |-> {}, approved |-> {t1}]}
OnePort == t1 :> 1
=============================================================================
