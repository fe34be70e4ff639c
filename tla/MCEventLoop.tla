---------------------------- MODULE MCEventLoop ----------------------------
(* The handlers of mup1ct: Dut, Mup1, Coap and one that has no timer.      *)
EXTENDS EventLoop

CONSTANT Ping

MCHandler == {Dut, Mup1, Coap, Ping}
MCPath == [h \in MCHandler |->
             IF h = Dut THEN <<Dut>>
             ELSE IF h = Mup1 THEN <<Mup1, Dut>>
             ELSE <<h, Mup1, Dut>>]
=============================================================================
