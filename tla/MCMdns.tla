-------------------------------- MODULE MCMdns --------------------------------
(***************************************************************************)
(* Mdns for TLC: two bridges, and a service that changes its fields, its   *)
(* name and its port, or sends answers that are to be skipped.             *)
(***************************************************************************)
EXTENDS Mdns

Says(name, txt) == [name |-> name, txt |-> txt]

Lamp == Says("lamp", <<<<"PORT", "80">>, <<"A", "1">>>>)
LampToo == Says("lamp", <<<<"PORT", "80">>, <<"B", "1">>, <<"PORT", "2">>>>)
Cam == Says("cam", <<<<"PORT", "80">>, <<"A", "2">>>>)
CamMoved == Says("cam", <<<<"PORT", "81">>>>)
Late == Says("cam", <<<<"A", "3">>, <<"PORT", "80">>>>)
Printer == Says("printer", <<<<"PORT", "80">>>>)

TheAds == {[from |-> "dev", reach |-> {"b1"}, answers |-> a] :
              a \in {<<Lamp>>, <<Cam>>, <<LampToo, CamMoved>>, <<Late, Printer>>}}

TheNames == {"lamp", "cam"}
TheBridges == {"b1", "b2"}
LongAgo == -9
===============================================================================
