-------------------------------- MODULE MCSim -------------------------------
(* A transparent and a cyclic file below the MF and a USIM with one file;    *)
(* the basic channel only, one PIN with one try and one PUK try.  The files'  *)
(* contents do not vary: what is read is told apart by its file.             *)
EXTENDS Sim

MCDfs == {"MF", "USIM"}
MCEfs == {"ICC", "ACM", "IMSI"}
MCAdfs == <<"USIM">>
MCKids == [d \in MCDfs |-> IF d = "MF" THEN {"ICC", "ACM"} ELSE {"IMSI"}]
MCRoot == [d \in MCDfs |-> d]
MCFid == [f \in MCDfs \cup MCEfs |->
            CASE f = "MF" -> "3F00" [] f = "USIM" -> "FF01" [] f = "ICC" -> "2FE2"
              [] f = "ACM" -> "6F39" [] f = "IMSI" -> "6F07"]
MCStructure == [e \in MCEfs |-> IF e = "ACM" THEN "cyclic" ELSE "transparent"]
MCRecords == [e \in MCEfs |-> 1]
MCValMax == [e \in MCEfs |-> 0]
MCReadAc == [e \in MCEfs |-> IF e = "IMSI" THEN "PIN1" ELSE "Always"]
MCUpdateAc == [e \in MCEfs |-> IF e = "IMSI" THEN "ADM1" ELSE "PIN1"]
MCPins == [k \in {"PIN1"} |-> [pin |-> "1111", pin_retries |-> 1, pin_max |-> 1,
                               puk |-> "8888", puk_retries |-> 1,
                               enabled |-> TRUE, verified |-> FALSE]]
MCPaths == {<<"3F00", "2FE2">>}
=============================================================================
