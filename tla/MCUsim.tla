------------------------------- MODULE MCUsim -------------------------------
(* An MF, a USIM with a transparent file, a cyclic counter and the           *)
(* phonebook, and an ISIM whose EF has the identifier of a USIM's.  No PIN   *)
(* is registered, so that every access condition but "Never" is met.         *)
EXTENDS Usim

MCDfs == {"MF", "USIM", "ISIM", "PB"}
MCEfs == {"AD", "ACM", "IAD", "ADN", "PSC", "CC"}
MCAdfs == <<"USIM", "ISIM">>
MCKids == [d \in MCDfs |-> CASE d = "MF" -> {}
                             [] d = "USIM" -> {"AD", "ACM", "PB"}
                             [] d = "ISIM" -> {"IAD"}
                             [] d = "PB" -> {"ADN", "PSC", "CC"}]
MCRoot == [d \in MCDfs |-> IF d = "PB" THEN "USIM" ELSE d]
MCFid == [f \in MCDfs \cup MCEfs |->
            CASE f = "MF" -> "3F00" [] f = "USIM" -> "FF01" [] f = "ISIM" -> "FF02"
              [] f = "PB" -> "5F3A" [] f \in {"AD", "IAD"} -> "6FAD"
              [] f = "ACM" -> "6F39" [] f = "ADN" -> "4F31" [] f = "PSC" -> "4F22"
              [] f = "CC" -> "4F23"]
MCStructure == [e \in MCEfs |-> CASE e = "ACM" -> "cyclic" [] e = "ADN" -> "linear"
                                  [] OTHER -> "transparent"]
MCRecords == [e \in MCEfs |-> 1]
MCValMax == [e \in MCEfs |-> IF e \in {"IAD", "AD"} THEN 0 ELSE 1]
MCReadAc == [e \in MCEfs |-> CASE e = "IAD" -> "Always" [] OTHER -> "PIN1"]
MCUpdateAc == [e \in MCEfs |-> CASE e = "IAD" -> "Never" [] e = "AD" -> "ADM1"
                                 [] OTHER -> "PIN1"]
MCPins == [k \in {} |-> k]
MCPaths == {<<>>, <<"5F3A", "4F31">>, <<"5F3A", "2F05">>, <<"7FFF", "5F3A">>}
=============================================================================
