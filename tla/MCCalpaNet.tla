------------------------------ MODULE MCCalpaNet ------------------------------
EXTENDS CalpaNet

MCSize == [d \in EvalSet |-> IF d = "valid" THEN 4 ELSE 2]
MCBatch == [d \in EvalSet \cup {"train"} |-> IF d = "train" THEN 1 ELSE 2]
MCCapacity == [d \in EvalSet |-> 4]
MCInterval == [d \in EvalSet |-> 2]

MCSlot == {"layer9", "layer9_l1", "block2", "block2_l1"}
MCMethod == [s \in MCSlot |-> CASE s = "layer9" -> "thinet" [] s = "layer9_l1" -> "li"
                                [] s = "block2" -> "xunet_thinet" [] OTHER -> "xunet_li"]
MCChannels == [s \in MCSlot |-> CASE s = "layer9" -> 4 [] s = "layer9_l1" -> 3
                                  [] s = "block2" -> 6 [] OTHER -> 3]
MCFile == {"t02", "t05", "x_thinet", "x_li"}
MCSetupFiles == [n \in {"srnet", "xunet"} |-> IF n = "srnet" THEN <<"t02", "t05">>
                                              ELSE <<"x_thinet", "x_li">>]
MCFilesOf == [s \in MCSlot |-> CASE s = "block2" -> <<"x_thinet">> [] s = "block2_l1" -> <<"x_li">>
                                 [] OTHER -> <<"t02", "t05">>]
MCThreshold == [f \in MCFile |-> IF f = "t05" THEN 1 ELSE 0]
=============================================================================
