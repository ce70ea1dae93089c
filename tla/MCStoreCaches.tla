--------------------------- MODULE MCStoreCaches ---------------------------
(* An array, spelled two ways, a node that is listed and then not there,    *)
(* and a name that no node has.  Documents a and b describe an array alike  *)
(* and encode it differently; c describes it otherwise.                     *)
EXTENDS StoreCaches

MCNames == {"SKY", "./SKY", "MASK", ".."}
MCCanon == [n \in Names |-> CASE n = "./SKY" -> "SKY" [] n = ".." -> Refused [] OTHER -> n]
MCArrayDocs == {"a", "b", "c"}
MCDescribed == [d \in MCArrayDocs |-> IF d = "c" THEN 2 ELSE 1]
MCConsolidations == {{}, {<<"SKY", "a">>}}
MCOwnDocs == [n \in {"SKY", "MASK"} |-> IF n = "SKY" THEN {"b", "c"} ELSE {"absent"}]
=============================================================================
