------------------------------ MODULE MCFskKeyer ------------------------------
(* A small alphabet for FskKeyer: "E" and "3" share a code, as they do in    *)
(* Baudot, and "%" has none.                                                *)
EXTENDS FskKeyer

MCChar == {"[", "]", " ", "NUL", "E", "3", "%"}
MCCode == {"00", "01", "04"}
MCletters == [i \in MCCode |-> CASE i = "00" -> "NUL" [] i = "01" -> "E" [] OTHER -> " "]
MCfigures == [i \in MCCode |-> CASE i = "00" -> "NUL" [] i = "01" -> "3" [] OTHER -> " "]
MCMessages == {<<"[", "3", "]">>, <<"3">>, <<" ">>}
=============================================================================
