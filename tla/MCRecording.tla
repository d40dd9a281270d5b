----------------------------- MODULE MCRecording -----------------------------
(* A small instance of Recording: six replies that name four places, one of *)
(* them by a name too long to be filed.                                    *)
EXTENDS Recording

MCTexts == {"Lugbe", "Wuse", "Berger", "Banex", "banex", "now at Banex"}

MCLong == {"Wuse"}

MCStrip == [t \in MCTexts |-> IF t = "now at Banex" THEN "Banex" ELSE t]

MCLower == [t \in MCTexts |-> CASE t = "Lugbe" -> "lugbe"
                                [] t = "Wuse" -> "wuse"
                                [] t = "Berger" -> "berger"
                                [] t = "now at Banex" -> "now at banex"
                                [] OTHER -> "banex"]
=============================================================================
