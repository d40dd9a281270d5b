------------------------------ MODULE MCGuidance ------------------------------
(* A small instance of Guidance: two anchors called Berger, one of which has *)
(* a nickname that expands to the name of a third, whose namesakes only the  *)
(* geocoder knows; and three corridors, the second filed without its last    *)
(* leg, from berger2 to banex.                                               *)
EXTENDS Guidance

CONSTANTS lugbe, berger, banex, berger2,       \* anchors
          plazaA, plazaB, plazaC, bergerX, ibadan,    \* spots
          Banex, Plaza, Berger,                \* words
          plaza, street, nigeria               \* parts of display names

MCTrips == {<<[from |-> lugbe, via |-> <<berger>>, to |-> banex]>>,
            <<[from |-> lugbe, via |-> <<>>, to |-> berger2]>>,
            <<[from |-> banex, via |-> <<>>, to |-> berger],
              [from |-> berger, via |-> <<>>, to |-> lugbe]>>}

MCEnd(t) == IF Last(t).to = berger2 THEN banex ELSE Last(t).to

MCSpots == {plazaA, plazaB, plazaC, bergerX, ibadan}

MCWords == {Banex, Plaza, Berger}

MCCalled(a) == CASE a = banex -> {Plaza}
                 [] a = berger -> {Berger}
                 [] a = berger2 -> {Berger, Banex}
                 [] OTHER -> {}

MCExpand(w) == IF w = Banex THEN Plaza ELSE w

MCResults(w) == IF w = Plaza THEN {plazaA, plazaB, plazaC} ELSE {bergerX, ibadan}

MCZone(s) == CASE s = ibadan -> "far" [] s = bergerX -> "buffer" [] OTHER -> "abuja"

MCDisplay(s) == CASE s = plazaA -> <<plaza, nigeria>>
                  [] s = plazaB -> <<plaza, street, Banex, nigeria>>
                  [] OTHER -> <<street, nigeria>>

MCPlace(s) == CASE s = lugbe -> 0
                [] s = berger -> 4
                [] s \in {banex, plazaA} -> 8
                [] s = berger2 -> 14
                [] s = bergerX -> 6
                [] OTHER -> 30
=============================================================================
