----------------------------- MODULE MCCatalogue -----------------------------
(* A small instance of Catalogue: two places in Lugbe's names, and Banex.   *)
EXTENDS Catalogue, TLC

CONSTANTS a1, a2

MCSymmetry == Permutations({a1, a2})

MCNames == {"signpost", "signboard", "banex", "banex plaza"}
MCPins == {"lugbe", "lugbe gate", "wuse"}

Sym(r) == r \cup {<<p[2], p[1]>> : p \in r}

MCNear == {<<p, p>> : p \in MCPins} \cup Sym({<<"lugbe", "lugbe gate">>})
MCOverlaps == {<<n, n>> : n \in MCNames} \cup Sym({<<"banex", "banex plaza">>})
MCSynonyms == MCOverlaps \cup Sym({<<"signpost", "signboard">>})

Stop(n, p, as) == [name |-> n, pin |-> p, aliases |-> as]
Seg(f, via, t) == [from |-> f, via |-> via, to |-> t]

MCSubmissions ==
  {[stops |-> <<Stop("signboard", "lugbe gate", {}), Stop("banex", "wuse", {})>>,
    segments |-> <<Seg("signboard", {}, "banex")>>,
    destination |-> "banex"],
   [stops |-> <<Stop("signpost", "lugbe", {}), Stop("banex plaza", "wuse", {"banex"})>>,
    segments |-> <<Seg("signpost", {}, "banex plaza")>>,
    destination |-> "banex plaza"],
   [stops |-> <<Stop("banex", "wuse", {}), Stop("banex plaza", "wuse", {})>>,
    segments |-> <<Seg("banex", {}, "banex plaza")>>,
    destination |-> "banex plaza"]}

MCMoves == {<<"signpost", "wuse">>, <<"banex", "lugbe">>}

MCFiles ==
  {[stops |-> <<Stop("signpost", "lugbe", {}), Stop("banex", "wuse", {})>>,
    segments |-> <<Seg("signpost", {}, "banex")>>,
    destination |-> "banex",
    status |-> "approved"]}
=============================================================================
