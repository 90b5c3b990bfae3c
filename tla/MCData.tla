-------------------------------- MODULE MCData --------------------------------
(* Tables for checking the feeds with TLC: up to three rows whose closes stay,
   move by two, by four to six percent and by a half, in every quality; and the
   symmetry of the callers of the cache.                                      *)
EXTENDS Data, TLC

Dates == <<1, 4, 9>>
Bar(date, close, quality) ==
    [date    |-> date,
     open    |-> close - 4,
     high    |-> IF quality = "bad" THEN close - 2 ELSE close + 2,
     low     |-> close - 8,
     close   |-> close,
     volume  |-> IF quality = "idle" THEN 0 ELSE 1,
     missing |-> quality = "missing"]
Qualities == {"good", "bad", "idle", "missing"}
Closes == {100, 102, 106, 52}
BarsOn(i) == {Bar(Dates[i], c, q) : c \in Closes, q \in Qualities}

MCTables ==
    {<< >>} \cup {<<x>> : x \in BarsOn(1)}
            \cup {<<x, y>> : x \in BarsOn(1), y \in BarsOn(2)}
            \cup {<<x, y, z>> : x \in BarsOn(1), y \in BarsOn(2), z \in BarsOn(3)}
MCSpans == {[first |-> 1, last |-> 9], [first |-> 1, last |-> 4], [first |-> 4, last |-> 9]}
MCFactors == {<< >>, <<2>>, <<3>>, <<0, 3>>, <<1, 3>>, <<2, 0>>, <<1, 2, 3>>, <<3, 0, 7>>}
MCLimits == [futures_commodity |-> 6, stock |-> 11]

CallerSymmetry == Permutations(Callers)
===============================================================================
