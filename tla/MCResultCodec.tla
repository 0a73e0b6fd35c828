---------------------------- MODULE MCResultCodec -----------------------------
(***************************************************************************)
(* A small vocabulary for ResultCodec: the float that is nearest to 1 is 0, *)
(* 2 is beyond the range of a float, 3 is infinite and 4 is no number.      *)
(***************************************************************************)
EXTENDS ResultCodec

SomeKeys == {"sharpness"}
SomeNumbers == {0, 1, 2}
Infinity == {3}
Nearest == [x \in {0, 1, 2, 3, 4} |->
               IF x = 1 THEN 0 ELSE IF x = 2 THEN 3 ELSE x]
SomeCodes == {-1, 0}
SomeStrings == {"", "MyProvider"}
=============================================================================
