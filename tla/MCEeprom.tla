------------------------------ MODULE MCEeprom ------------------------------
(* Dongles to check Eeprom with TLC: as they are shipped, without a valid  *)
(* image, and with the serial of an earlier dedupe.                        *)
EXTENDS Eeprom

CONSTANTS c1, c2, c3

FewSerials == {Torn} \cup {TestSerial(k) : k \in 0..(MaxPort - 1)} \cup 0..(2 * MaxPort)

Shipped  == [flag |-> FALSE, serial |-> Factory, tail |-> "stale"]
Numbered == [flag |-> TRUE, serial |-> 1, tail |-> "zero"]

SomeImages ==
    {[c \in Chips |-> IF c = c1 THEN x ELSE IF c = c2 THEN y ELSE z] :
        x \in {Shipped, NoImage}, y \in {Shipped, Numbered}, z \in {Shipped, Numbered}}

\* The dongles that stay where they are and take writes are interchangeable.
Symmetry == Permutations({c2, c3})
=============================================================================
