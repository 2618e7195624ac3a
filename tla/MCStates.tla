------------------------------ MODULE MCStates ------------------------------
(* Save states for TLC: one game's states on two cards, in States and in an    *)
(* emulator's folder.                                                          *)
EXTENDS SaveStates

CONSTANTS mgba, nested, red

Suffix(form, number, png) == [form |-> form, number |-> number, png |-> png]

MCStateFiles ==
    {<<1, Flat, red, Suffix("plain", NoNumber, png)>> : png \in BOOLEAN}
    \cup {<<1, mgba, red, Suffix("plain", NoNumber, FALSE)>>,
          <<2, Flat, red, Suffix("auto", NoNumber, FALSE)>>,
          <<2, Flat, red, Suffix("plain", 9, FALSE)>>,
          <<2, nested, red, Suffix("dotted", 9, FALSE)>>}

=============================================================================
