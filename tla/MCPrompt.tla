------------------------------ MODULE MCPrompt ------------------------------
(* Numbers in base 3 and 4 over a word of four bits: 15 is three digits in   *)
(* base 3 and fills two in base 4.  One letter stands for all: x is the      *)
(* highest digit of base 4, the x of the prefix, and has a capital.          *)
EXTENDS Prompt

MCPrompt == <<"x">>
MCTyped == {<<>>, <<"2", " ", "x", " ", "0">>, <<"1", " ", "0", " ", "x", " ", "0">>,
             <<"0", " ", "x", " ", "1">>, <<"0", " ", "2", "x", " ", "1">>, <<"0", " ", "1">>}
MCDec == <<"0", "1", "2">>
MCHex == <<"0", "1", "2", "x">>
MCHexPrefix == <<"0", "x">>
MCLower == [c \in Chars |-> IF c = "X" THEN "x" ELSE c]
MCEcho == <<"1">>
MCClear == <<"x">>
MCWrite == <<"2">>
MCRdsect == <<"x", "0">>
MCWrsect == <<"0">>
MCDisks == {<<"x">>, <<"x", "x">>}
MCDefault == <<"x", "x">>

=============================================================================
