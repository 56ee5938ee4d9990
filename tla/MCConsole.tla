----------------------------- MODULE MCConsole ------------------------------
(* A screen of 3 rows of 3, lines of up to 4 characters, and a ring of four
   slots; the key "x" is also an arrow after E0.                            *)
EXTENDS Console

MCAscii == [s \in Scancodes |-> CASE s = "x" -> "a" [] s = "enter" -> "nl"
                                  [] s = "bs" -> "bs" [] OTHER -> NoChar]
MCExtended == [s \in Scancodes |-> IF s = "x" THEN "up" ELSE NoChar]
MCPrompt == <<"$">>
MCBanner == <<"nl", "b", "nl">>
MCBoot == <<"f", "p">>
MCOutputs == { <<>>, <<"b", "nl">>, <<"b", "b", "b", "b", "nl", "b", "nl">> }
=============================================================================
