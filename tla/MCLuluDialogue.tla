---------------------------- MODULE MCLuluDialogue ----------------------------
(***************************************************************************)
(* Words cut down to two letters, which keep what the real ones share.     *)
(***************************************************************************)
EXTENDS LuluDialogue

MCLetter == {"H", "G", "S", "L", "D", "U", "M", "B", "T", "e", "o", "x", "-"}
MCWord == [HELLO |-> <<"H", "e">>, GOODBYE |-> <<"G", "o">>, GET |-> <<"G", "e">>,
           SET |-> <<"S", "e">>, LIST |-> <<"L", "e">>, DEL |-> <<"D", "e">>,
           USER |-> <<"U", "e">>, USERS |-> <<"U", "e", "S">>, METRICS |-> <<"M", "e">>,
           BUFFERSIZE |-> <<"B", "e">>, TIMEOUT |-> <<"T", "e">>]
MCDigits == <<"0", "1", "2", "3", "4", "5", "6", "7", "8", "9">>
MCDigitValue == [d \in {MCDigits[i] : i \in 1 .. 10} |->
                    (CHOOSE i \in 1 .. 10 : MCDigits[i] = d) - 1]
MCDecimal == [v \in 0 .. 10 |-> IF v = 10 THEN <<"1", "0">> ELSE <<MCDigits[v + 1]>>]
MCMetricsText == <<"1", Bar, "0">>
MCUserTexts == {<<"x", Bar, "-">>}
MCAccounts == {[name |-> <<"x">>, pass |-> <<"o">>], [name |-> <<"x", "x">>, pass |-> <<"o">>],
               [name |-> <<"x">>, pass |-> <<"o", "x">>]}
MCLogins == MCAccounts \cup {[name |-> <<"o">>, pass |-> <<"o">>]}
MCTypedLines ==
    [k \in Asking |->
        CASE k = "SET TIMEOUT"    -> {<<"0">>, <<"7", "x">>}
          [] k = "SET BUFFERSIZE" -> {<<"1">>, <<"1", "0">>, <<"0", "1", "1", "x">>}
          [] k = "SET USER"       -> {<<"x">>, <<"x", Bar, "o">>}
          [] k = "DEL USER"       -> {<<"x">>, <<>>}]
===============================================================================
