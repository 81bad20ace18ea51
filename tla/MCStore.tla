------------------------------- MODULE MCStore --------------------------------
EXTENDS Store

(* A Call-ID without a colon, and one with it.                             *)
MCIds    == {<<"a">>, <<"b", "a">>}
MCUsers  == {<<"100">>}
MCTimes  == {"1", "2"}
MCValues == {<<"x">>, <<"y">>}

ASSUME NamesDoNotGoOn == PrefixFree
===============================================================================
