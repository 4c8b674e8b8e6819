------------------------------ MODULE MCKeyboard ------------------------------
(* Keyboard for TLC: the keys.                                              *)
EXTENDS Keyboard

\* Every kind of key: the arrows send two bytes, Pause sends three.
AllKeys ==
  {<<"char">>, <<"enter">>, <<"back">>, <<"shift">>, <<"E0", "other">>, <<"E1", "other", "other">>}
    \union {<<c>> : c \in Consoles}
Typewriter == {<<"char">>, <<"enter">>}

=============================================================================
