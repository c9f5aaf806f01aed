-------------------------------- MODULE MCBoxApi --------------------------------
(* Instances of BoxApi for TLC.                                            *)
EXTENDS BoxApi

(* https://host, https://host/api/ and https://host/api/../v1//            *)
MCBases == {<<>>, <<<<"api">>, Empty>>, <<<<"api">>, DotDot, <<"v1">>, Empty, Empty>>}
MCBoxIds == {WellFormedBox, <<"bx_SHORT">>, <<"bx_23456789", "..", "x">>, DotDot}
Padded == <<" a">>       \* a blank before it, which HTTP cuts off
Accented == <<"e-acute">>  \* sent in UTF-8, and read as Latin-1
Control == <<"newline">>
MCIds == {<<"a">>, <<"latest">>, <<"..", "boxes">>, Empty, Blank, Dot, DotDot,
          Padded, Accented, Control}
MCFilePaths == {<<"", "tmp", "f">>, Empty, Blank}
MCKeys == {<<"k">>, <<" k">>, Blank, Control}
MCUnsendable == {Control}
MCRead(value) ==
  CASE value = Padded -> <<"a">>
    [] value = <<" k">> -> <<"k">>
    [] value = Blank -> Empty
    [] value = Accented -> <<"A-tilde copyright">>
    [] OTHER -> value
AllOperations == DOMAIN Operations

(* The second call is one that takes a key, or the deletion of a box.      *)
ThenKeyed == calls > 1 => call = NoCall \/ call.op \in KeyedOps \cup {"delete_box"}
=============================================================================
