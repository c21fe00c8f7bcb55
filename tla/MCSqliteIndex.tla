--------------------------- MODULE MCSqliteIndex ---------------------------
(***************************************************************************)
(* Files for model checking SqliteIndex: "a" and "A" are alike, and "_" is *)
(* a pattern that any of the names matches; of "'" no statement is made.   *)
(***************************************************************************)
EXTENDS SqliteIndex, TLC

MCSounds == "a" :> <<0, 1, 0, 0>> @@ "A" :> <<1, 0>> @@ "_" :> <<3, 1, 3, 0>> @@ "'" :> <<1, 1, 0>>

MCLike == {<<n, n>> : n \in DOMAIN MCSounds} \union {<<"a", "A">>, <<"A", "a">>, <<"_", "a">>, <<"_", "A">>}

MCQuoted == {"'"}

MCStarts == {<<"a">>, <<"_", "A">>, <<"'">>}

\* Far before, and within a slice
MCUnread == {-Near, 1}
=============================================================================
