-------------------------- MODULE MCPrototypeMain --------------------------
(***************************************************************************)
(* Files and calls for model checking PrototypeMain.                       *)
(***************************************************************************)
EXTENDS PrototypeMain, TLC

Slice(sound, levels) ==
    [sound |-> sound, bands |-> [n \in Bands |-> IF n \in DOMAIN levels THEN levels[n] ELSE 0]]

\* The first two bands share their bits: s, t and u have one fingerprint.
s == Slice("s", 1 :> 1 @@ 2 :> 2)
t == Slice("t", 1 :> 3)
u == Slice("u", 2 :> 3)
v == Slice("v", 12 :> 7)
mute == Slice("mute", << >>)

MCSlices == "day" :> <<s, v, s, s, t>> @@ "night" :> <<mute, s, u>>

MCNameLength == "day" :> 3 @@ "night" :> 5 @@ "garbled" :> 9

\* t sounds like s, u does not; a value may exceed 1 for the very same samples.
MCCompare(x, y) ==
    CASE x.sound = "mute" -> {"abort"}
      [] x = y /\ x.sound = "v" -> {"high", "abort"}
      [] {x.sound, y.sound} \subseteq {"s", "t"} -> {"high"}
      [] OTHER -> {"low"}

MCFpCount == "short" :> 1 @@ "long" :> 3 @@ "empty" :> 0 @@ "two words" :> 1

Call(program, load, db, queries) ==
    [program |-> program, load |-> load, db |-> db, queries |-> queries]

MCCalls ==
    {Call("ismir_impl", FALSE, db, <<>>) :
        db \in {<<"long", "empty", "short">>, <<"empty", "long">>, <<"two words">>}}
    \union {Call("ismir_impl", FALSE, db, <<n>>) :
        db \in {<< >>, <<"short", "missing">>, <<"long", "short">>}, n \in {0, 2}}
    \union {Call("test_my_fingerprint", load, db, queries) :
        load \in BOOLEAN, db \in {<< >>, <<"night", "day">>}, queries \in {<<s>>, <<v, mute>>}}
    \union {Call("test_my_fingerprint", FALSE, <<"day">>, <<Nothing>>)}
    \union {Call("test_my_fingerprint", FALSE, <<"missing">>, <<s>>)}
=============================================================================
