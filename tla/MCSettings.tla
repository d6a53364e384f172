------------------------------ MODULE MCSettings ------------------------------
(* An instance of Settings: two buttons, whose names are also names of keys,  *)
(* as in the program, files a player may have spoiled, and what may follow a  *)
(* key without a name.  2147483647 stands for the largest float, of which six *)
(* digits are a smaller one.                                                  *)
EXTENDS Settings, TLC

MCButtons == <<"A", "Up">>
MCKeys == {"keyA", "keyUp", "keyX"}
MCNameOf == [keyA |-> "A", keyUp |-> "Up", keyX |-> "X"]
MCDefaultKeys == [A |-> "keyX", Up |-> "keyUp"]

MCNumerals == {"0", "12", "100", "3.40282e+38", "12loud", "12KeyBind"}
MCTooBig == {"1e99"}
MCValueOf ==
    "0" :> 0 @@ "12" :> 12 @@ "100" :> 100 @@ "12loud" :> 12 @@ "12KeyBind" :> 12
        @@ "3.40282e+38" :> 2147483646 @@ "1e99" :> 2147483647
MCRestOf == [t \in MCNumerals |->
                CASE t = "12loud" -> "loud" [] t = "12KeyBind" -> "KeyBind" [] OTHER -> ""]
MCWritten ==
    0 :> "0" @@ 12 :> "12" @@ 100 :> "100"
        @@ 2147483646 :> "3.40282e+38" @@ 2147483647 :> "3.40282e+38"
MCSettable == {0, 100}

MCEditedFiles ==
    {<<"Volume", "loud", "KeyBind", "A", "A">>,
     <<"Volume">>,
     <<"Volume", "1e99", "FullScreen", "1">>,
     <<"Volume", "12loud", "FullScreen", "1">>,
     <<"Volume", "12KeyBind", "A", "A", "FullScreen", "true", "KeyBind", "Up">>,
     <<"Volume", "0", "FullScreen", "1", "KeyBind", "Up", "Up", "KeyBind", "Up", "A">>,
     <<"FullScreen", "KeyBind", "A", "Up">>,
     <<"KeyBind", "A", "A", "KeyBind", "Start", "X">>,
     <<"KeyBind", "A", "KeyBind", "Up", "X">>,
     <<"AspectRatio", "4x3", "KeyBind", "Up">>,
     <<"AspectRatio", "Any", "Sound", "on", "Volume", "12">>,
     <<"KeyBind", "A", "Ctrl", "Volume", "0">>}

MCDebris ==
    {<<>>,
     <<"?", "KeyBind", "Up", "A">>,
     <<"KeyBind", "Up", "A">>,
     <<"Up", "Volume", "12loud">>,
     <<"X", "KeyBind", "A", "A", "FullScreen", "true">>}
=============================================================================
