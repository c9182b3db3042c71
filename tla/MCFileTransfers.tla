-------------------------- MODULE MCFileTransfers --------------------------
(* The small instance of FileTransfers: a file and a directory with a file *)
(* of the same name on each side, and a free local name.                   *)
EXTENDS FileTransfers

DeviceRoot == <<"s", "0">>
Phone ==
    (DeviceRoot :> "dir") @@ (DeviceRoot \o <<"a">> :> "v1") @@ (DeviceRoot \o <<"t">> :> "dir")
      @@ (DeviceRoot \o <<"t", "a">> :> "v2") @@ (DeviceRoot \o <<"f">> :> "none")
      @@ (DeviceRoot \o <<"d">> :> "dir") @@ (DeviceRoot \o <<"d", "a">> :> "none")
      @@ (DeviceRoot \o <<"d", "t">> :> "v3") @@ (DeviceRoot \o <<"t", "t">> :> "none")
Mac ==
    (<<"d">> :> "dir") @@ (<<"d", "a">> :> "w1") @@ (<<"d", "t">> :> "dir")
      @@ (<<"d", "t", "a">> :> "none") @@ (<<"f">> :> "w2")
      @@ (<<"g">> :> "none") @@ (<<"g", "a">> :> "none")
Stray == <<"..", "a">>
Raws == UNION {[1 .. n -> {"a", "..", "."}] : n \in 0 .. 3}
Queries == [abs : BOOLEAN, parts : Raws] \cup {[abs |-> TRUE, parts |-> <<"sdcard">> \o r] : r \in Raws}
Down == {<< <<"a">> >>, << <<"t">> >>, << <<"a">>, <<"t">> >>, << <<"a">>, <<"t", "a">> >>, << <<"x">> >>}
Up == {<< <<"f">> >>, << <<"d">> >>, << <<"d">>, <<"f">> >>}
PlanSources == [Download |-> Down, Upload |-> Up]
PlanDestinations == [Download |-> {<<"d">>, <<"g">>}, Upload |-> {<<>>, <<"t", "a">>}]
Pair(s, t, d) == [src |-> s, dst |-> t, isDir |-> d]
BatchPairs ==
    [Download |-> {<<Pair(<<"a">>, <<"f">>, FALSE)>>,
                   <<Pair(<<"t">>, <<"d", "t">>, TRUE), Pair(<<"a">>, <<"d", "a">>, FALSE)>>},
     Upload |-> {<<Pair(<<"f">>, <<"a">>, FALSE)>>, <<Pair(<<"d">>, <<"t">>, TRUE)>>,
                 <<Pair(<<"g">>, <<"t">>, TRUE)>>}]
OtherDeletes == {{<<"a">>}, {<<"a">>, <<"t">>}}
OtherTargets == {<<"f">>}
============================================================================
