---------------------------- MODULE MCConfigTree ----------------------------
(***************************************************************************)
(* A small instance of ConfigTree: two keys, one of which a .conf file     *)
(* cannot write, a string and a whole float.                               *)
(***************************************************************************)
EXTENDS ConfigFiles, TLC

MCStrings == STRING
MCKeys == {"a", "b", "x.y"}
MCValues == {[kind |-> "string", s |-> "1"], [kind |-> "float", f |-> 2, finite |-> TRUE]}
MCIntMin == -8
MCNumerals == ("7" :> 7) @@ ("8" :> 8) @@ ("-8" :> -8)
MCPaths == {<<KeyStep("a")>>,
            <<KeyStep("a"), KeyStep("b")>>,
            <<KeyStep("a"), IndexStep(1)>>,
            <<KeyStep("b"), IndexStep(0), KeyStep("a")>>,
            <<KeyStep("a"), Malformed>>}
Text(s) == ValueTree([kind |-> "string", s |-> s])
Float(halves) == ValueTree([kind |-> "float", f |-> halves, finite |-> TRUE])
NotANumber == ValueTree([kind |-> "float", f |-> 0, finite |-> FALSE])
MCDocuments ==
    {MapTree(<<Entry("a", Text("8")), Entry("a", MapTree(<<Entry("b", Float(16))>>))>>),
     MapTree(<<Entry("a", ArrayTree(<<NotANumber, NullTree>>)), Entry("b", Text("-8"))>>),
     ArrayTree(<<Float(-17), Float(15)>>),
     MapTree(<<Entry("x.y", Text("two lines"))>>)}
MCUnwritableKeys == {"x.y"}
MCUnwritableStrings == {"two lines"}
=============================================================================
