------------------------------- MODULE MCPush -------------------------------
(***************************************************************************)
(* One file name, which is two paths; scripts that fit, fill the cap to    *)
(* the last character, and pass it.                                        *)
(***************************************************************************)
EXTENDS Push

MCNames == {"x"}
MCUnprefixed == [flash |-> FALSE, name |-> "x"]
MCSay(kind) == Say(kind, MCUnprefixed)
MCLine == [kind: {"code", "other", "junk", "app-end", "app-begin", "rm", "check"},
           path: [flash: BOOLEAN, name: MCNames]]
MCMounts == {{"card"}, {"flash"}, {"card", "flash"}}
MCScriptTexts == {<<MCSay("other")>>}
MCScripts == {<<MCSay("code")>>, <<MCSay("code"), MCSay("other")>>,
              <<MCSay("code"), MCSay("other"), MCSay("code")>>}
=============================================================================
