--------------------------- MODULE MCProxyRequest ---------------------------
(* Small schedules for the proxy.                                           *)
EXTENDS ProxyRequest

CONSTANTS r1, r2, key

Map(provider, credentials) == [provider |-> provider, credentials |-> credentials]
Model(model, maps) == [model |-> model, maps |-> maps]

(* One candidate, and one model on two providers with a credential each.    *)
MCOneCandidate == <<Model("m1", <<Map("p1", <<1>>)>>)>>
MCTwoMaps == <<Model("m1", <<Map("p1", <<1>>), Map("p2", <<2>>)>>)>>

MCOneSlot == {r1}
MCTwoSlots == {r1, r2}
MCNoKeys == {}
MCKeys == {key}
MCWhole == {FALSE}
MCStreams == {TRUE}
MCBothKinds == BOOLEAN
MCAllAnswers == Outcomes
MCRecordedAnswers == Outcomes \ {"Fail"}
MCAllBodies == {"whole", "lost"}
MCWholeBodies == {"whole"}
MCAllCalls == {"clear", "reset"}
MCNoCalls == {}
=============================================================================
