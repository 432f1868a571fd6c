-------------------------------- MODULE MCApp --------------------------------
(* The sessions App is checked in: the same program with another user.       *)
EXTENDS App

Session(does, kinds, unbidden) ==
    [does |-> does, unbidden |-> unbidden,
     kind |-> [ollama |-> kinds[1], go |-> kinds[2]],
     endpoints |-> IF does = "purse" THEN Providers ELSE {},
     types |-> IF does = "picker" THEN Drafts ELSE {"", "text", "slash"}]

AllScenes ==
    {Session("picker", k, TRUE) :
        k \in {<<"verbose", "single">>, <<"document", "document">>}}
    \cup {Session("picker", <<"document", "single">>, FALSE)}
    \cup {Session("purse", <<"single", "single">>, u) : u \in BOOLEAN}
    \cup {Session("images", <<"single", "single">>, TRUE)}

PickerScene == {Session("picker", <<"single", "single">>, TRUE)}

TwoFloors == [ollama |-> 2, go |-> 0]
TwoSteps  == [ollama |-> 1, go |-> 2]
=============================================================================
