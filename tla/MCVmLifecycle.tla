---------------------------- MODULE MCVmLifecycle ----------------------------
EXTENDS VmLifecycle, TLC

Part(text, case) == [text |-> text, case |-> case, legal |-> text # "con"]
Qemu == <<Part("qemu", "lower")>>
Vars == <<Part("share", "lower"), Part("vars", "lower")>>
Data == <<Part("share", "lower"), Part("data", "lower")>>
Loud == <<Part("share", "upper"), Part("data", "lower")>>
TheRequired == {Qemu, Vars}

Entry(path) == [path |-> path, hash |-> "h", sound |-> TRUE]
File(path)  == [path |-> path, hash |-> "h", size |-> 1, regular |-> TRUE, whole |-> TRUE]
Manifest(entries) == [signed |-> TRUE, entries |-> entries]
Archive(files, manifest) ==
    [hash |-> "a", expected |-> "a", files |-> files, manifest |-> manifest]

Good == Archive(<<File(Qemu), File(Vars), File(Data)>>,
                Manifest(<<Entry(Qemu), Entry(Vars), Entry(Data)>>))

\* The release's archive, and the ways in which one can be wrong.
TheArchives ==
    {Good,
     [Good EXCEPT !.hash = "b"],
     [Good EXCEPT !.manifest.signed = FALSE],
     [Good EXCEPT !.manifest.entries = SubSeq(@, 1, 2)],
     [Good EXCEPT !.files = SubSeq(@, 1, 2)],
     [Good EXCEPT !.files[2].hash = "x"],
     [Good EXCEPT !.files[3].path = Loud, !.manifest.entries[3].path = Loud],
     Archive(<<File(Qemu)>>, Manifest(<<Entry(Qemu)>>))}

TheLogs ==
    {<<>>, <<"result">>, <<"success">>, <<"result", "success">>, <<"success", "result">>,
     <<"foreign", "success">>, <<"result", "result", "success">>, <<"result", "success", "error">>}

TheMetadata == [unique |-> TRUE, contract |-> TRUE, null |-> FALSE,
                legacy |-> {8}, target |-> {4}, scratch |-> {8}]
=============================================================================
