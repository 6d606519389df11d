------------------------- MODULE MCConfigurationRead -------------------------
EXTENDS ConfigurationRead, TLC

None == [shape |-> "none", keys |-> {}, body |-> ""]
Image(id, ref) == [shape |-> "object", keys |-> {"id", "name", "imageRef"},
                   body |-> [id |-> id, ref |-> ref, status |-> "green", refSupported |-> TRUE]]
Files == [brand |-> None, channel |-> "", images |-> {Image("a", "ref-a")}, bundle |-> None]

\* One root that can be used, one whose catalogue names an image twice.
TheContents == [good |-> Files,
                twice |-> [Files EXCEPT !.images = {Image("a", "ref-a"), Image("a", "ref-b")}]]
TheEmbedded == {Image("a", "ref-a").body}
TheBuild == [channel |-> "alpha", hideCustomImage |-> FALSE, driveMode |-> FALSE, shim |-> {}]

\* No installation yet and files on C: or nowhere, or an installation on C:.
Start(sel, rootC, rootD, rowD) ==
    [c \in Cells |-> CASE c = SelectionCell        -> sel
                      [] c = <<"root", "C">>       -> rootC
                      [] c = <<"root", "D">>       -> rootD
                      [] c[1] = "serial"           -> "ntfs"
                      [] c = <<"row", "D">>        -> rowD
                      [] OTHER                     -> "plain"]
TheStarts == {Start("none", "good", "absent", "plain"), Start("C", "empty", "absent", "encrypted")}
=============================================================================
