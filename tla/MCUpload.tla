------------------------------ MODULE MCUpload ------------------------------
(* Uploads for TLC: a disc with its tracks in a folder, and archives that one  *)
(* row of the catalog passes through and another does not.                     *)
EXTENDS RomUpload

Rom(stem, ext) == [stem |-> stem, ext |-> ext, hidden |-> FALSE]
In(below, name) == [dir |-> below, name |-> name]

Game == Rom("disc1", "cue")
Track == Rom("track", "bin")
Track2 == Rom("track2", "bin")
Pack == Rom("pack", "zip")

Row(tag, extensions, archives, mode, ignored) ==
    [tag |-> tag, extensions |-> extensions, playlists |-> {}, archives |-> archives,
     mode |-> mode, names |-> {}, ignored |-> ignored]

MCPlatform == "PS"

\* A catalog that cannot be read, one with two rows for the platform, and one
\* that ignores a name whose extension it accepts.
MCCatalogs ==
    {<<>>,
     <<Row("PS", {"cue"}, {"zip"}, "ignore", {}), Row("PS", {"iso"}, {}, "pass_through", {}),
       Row("MD", {"bin"}, {"zip"}, "pass_through", {})>>,
     <<Row("PS", {"cue"}, {"zip"}, "pass_through", {Game})>>}

Sel(kind, files) == [kind |-> kind, files |-> files]

Disc == <<In(<<"t">>, Track), In(<<"t">>, Game), In(<<"t", "s">>, Track2)>>

MCSelections ==
    {Sel("files", <<In(<<>>, Game)>>), Sel("files", <<In(<<>>, Game), In(<<>>, Pack)>>),
     Sel("folder", Disc), Sel("zip", Disc)}

MCCardSets == {{}, {In(<<"t">>, Game), In(<<>>, Game)}}

MCTakenSets == {{}, {<<"t", "s">>}}

\* A file or a folder in the way only where the policy is about bundles, and
\* one at a time.
UploadsApart ==
    /\ card = {} \/ taken = {}
    /\ Len(catalog) < 3 => card = {} /\ taken = {}

\* Two uploads at a time, or one that something goes wrong in.
UploadsNext ==
    /\ RomUploadNext
    /\ faults' = 0 \/ \E b \in Browsers : \A other \in Browsers \ {b} : sending'[other].pc = "idle"
=============================================================================
