------------------------------ MODULE MCFiles -------------------------------
(* The folder for TLC: plain names, or the two names of one game's artwork. *)
EXTENDS FileStore, TLC

CONSTANTS a, b, c, d, png, jpg

Of(kind, names) == [kind |-> kind, names |-> names]

MCSpellings == <<png, jpg>>

\* c and d are the names of one game's artwork.
MCCover == <<c, d>>

\* Uploads and renames race for free names; requests that change what is there
\* race on a name of their own, artwork in one format included.
MCApart ==
    {Of("upload", <<a, b>>), Of("upload", <<b, a>>), Of("rename", <<d, a>>)}
    \cup {Of(kind, <<c>>) : kind \in {"overwrite", "edit", "delete", "art"}}

\* One game's artwork, replaced in both formats.
MCArt == {Of("art", <<png>>), Of("art", <<jpg>>)}

Symmetry == Permutations(Threads)
=============================================================================
