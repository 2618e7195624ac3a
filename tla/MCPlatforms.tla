----------------------------- MODULE MCPlatforms -----------------------------
(* Platforms for TLC, with names of the repository's catalog: a system with an *)
(* alias and an old folder, one whose tag begins another's, ports, and a       *)
(* folder that is named for an emulator.                                       *)
EXTENDS Platforms

System(id, root, patterns, its) == [id |-> id, root |-> root, patterns |-> patterns, cores |-> its]

MCCatalog ==
    <<System("NES", "NES", {"NES"}, {"fceumm"}),
      System("FC", "FAMICOM", {"FC"}, {"fceumm"}),
      System("GB", "GB", {"SGB"}, {"mgba"}),
      System("GBA", "GBA", {"AGB", "MGBA"}, {"mgba"}),
      System("PORTS", "PORTS", {"PORTS"}, {Ports})>>

MCCanonicalIds == [id \in {"NES"} |-> "FC"]

MCIdentities ==
    <<[id |-> "FC", tag |-> "FC", code |-> "FC"], [id |-> "GB", tag |-> "GB", code |-> "GB"],
      [id |-> "GBA", tag |-> "GBA", code |-> "GBA"]>>

MCStaticAliases == [alias \in {"NES", "MGBA"} |-> IF alias = "NES" THEN "FC" ELSE "GBA"]

MCStarts == [tag \in {"FC", "GB", "GBA"} |-> IF tag = "GBA" THEN {"GB"} ELSE {}]

Folder(name, code) == [name |-> name, code |-> code, shortcut |-> FALSE]

MCRomFolders ==
    {Folder("NES", "NES"), Folder("FC", "FC"), Folder("Advance (MGBA)", "MGBA"),
     Folder("HANDY", "HANDY"), Folder("PORTS", "PORTS")}

MCCoreFiles == [core \in {"fceumm", "mgba", "handy"} |->
    IF core = "fceumm" THEN "FCEUMM" ELSE IF core = "mgba" THEN "MGBA" ELSE "HANDY"]

\* What the cards hold at first: both folders of one platform on two cards or
\* on one, or a folder for each platform; with all emulators or some.
On(card, names) == {<<card, f>> : f \in {g \in MCRomFolders : g.name \in names}}

MCPlatformsInit ==
    /\ PlatformsInit
    /\ \/ /\ cores = DOMAIN CoreFiles
          /\ romDirs \in {On(1, {"NES"}) \cup On(2, {"FC", "HANDY"}),
                          On(1, {"Advance (MGBA)"}) \cup On(2, {"NES", "FC"})}
       \/ cores = {"fceumm", "handy"} /\ romDirs = On(1, {"FC", "HANDY", "PORTS"})
=============================================================================
