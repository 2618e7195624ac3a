------------------------------ MODULE MCContent ------------------------------
(* What the pages of a platform show beside its ROMs, one part at a time, for  *)
(* TLC: the metadata editor, the save states, and the list of platforms.       *)
EXTENDS MCLibrary, MCStates, MCPlatforms

CONSTANTS editing, saving, browsing

VARIABLE part  \* the part that runs; the others stay in one initial state

contentVars == <<part, vars, stateVars, platformVars>>

LibraryRests ==
    /\ found = [live |-> NoCard, listed |-> {}, system |-> NoSystem]
    /\ settings[<<nes, folder>>] = one

StatesRest == There = {} /\ roms = {}

PlatformsRest == romDirs = On(1, {"FC", "HANDY", "PORTS"}) /\ cores = {"fceumm", "handy"}

\* At first all of the states are there but one at most, and the game is on a card.
SavesStart == roms = {<<2, red>>} /\ Cardinality(There) >= Cardinality(StateFiles) - 1

ContentInit ==
    /\ part \in {editing, saving, browsing}
    /\ Init /\ (part # editing => LibraryRests)
    /\ StatesInit
    /\ IF part = saving THEN SavesStart ELSE StatesRest
    /\ MCPlatformsInit /\ (part # browsing => PlatformsRest)

ContentNext ==
    /\ UNCHANGED part
    /\ \/ part = editing /\ Next /\ UNCHANGED <<stateVars, platformVars>>
       \/ part = saving /\ StatesNext /\ UNCHANGED <<vars, platformVars>>
       \/ part = browsing /\ PlatformsNext /\ UNCHANGED <<vars, stateVars>>

\* Only the editor is asked to come to an end.
ContentSpec ==
    /\ ContentInit /\ [][ContentNext]_contentVars
    /\ \A t \in Threads : WF_vars(Handle(t))

\* Types of the three parts.
ContentTypeOK == TypeOK /\ StatesTypeOK /\ PlatformsTypeOK
=============================================================================
