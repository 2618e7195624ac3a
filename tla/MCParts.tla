------------------------------ MODULE MCParts -------------------------------
(* Parts that share no state, one at a time, for TLC: the processes that serve,*)
(* and three views of a card's files: requests on its folders, a browser of    *)
(* the folders of two cards, and uploads.                                      *)
EXTENDS MCHandoff, MCFolders, MCCards, MCUpload

CONSTANTS serving, folders, browser, uploads

VARIABLE part  \* the part that runs; the others stay in one initial state

partVars == <<part, vars, folderVars, cardVars, romUploadVars>>

FoldersRest == tree = <<>>

BrowserRests == files = {}

UploadsRest == catalog = <<>> /\ card = {} /\ taken = {}

PartsInit ==
    /\ part \in {serving, folders, browser, uploads}
    /\ Init
    /\ FoldersInit /\ (part # folders => FoldersRest)
    /\ CardsInit /\ (part # browser => BrowserRests)
    /\ RomUploadInit /\ UploadsApart /\ (part # uploads => UploadsRest)

PartsNext ==
    /\ UNCHANGED part
    /\ \/ part = serving /\ Next /\ UNCHANGED <<folderVars, cardVars, romUploadVars>>
       \/ part = folders /\ FoldersNext /\ UNCHANGED <<vars, cardVars, romUploadVars>>
       \/ part = browser /\ CardsNext /\ UNCHANGED <<vars, folderVars, romUploadVars>>
       \/ part = uploads /\ UploadsNext /\ UNCHANGED <<vars, folderVars, cardVars>>

\* Types of the four parts.
PartsTypeOK == TypeOK /\ FoldersTypeOK /\ CardsTypeOK /\ RomUploadTypeOK

PartsSpec == PartsInit /\ [][PartsNext]_partVars
=============================================================================
