----------------------------- MODULE MCReceipts -----------------------------
(***************************************************************************)
(* The handover under faults, and the two services it stands on, for TLC:  *)
(* the protocol with late commits and reboots ("protocol"), the collector  *)
(* that receives its receipts ("collector") and the store that keeps its   *)
(* journals ("journal").  A behaviour exercises the one `part` names and   *)
(* leaves the others in an initial state.                                  *)
(***************************************************************************)
EXTENDS MCHandover, ReceiptCollector

CONSTANT NoIntent

VARIABLES part,
    jsLive, jsArchive, jsWriter, jsSaved, jsReader

\* Two writers, three generations.
Stored == INSTANCE JournalStore WITH
    Writer <- Node, Intent <- {"withdrawal"}, None <- NoIntent,
    MaxHistory <- 3, MaxObserve <- 1, TouchAt <- 2

storeVars == <<jsLive, jsArchive, jsWriter, jsSaved, jsReader>>

MCInit ==
    /\ part \in {"protocol", "collector", "journal"}
    /\ Init /\ CollectorInit /\ Stored!StoreInit

Protocol == part = "protocol" /\ Next /\ UNCHANGED <<collectorVars, storeVars, part>>
Collecting ==
    part = "collector" /\ CollectorNext /\ UNCHANGED <<vars, storeVars, part>>
Storing == part = "journal" /\ Stored!StoreNext /\ UNCHANGED <<vars, collectorVars, part>>

MCNext == Protocol \/ Collecting \/ Storing

MCSpec == MCInit /\ [][MCNext]_<<vars, collectorVars, storeVars, part>>

\* Archives and checkpoints are the live journal's own past (JournalStore).
HistoryKept == Stored!HistoryKept

\* A host refuses only a journal that moved while it read (JournalStore).
CheckpointFollows == Stored!CheckpointFollows
=============================================================================
