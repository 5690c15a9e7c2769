---------------------------- MODULE JournalStore ----------------------------
(***************************************************************************)
(* How a handover journal is stored (pkg/handover: store.go, archive.go,   *)
(* successor.go, history.go, freeze.go, checkpoint.go) and followed by a   *)
(* host (cmd/dialer/receive_checkpoint.go).  Writers load the journal's    *)
(* ConfigMap and write it back if it is still what they loaded; a          *)
(* completed generation is archived, under a name made of its digest,      *)
(* before its successor takes its place.  A host keeps a durable           *)
(* checkpoint and moves it only along that history, whose archives it      *)
(* reads one by one while the writers go on.                               *)
(*                                                                         *)
(* A generation binds the digest of its predecessor, so that a journal's   *)
(* content is the sequence of its generations, each with the writer it is  *)
(* from and its events.  What the events mean is Handover's subject: here  *)
(* they are observations, and the advance that completes a generation.     *)
(***************************************************************************)
EXTENDS Naturals, Sequences, SequencesExt

CONSTANTS
    Writer,        \* controllers, of which one may believe it still leads
    Intent,        \* digests of withdrawal intents
    None,
    MaxHistory,    \* bound: generations
    MaxObserve,    \* bound: observations, made in the last generation
    TouchAt        \* bound: the generation whose metadata change, once

VARIABLES
    jsLive,        \* the ConfigMap: [chain, frozen, intent, meta]
    jsArchive,     \* the archived contents
    jsWriter,      \* Writer -> [pc, seen]
    jsSaved,       \* the host's checkpoint, or None
    jsReader       \* the host's pass: [pc, seen, cursor]

storeVars == <<jsLive, jsArchive, jsWriter, jsSaved, jsReader>>

Generation(w) == [by |-> w, events |-> <<>>]
Completed(chain) ==
    LET events == Last(chain).events
    IN  events # <<>> /\ Last(events) = "advance"

\* Transition.Extends: the same generation with any number of events appended.
TransitionExtends(chain, old) ==
    /\ Len(chain) = Len(old) /\ Front(chain) = Front(old)
    /\ Last(chain).by = Last(old).by
    /\ IsPrefix(Last(old).events, Last(chain).events)

\* Snapshot.Extends: neither fence nor withdrawal authority is lost.
Extends(s, old) ==
    /\ old.frozen => s.frozen
    /\ old.intent # None => s.intent = old.intent
    /\ TransitionExtends(s.chain, old.chain)

ContinuesExecution(s, old) ==
    /\ [s EXCEPT !.chain = old.chain] = old
    /\ TransitionExtends(s.chain, old.chain)
    /\ \A i \in Len(Last(old.chain).events) + 1 .. Len(Last(s.chain).events) :
          Last(s.chain).events[i] = "observe"

-----------------------------------------------------------------------------
(* Writers.  An update reaches the API with the version that was loaded and *)
(* fails when the object is another one by then; its answer may be lost.    *)

Busy(w, pc) == jsWriter[w].pc = pc
Rest(w) == jsWriter' = [jsWriter EXCEPT ![w] = [pc |-> "idle"]]
Update(w, object) ==
    /\ jsLive' = IF jsLive = jsWriter[w].seen THEN object ELSE jsLive
    /\ Rest(w)
    /\ UNCHANGED <<jsArchive, jsSaved, jsReader>>

Load(w) ==
    /\ Busy(w, "idle")
    /\ jsWriter' = [jsWriter EXCEPT ![w] = [pc |-> "loaded", seen |-> jsLive]]
    /\ UNCHANGED <<jsLive, jsArchive, jsSaved, jsReader>>

\* Commit appends one event to a generation that is not completed.
Commit(w, op) ==
    /\ Busy(w, "loaded")
    /\ LET seen == jsWriter[w].seen
       IN  /\ ~seen.frozen /\ ~Completed(seen.chain)
           /\ op = "observe" =>
                Len(seen.chain) = MaxHistory /\ Len(Last(seen.chain).events) < MaxObserve
           /\ Update(w, [seen EXCEPT !.chain[Len(seen.chain)].events =
                           Append(@, op)])

FreezeCompleted(w) ==
    /\ Busy(w, "loaded")
    /\ LET seen == jsWriter[w].seen
       IN  Completed(seen.chain) /\ Update(w, [seen EXCEPT !.frozen = TRUE])

\* Whether the round has expired is not followed here.
FreezeExpiredWithdrawal(w, i) ==
    /\ Busy(w, "loaded")
    /\ LET seen == jsWriter[w].seen
       IN  /\ ~Completed(seen.chain) /\ (seen.frozen => seen.intent = i)
           /\ Update(w, [seen EXCEPT !.frozen = TRUE, !.intent = i])

\* ReplaceCompleted: ArchiveCompleted compares what was loaded with the live
\* journal before and after it creates the archive.
ReplaceCompleted(w, from, to) ==
    /\ Busy(w, from)
    /\ LET seen == jsWriter[w].seen
       IN  /\ Completed(seen.chain) /\ ~seen.frozen /\ Len(seen.chain) < MaxHistory
           /\ IF jsLive = seen THEN jsWriter' = [jsWriter EXCEPT ![w].pc = to] ELSE Rest(w)
    /\ UNCHANGED <<jsLive, jsArchive, jsSaved, jsReader>>

\* Mutant of CreateArchive: the successor is to carry its history itself.
CreateNothing(w) ==
    /\ Busy(w, "archive")
    /\ jsWriter' = [jsWriter EXCEPT ![w].pc = "recheck"]
    /\ UNCHANGED <<jsLive, jsArchive, jsSaved, jsReader>>

\* An archive of that name that exists already has this content.
CreateArchive(w) ==
    /\ Busy(w, "archive")
    /\ jsArchive' = jsArchive \cup {jsWriter[w].seen.chain}
    /\ jsWriter' = [jsWriter EXCEPT ![w].pc = "recheck"]
    /\ UNCHANGED <<jsLive, jsSaved, jsReader>>

StartSuccessor(w) ==
    /\ Busy(w, "replace")
    /\ LET seen == jsWriter[w].seen
       IN  Update(w, [seen EXCEPT !.chain = Append(@, Generation(w))])

WriterStep(w) ==
    \/ Load(w)
    \/ \E op \in {"observe", "advance"} : Commit(w, op)
    \/ FreezeCompleted(w) \/ \E i \in Intent : FreezeExpiredWithdrawal(w, i)
    \/ ReplaceCompleted(w, "loaded", "archive") \/ CreateArchive(w)
    \/ ReplaceCompleted(w, "recheck", "replace") \/ StartSuccessor(w)

-----------------------------------------------------------------------------
(* The host.                                                                *)

Reader(pc) == jsReader.pc = pc
Goes(pc) == jsReader' = IF pc = "refused" THEN [pc |-> pc] ELSE [jsReader EXCEPT !.pc = pc]

\* checkpointReceiveJournalLocked: the live journal against the checkpoint.
BeginPass ==
    /\ jsReader.pc \in {"idle", "refused"}
    /\ jsReader' = [pc |-> IF jsSaved = None \/ Extends(jsLive, jsSaved) THEN "save" ELSE "walk",
                    seen |-> jsLive, cursor |-> jsLive.chain]
    /\ UNCHANGED <<jsLive, jsArchive, jsWriter, jsSaved>>

\* Mutant of Walk: one generation back is as far as a host looks.
WalkOnce ==
    /\ Reader("walk")
    /\ LET source == Front(jsReader.cursor)
       IN  Goes(IF /\ Len(jsReader.cursor) > 1 /\ source \in jsArchive
                   /\ Extends([jsReader.seen EXCEPT !.chain = source, !.frozen = TRUE, !.intent = None], jsSaved)
                THEN "recheck" ELSE "refused")
    /\ UNCHANGED <<jsLive, jsArchive, jsWriter, jsSaved>>

\* CheckHistory, one archive: readPredecessor by its pinned name.
Walk ==
    /\ Reader("walk")
    /\ LET source == Front(jsReader.cursor)
           archived == [jsReader.seen EXCEPT !.chain = source, !.frozen = TRUE, !.intent = None]
       IN  IF Len(jsReader.cursor) = 1 \/ source \notin jsArchive THEN Goes("refused")
           ELSE IF Extends(archived, jsSaved) THEN Goes("recheck")
           ELSE jsReader' = [jsReader EXCEPT !.cursor = source]
    /\ UNCHANGED <<jsLive, jsArchive, jsWriter, jsSaved>>

\* The archive reads may have taken long: the live journal again.
RecheckLive ==
    /\ Reader("recheck")
    /\ Goes(IF ContinuesExecution(jsLive, jsReader.seen) THEN "save" ELSE "refused")
    /\ UNCHANGED <<jsLive, jsArchive, jsWriter, jsSaved>>

\* writeDurableJSON.
Save ==
    /\ Reader("save")
    /\ jsSaved' = jsReader.seen /\ jsReader' = [pc |-> "idle"]
    /\ UNCHANGED <<jsLive, jsArchive, jsWriter>>

-----------------------------------------------------------------------------
\* Labels and managed fields change without the journal's knowledge.
Touch ==
    /\ Len(jsLive.chain) = TouchAt /\ jsLive.meta = 0
    /\ jsLive' = [jsLive EXCEPT !.meta = 1]
    /\ UNCHANGED <<jsArchive, jsWriter, jsSaved, jsReader>>

Crash ==
    /\ \/ \E w \in Writer : ~Busy(w, "idle") /\ Rest(w) /\ UNCHANGED jsReader
       \/ ~Reader("idle") /\ jsReader' = [pc |-> "idle"] /\ UNCHANGED jsWriter
    /\ UNCHANGED <<jsLive, jsArchive, jsSaved>>

\* Create and CreateWithPlan made the first generation.
StoreInit ==
    /\ jsLive = [chain |-> <<Generation(None)>>, frozen |-> FALSE, intent |-> None, meta |-> 0]
    /\ jsArchive = {} /\ jsWriter = [w \in Writer |-> [pc |-> "idle"]]
    /\ jsSaved = None /\ jsReader = [pc |-> "idle"]

StoreNext ==
    \/ \E w \in Writer : WriterStep(w)
    \/ BeginPass \/ Walk \/ RecheckLive \/ Save
    \/ Touch \/ Crash

StoreSpec == StoreInit /\ [][StoreNext]_storeVars

-----------------------------------------------------------------------------
(* Properties.                                                              *)

Ancestors(chain) == {SubSeq(chain, 1, n) : n \in 1 .. Len(chain)}

\* Whatever writers race and crash in the middle of a replacement, every
\* generation before the live one is archived as it ended, no archive is on
\* another branch, and what a host has saved is a past state of this journal:
\* neither its events nor its fence nor its withdrawal authority were rewritten.
HistoryKept ==
    /\ Ancestors(Front(jsLive.chain)) \subseteq jsArchive
    /\ \A c \in jsArchive : c \in Ancestors(jsLive.chain) /\ Completed(c)
    /\ jsSaved # None =>
         LET n == Len(jsSaved.chain)
         IN  /\ n <= Len(jsLive.chain)
             /\ TransitionExtends(SubSeq(jsLive.chain, 1, n), jsSaved.chain)
             /\ n = Len(jsLive.chain) => Extends(jsLive, jsSaved)
             /\ n < Len(jsLive.chain) => ~jsSaved.frozen

\* A host refuses the journal it has read only when that has changed since:
\* at rest, every host catches up, from however many generations behind.
CheckpointFollows ==
    [][jsReader'.pc = "refused" /\ ~Reader("refused") => jsLive # jsReader.seen]_storeVars
=============================================================================
