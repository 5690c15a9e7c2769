-------------------------- MODULE NeighborsProofs ---------------------------
(***************************************************************************)
(* What the passes over a cloud worker's ordinary neighbours guarantee,    *)
(* for any keys, prefixes, base document and number of publications,       *)
(* crashes and reboots: proofs about Neighbors.                            *)
(***************************************************************************)
EXTENDS Neighbors, TLAPS

\* The provers of a step that names none.
USE ZenonT(30), SMTT(30)

Document == {"bootstrap", "cache"}

Pass ==
    [pc : {"idle", "side", "main", "import", "admit", "drain", "install", "routes",
           "withdraw", "sidecar", "docs"},
     turn : {"dispatch", "neighbors"}, want : SUBSET Variant, retiring : SUBSET Variant,
     candidates : SUBSET Variant, key : SUBSET Key, left : SUBSET (Key \cup Document),
     fresh : BOOLEAN]

NeighborTypes ==
    /\ nbPublished \in [Key -> SUBSET Source]
    /\ nbPeers \in [Key -> SUBSET Source]
    /\ nbMain \in SUBSET Variant
    /\ nbSide \in [peers : SUBSET Variant, retiring : SUBSET Variant, candidates : SUBSET Variant]
    /\ nbMarker \in BOOLEAN
    /\ nbDocs \in [Document -> SUBSET Key]
    /\ nbReserved \in SUBSET Key /\ nbGone \in SUBSET Key
    /\ nbPass \in Pass

\* A worker under withdrawal left the mesh for good, so that no pass planned
\* after its completion wants it.
LeftForGood ==
    /\ nbDone \subseteq nbWithdrawn /\ nbWithdrawn \subseteq nbGone
    /\ nbPass.key \subseteq nbWithdrawn
    /\ \A k \in nbGone : nbPublished[k] = {}
    /\ \A v \in nbPass.want : v[1] \notin nbDone

\* A maintenance pass, by how far it got: everything recorded when it was
\* planned is in its plan; the plan is in the files before the kernel moves;
\* and only what is wanted is left when the retired peers are gone.
Maintenance ==
    nbPass.pc # "idle" /\ nbPass.key = {} =>
        /\ nbPass.pc \notin {"withdraw", "sidecar", "docs"}
        /\ nbPass.want \subseteq nbPass.candidates
        /\ \A v \in nbPass.candidates : \E u \in nbPass.want : u[1] = v[1]
        /\ \A u, v \in nbPass.want : u[1] = v[1] => u = v
        /\ nbPass.pc = "side" => previousPeers \subseteq nbPass.retiring \cup nbPass.candidates
        /\ nbPass.pc # "side" => nbSide.candidates = nbPass.candidates
        /\ nbPass.pc \in {"main", "import", "admit", "drain"} =>
              /\ nbSide.retiring = nbPass.retiring
              /\ VariantsOf(nbPeers) \subseteq nbPass.retiring \cup nbPass.candidates
        /\ nbPass.pc \notin {"side", "main"} => nbMain = nbPass.want
        /\ nbPass.pc = "drain" =>
              \A v \in VariantsOf(nbPeers) : v \in nbPass.candidates \/ v[1] \in nbPass.left
        /\ nbPass.pc = "install" => VariantsOf(nbPeers) \subseteq nbPass.candidates
        /\ nbPass.pc = "routes" => VariantsOf(nbPeers) = nbPass.want

\* A withdrawal, by how far it got.
Withdrawing ==
    \A k \in nbPass.key :
        /\ nbPass.pc \in {"withdraw", "admit", "drain", "sidecar", "docs"}
        /\ nbPass.want = {}
        /\ nbPass.key = {k}
        /\ nbPass.pc \in {"sidecar", "docs"} =>
              nbPeers[k] = {} /\ \A v \in nbMain : v[1] # k
        /\ nbPass.pc = "docs" =>
              /\ \A v \in nbSide.peers \cup nbSide.candidates : v[1] # k
              /\ \A d \in Document \ nbPass.left : k \notin nbDocs[d]

\* Only what is recorded for retirement is removed from the kernel.
Retired ==
    nbPass.pc = "drain" =>
        \A v \in VariantsOf(nbPeers) : v[1] \in nbPass.left => v \in nbPass.retiring

Accounted ==
    /\ VariantsOf(nbPeers) \subseteq previousPeers
    /\ \A s \in nbRoutes : \E v \in VariantsOf(nbPeers) : s \in v[2]
    /\ \A k \in nbDone :
          /\ nbPeers[k] = {}
          /\ \A v \in nbMain \cup nbSide.peers \cup nbSide.candidates : v[1] # k
          /\ \A d \in Document : k \notin nbDocs[d]

NInv == NeighborTypes /\ LeftForGood /\ Maintenance /\ Withdrawing /\ Retired /\ Accounted
-----------------------------------------------------------------------------
(* Variants.                                                                *)

\* The variants of a peer table are its non-empty entries.
LEMMA VariantsAt ==
    ASSUME NEW f \in [Key -> SUBSET Source]
    PROVE  /\ \A v \in VariantsOf(f) : /\ v \in Variant
                                       /\ v[1] \in Key /\ v[2] = f[v[1]] /\ v[2] # {}
                                       /\ v = <<v[1], v[2]>>
           /\ \A k \in Key : f[k] # {} => <<k, f[k]>> \in VariantsOf(f)
<1>1. ASSUME NEW v \in VariantsOf(f)
      PROVE  /\ v \in Variant
             /\ v[1] \in Key /\ v[2] = f[v[1]] /\ v[2] # {}
             /\ v = <<v[1], v[2]>>
  <2>1. PICK k \in Key : f[k] # {} /\ v = <<k, f[k]>>
    BY DEF VariantsOf
  <2>2. v[1] = k /\ v[2] = f[k]
    BY <2>1
  <2>3. f[k] \in (SUBSET Source) \ {{}}
    BY <2>1
  <2> QED
    BY <2>1, <2>2, <2>3 DEF Variant
<1>2. \A k \in Key : f[k] # {} => <<k, f[k]>> \in VariantsOf(f)
  BY DEF VariantsOf
<1> QED
  BY <1>1, <1>2

LEMMA VariantParts ==
    ASSUME NEW v \in Variant
    PROVE  v[1] \in Key /\ v[2] \in SUBSET Source /\ v = <<v[1], v[2]>>
BY SMTT(30) DEF Variant

LEMMA Keys ==
    ASSUME NEW V, NEW k
    PROVE  k \in KeysOf(V) <=> \E v \in V : v[1] = k
BY DEF KeysOf

LEMMA Sources ==
    ASSUME NEW V, NEW s
    PROVE  s \in SourcesOf(V) <=> \E v \in V : s \in v[2]
BY DEF SourcesOf

LEMMA LegacyType ==
    pendingReceiveCloudLegacy \in SUBSET Variant
<1>1. VariantsOf(LegacyBase) \in SUBSET Variant
  BY NeighborsAssumption, VariantsAt
<1> QED
  BY <1>1 DEF pendingReceiveCloudLegacy

LEMMA PreviousType ==
    ASSUME NeighborTypes
    PROVE  previousPeers \in SUBSET Variant
BY LegacyType DEF NeighborTypes, previousPeers

LEMMA RestType ==
    ASSUME NEW t \in {"dispatch", "neighbors"}
    PROVE  /\ Rest(t) \in Pass /\ Rest(t).pc = "idle"
           /\ Rest(t).key = {} /\ Rest(t).want = {}
BY DEF Rest, Pass

LEMMA AfterPassType == AfterPass \in {"dispatch", "neighbors"}
BY DEF AfterPass
-----------------------------------------------------------------------------
LEMMA NeighborInitInv ==
    ASSUME NeighborInit
    PROVE  NInv
<1> USE NeighborsAssumption
<1> DEFINE base == VariantsOf(LegacyBase)
<1>1. base \in SUBSET Variant
  BY VariantsAt
<1>2. KeysOf(base) \in SUBSET Key
  BY SMTT(30), <1>1, VariantParts, Keys
<1>3. nbPass \in Pass /\ nbPass.pc = "idle" /\ nbPass.key = {} /\ nbPass.want = {}
  BY RestType DEF NeighborInit
<1> HIDE DEF base
<1>4. NeighborTypes
  BY <1>2, <1>3 DEF NeighborInit, NeighborTypes, Document, base
<1>5. LeftForGood
  BY <1>3 DEF NeighborInit, LeftForGood
<1>6. Maintenance /\ Withdrawing /\ Retired
  BY <1>3 DEF Maintenance, Withdrawing, Retired
<1>7. Accounted
  <2>1. VariantsOf(nbPeers) \subseteq previousPeers
    BY DEF NeighborInit, previousPeers, pendingReceiveCloudLegacy
  <2>2. \A s \in nbRoutes : \E v \in VariantsOf(nbPeers) : s \in v[2]
    BY Sources DEF NeighborInit
  <2>3. nbDone = {}
    BY DEF NeighborInit
  <2> QED
    BY <2>1, <2>2, <2>3 DEF Accounted
<1> QED
  BY <1>4, <1>5, <1>6, <1>7 DEF NInv
-----------------------------------------------------------------------------
(* Steps that leave the files and the kernel alone.                         *)

LEMMA AccountedFrame ==
    ASSUME Accounted, UNCHANGED <<neighborFiles, neighborKernel, nbDone>>
    PROVE  Accounted'
BY DEF Accounted, neighborFiles, neighborKernel, previousPeers, pendingReceiveCloudLegacy

\* A pass at rest promises nothing.
LEMMA Resting ==
    ASSUME NeighborTypes, LeftForGood, NEW t \in {"dispatch", "neighbors"}, nbPass' = Rest(t),
           UNCHANGED neighborMesh, nbDone' \subseteq nbWithdrawn
    PROVE  LeftForGood' /\ Maintenance' /\ Withdrawing' /\ Retired'
<1>1. nbPass'.pc = "idle" /\ nbPass'.key = {} /\ nbPass'.want = {}
  BY RestType
<1> QED
  BY <1>1 DEF neighborMesh, LeftForGood, Maintenance, Withdrawing, Retired

LEMMA StepMesh ==
    ASSUME NInv,
           \/ \E peers \in [Key -> SUBSET Source] : PublishPeers(peers)
           \/ \E k \in Key : CommitWithdrawal(k)
    PROVE  NInv'
<1> USE DEF NInv
<1>1. /\ UNCHANGED <<neighborFiles, neighborKernel, nbDone, nbReserved>>
      /\ nbPass' = [nbPass EXCEPT !.fresh = FALSE]
  BY DEF PublishPeers, CommitWithdrawal
<1>2. /\ nbPass' \in Pass /\ nbPass'.pc = nbPass.pc /\ nbPass'.key = nbPass.key
      /\ nbPass'.want = nbPass.want /\ nbPass'.retiring = nbPass.retiring
      /\ nbPass'.candidates = nbPass.candidates /\ nbPass'.left = nbPass.left
  BY <1>1 DEF NeighborTypes, Pass
<1> DEFINE Moved ==
             /\ nbPublished' \in [Key -> SUBSET Source] /\ nbGone' \in SUBSET Key
             /\ nbGone \subseteq nbGone' /\ nbWithdrawn \subseteq nbWithdrawn'
             /\ nbWithdrawn' \subseteq nbGone' /\ \A k \in nbGone' : nbPublished'[k] = {}
<1>3. Moved
  <2>1. ASSUME NEW peers \in [Key -> SUBSET Source], PublishPeers(peers)
        PROVE  Moved
    <3>1. /\ nbPublished' = peers /\ nbWithdrawn' = nbWithdrawn
          /\ nbGone' = nbGone \cup (KeysOf(VariantsOf(nbPublished)) \ KeysOf(VariantsOf(peers)))
          /\ \A k \in nbGone : peers[k] = {}
      BY <2>1 DEF PublishPeers
    <3>2. \A k \in KeysOf(VariantsOf(nbPublished)) : k \in Key
      BY SMTT(30), VariantsAt, Keys DEF NeighborTypes
    <3>3. ASSUME NEW k \in Key, peers[k] # {}
          PROVE  k \in KeysOf(VariantsOf(peers))
      <4>1. <<k, peers[k]>> \in VariantsOf(peers) /\ <<k, peers[k]>>[1] = k
        BY <3>3, VariantsAt
      <4> QED
        BY <4>1, Keys
    <3> QED
      BY <3>1, <3>2, <3>3 DEF NeighborTypes, LeftForGood
  <2>2. ASSUME NEW k \in Key, CommitWithdrawal(k)
        PROVE  Moved
    BY SMTT(30), <2>2 DEF CommitWithdrawal, NeighborTypes, LeftForGood
  <2> QED
    BY <2>1, <2>2
<1>4. NeighborTypes'
  BY <1>1, <1>2, <1>3 DEF NeighborTypes, neighborFiles, neighborKernel
<1>5. LeftForGood'
  BY <1>1, <1>2, <1>3 DEF LeftForGood
<1>6. Maintenance' /\ Withdrawing' /\ Retired'
  <2>1. UNCHANGED <<nbMain, nbSide, nbDocs, nbPeers, previousPeers>>
    BY <1>1 DEF neighborFiles, neighborKernel, previousPeers, pendingReceiveCloudLegacy
  <2> QED
    BY SMTT(30), <1>2, <2>1 DEF Maintenance, Withdrawing, Retired
<1> QED
  BY <1>1, <1>4, <1>5, <1>6, AccountedFrame

LEMMA StepRest ==
    ASSUME NInv, RefusePass \/ StopPass \/ HostReboot \/ FinishWithdrawal
    PROVE  NInv'
<1> USE DEF NInv
<1>1. PICK t \in {"dispatch", "neighbors"} : nbPass' = Rest(t)
  BY AfterPassType DEF RefusePass, StopPass, HostReboot, FinishWithdrawal
<1>2. UNCHANGED <<neighborFiles, neighborMesh>>
  BY DEF RefusePass, StopPass, HostReboot, FinishWithdrawal
<1>3. nbDone' \subseteq nbWithdrawn
  BY DEF RefusePass, StopPass, HostReboot, FinishWithdrawal, LeftForGood
<1>4. nbPeers' \in [Key -> SUBSET Source]
  BY DEF RefusePass, StopPass, HostReboot, FinishWithdrawal, NeighborTypes, neighborKernel
<1>5. NeighborTypes'
  BY <1>1, <1>2, <1>4, RestType DEF NeighborTypes, neighborFiles, neighborMesh
<1>6. Accounted'
  <2>1. CASE RefusePass \/ StopPass
    BY <1>2, <2>1, AccountedFrame DEF RefusePass, StopPass
  <2>2. CASE HostReboot
    <3>1. /\ nbPeers' = [k \in Key |-> {}] /\ nbRoutes' = {} /\ nbDone' = nbDone
          /\ UNCHANGED <<nbMain, nbSide, nbDocs>>
      BY <2>2 DEF HostReboot, neighborFiles
    <3>2. VariantsOf(nbPeers') = {}
      BY <3>1 DEF VariantsOf
    <3>3. nbDone \subseteq Key
      BY DEF LeftForGood, NeighborTypes
    <3> QED
      BY <3>1, <3>2, <3>3 DEF Accounted
  <2>3. CASE FinishWithdrawal
    <3>1. /\ nbDone' = nbDone \cup nbPass.key /\ nbPass.pc = "docs" /\ nbPass.left = {}
          /\ UNCHANGED <<neighborFiles, neighborKernel>>
      BY <2>3 DEF FinishWithdrawal
    <3>2. \A k \in nbPass.key :
             /\ nbPeers[k] = {}
             /\ \A v \in nbMain \cup nbSide.peers \cup nbSide.candidates : v[1] # k
             /\ \A d \in Document : k \notin nbDocs[d]
      BY <3>1 DEF Withdrawing
    <3> QED
      BY <3>1, <3>2 DEF Accounted, neighborFiles, neighborKernel, previousPeers,
                        pendingReceiveCloudLegacy
  <2> QED
    BY <2>1, <2>2, <2>3
<1> QED
  BY <1>1, <1>2, <1>3, <1>5, <1>6, Resting
-----------------------------------------------------------------------------
(* Maintenance.                                                             *)

LEMMA Onward ==
    ASSUME NeighborTypes,
           NEW pc \in {"main", "import", "admit", "drain", "install", "routes", "sidecar"},
           nbPass' = [nbPass EXCEPT !.pc = pc]
    PROVE  /\ nbPass' \in Pass /\ nbPass'.pc = pc /\ nbPass'.key = nbPass.key
           /\ nbPass'.want = nbPass.want /\ nbPass'.retiring = nbPass.retiring
           /\ nbPass'.candidates = nbPass.candidates /\ nbPass'.left = nbPass.left
BY DEF NeighborTypes, Pass

\* Only the mesh decides who has left it for good.
LEMMA LeftFrame ==
    ASSUME LeftForGood, UNCHANGED <<neighborMesh, nbDone>>,
           nbPass'.key = nbPass.key, nbPass'.want = nbPass.want
    PROVE  LeftForGood'
BY DEF LeftForGood, neighborMesh

LEMMA StepPlanNeighbors ==
    ASSUME NInv, PlanNeighbors
    PROVE  NInv'
<1> USE DEF NInv
<1> DEFINE want == VariantsOf(nbPublished)
<1>1. want \in SUBSET Variant /\ previousPeers \in SUBSET Variant
  BY VariantsAt, PreviousType DEF NeighborTypes
<1> DEFINE retiring == planReceiveNeighborRetirements(previousPeers, want)
           candidates == candidatesFor(previousPeers, want)
<1>2. /\ retiring \in SUBSET Variant /\ candidates \in SUBSET Variant
      /\ previousPeers \subseteq retiring \cup candidates
      /\ want \subseteq candidates
      /\ \A v \in candidates : \E u \in want : u[1] = v[1]
  BY <1>1, Keys DEF planReceiveNeighborRetirements, candidatesFor
<1>3. /\ \A u, v \in want : u[1] = v[1] => u = v
      /\ \A v \in want : v[1] \notin nbDone
  BY SMTT(30), VariantsAt DEF NeighborTypes, LeftForGood
<1>4. /\ nbPass' = [Rest("neighbors") EXCEPT !.pc = "side", !.want = want, !.fresh = TRUE,
                                             !.retiring = retiring, !.candidates = candidates]
      /\ UNCHANGED <<neighborFiles, neighborKernel, neighborMesh, nbDone>>
  BY DEF PlanNeighbors
<1> HIDE DEF want, retiring, candidates
<1>5. /\ nbPass' \in Pass /\ nbPass'.pc = "side" /\ nbPass'.want = want /\ nbPass'.key = {}
      /\ nbPass'.retiring = retiring /\ nbPass'.candidates = candidates
  BY <1>1, <1>2, <1>4 DEF Rest, Pass
<1>6. NeighborTypes'
  BY <1>4, <1>5 DEF NeighborTypes, neighborFiles, neighborKernel, neighborMesh
<1>7. LeftForGood'
  BY <1>3, <1>4, <1>5 DEF LeftForGood, neighborMesh
<1>8. Maintenance'
  <2>1. previousPeers' = previousPeers
    BY <1>4 DEF previousPeers, pendingReceiveCloudLegacy, neighborFiles
  <2> QED
    BY <1>2, <1>3, <1>5, <2>1 DEF Maintenance
<1>9. Withdrawing' /\ Retired'
  BY <1>5 DEF Withdrawing, Retired
<1> QED
  BY <1>4, <1>6, <1>7, <1>8, <1>9, AccountedFrame

LEMMA StepWriteRetiring ==
    ASSUME NInv, WriteRetiring
    PROVE  NInv'
<1> USE DEF NInv
<1>1. /\ nbPass.pc = "side" /\ nbPass' = [nbPass EXCEPT !.pc = "main"]
      /\ nbSide' = [peers |-> nbPass.want, retiring |-> nbPass.retiring,
                    candidates |-> nbPass.candidates]
      /\ UNCHANGED <<nbMain, nbMarker, nbDocs, nbPeers, nbRoutes, neighborMesh, nbDone>>
  BY DEF WriteRetiring, neighborKernel
<1>2. /\ nbPass' \in Pass /\ nbPass'.pc = "main" /\ nbPass'.key = nbPass.key
      /\ nbPass'.want = nbPass.want /\ nbPass'.retiring = nbPass.retiring
      /\ nbPass'.candidates = nbPass.candidates
  BY <1>1, Onward
<1>3. nbPass.key = {}
  BY <1>1 DEF Withdrawing
<1>4. NeighborTypes'
  BY <1>1, <1>2 DEF NeighborTypes, neighborMesh, Pass
<1>5. LeftForGood'
  BY <1>1, <1>2, LeftFrame
<1>6. VariantsOf(nbPeers) \subseteq nbPass.retiring \cup nbPass.candidates
  BY <1>1, <1>3 DEF Maintenance, Accounted
<1>7. Maintenance' /\ Withdrawing' /\ Retired'
  BY <1>1, <1>2, <1>3, <1>6 DEF Maintenance, Withdrawing, Retired
<1>8. Accounted'
  <2>1. nbSide'.retiring \cup nbSide'.candidates \subseteq previousPeers'
    BY DEF previousPeers
  <2>2. \A v \in nbPass.want \cup nbPass.candidates : v[1] \notin nbDone
    BY <1>1, <1>3 DEF Maintenance, LeftForGood
  <2> QED
    BY SMTT(30), <1>1, <1>6, <2>1, <2>2 DEF Accounted
<1> QED
  BY <1>4, <1>5, <1>7, <1>8

LEMMA StepWriteNeighbors ==
    ASSUME NInv, WriteNeighbors
    PROVE  NInv'
<1> USE DEF NInv
<1>1. /\ nbPass.pc = "main" /\ nbPass' = [nbPass EXCEPT !.pc = "import"]
      /\ nbMain' = nbPass.want
      /\ UNCHANGED <<nbSide, nbMarker, nbDocs, nbPeers, nbRoutes, neighborMesh, nbDone>>
  BY DEF WriteNeighbors, neighborKernel
<1>2. /\ nbPass' \in Pass /\ nbPass'.pc = "import" /\ nbPass'.key = nbPass.key
      /\ nbPass'.want = nbPass.want /\ nbPass'.retiring = nbPass.retiring
      /\ nbPass'.candidates = nbPass.candidates
  BY <1>1, Onward
<1>3. nbPass.key = {}
  BY <1>1 DEF Withdrawing
<1>4. NeighborTypes'
  BY <1>1, <1>2 DEF NeighborTypes, neighborMesh, Pass
<1>5. LeftForGood'
  BY <1>1, <1>2, LeftFrame
<1>6. Maintenance' /\ Withdrawing' /\ Retired'
  BY <1>1, <1>2, <1>3 DEF Maintenance, Withdrawing, Retired
<1>7. Accounted'
  <2>1. VariantsOf(nbPeers) \subseteq nbSide.retiring \cup nbSide.candidates
    BY <1>1, <1>3 DEF Maintenance
  <2>2. nbSide'.retiring \cup nbSide'.candidates \subseteq previousPeers'
    BY DEF previousPeers
  <2> QED
    BY SMTT(30), <1>1, <2>1, <2>2 DEF Accounted, LeftForGood
<1> QED
  BY <1>4, <1>5, <1>6, <1>7

LEMMA StepImportLegacy ==
    ASSUME NInv, ImportLegacy
    PROVE  NInv'
<1> USE DEF NInv
<1>1. /\ nbPass.pc = "import" /\ nbPass' = [nbPass EXCEPT !.pc = "admit"] /\ nbMarker' = TRUE
      /\ UNCHANGED <<nbMain, nbSide, nbDocs, nbPeers, nbRoutes, neighborMesh, nbDone>>
  BY DEF ImportLegacy, neighborKernel
<1>2. /\ nbPass' \in Pass /\ nbPass'.pc = "admit" /\ nbPass'.key = nbPass.key
      /\ nbPass'.want = nbPass.want /\ nbPass'.retiring = nbPass.retiring
      /\ nbPass'.candidates = nbPass.candidates
  BY <1>1, Onward
<1>3. nbPass.key = {}
  BY <1>1 DEF Withdrawing
<1>4. NeighborTypes'
  BY <1>1, <1>2 DEF NeighborTypes, neighborMesh
<1>5. LeftForGood'
  BY <1>1, <1>2, LeftFrame
<1>6. Maintenance' /\ Withdrawing' /\ Retired'
  BY <1>1, <1>2, <1>3 DEF Maintenance, Withdrawing, Retired
<1>7. Accounted'
  <2>1. VariantsOf(nbPeers) \subseteq nbSide.retiring \cup nbSide.candidates
    BY <1>1, <1>3 DEF Maintenance
  <2>2. nbSide'.retiring \cup nbSide'.candidates \subseteq previousPeers'
    BY DEF previousPeers
  <2> QED
    BY <1>1, <2>1, <2>2 DEF Accounted
<1> QED
  BY <1>4, <1>5, <1>6, <1>7

LEMMA StepAdmitRetirement ==
    ASSUME NInv, AdmitRetirement
    PROVE  NInv'
<1> USE DEF NInv
<1> DEFINE left == {v[1] : v \in VariantsOf(nbPeers) \cap nbPass.retiring}
<1>1. /\ nbPass.pc = "admit" /\ nbPass' = [nbPass EXCEPT !.pc = "drain", !.left = left]
      /\ UNCHANGED <<neighborFiles, neighborKernel, neighborMesh, nbDone>>
  BY DEF AdmitRetirement
<1>2. left \in SUBSET Key
  BY SMTT(30), VariantsAt DEF NeighborTypes
<1>3. /\ \A v \in VariantsOf(nbPeers) : v \in nbPass.retiring => v[1] \in left
      /\ \A v \in VariantsOf(nbPeers) : v[1] \in left => v \in nbPass.retiring
  BY SMTT(30), VariantsAt DEF NeighborTypes
<1> HIDE DEF left
<1>4. /\ nbPass' \in Pass /\ nbPass'.pc = "drain" /\ nbPass'.key = nbPass.key
      /\ nbPass'.want = nbPass.want /\ nbPass'.retiring = nbPass.retiring
      /\ nbPass'.candidates = nbPass.candidates /\ nbPass'.left = left
  BY <1>1, <1>2 DEF NeighborTypes, Pass
<1>5. NeighborTypes'
  BY <1>1, <1>4 DEF NeighborTypes, neighborFiles, neighborKernel, neighborMesh
<1>6. LeftForGood'
  BY <1>1, <1>4, LeftFrame
<1>7. UNCHANGED <<nbMain, nbSide, nbPeers, nbDocs>>
  BY <1>1 DEF neighborFiles, neighborKernel
<1>8. Maintenance' /\ Withdrawing' /\ Retired'
  BY SMTT(30), <1>1, <1>3, <1>4, <1>7 DEF Maintenance, Withdrawing, Retired
<1> QED
  BY <1>1, <1>5, <1>6, <1>8, AccountedFrame

LEMMA StepDrainRoute ==
    ASSUME NInv, NEW s \in Source, DrainRoute(s)
    PROVE  NInv'
<1> USE DEF NInv
<1>1. /\ nbRoutes' \subseteq nbRoutes
      /\ UNCHANGED <<neighborFiles, nbPeers, neighborMesh, nbDone, nbPass>>
  BY DEF DrainRoute
<1>2. NeighborTypes' /\ LeftForGood'
  BY <1>1 DEF NeighborTypes, LeftForGood, neighborFiles, neighborMesh
<1>3. UNCHANGED <<nbMain, nbSide, nbPeers, nbDocs, previousPeers>>
  BY <1>1 DEF neighborFiles, previousPeers, pendingReceiveCloudLegacy
<1>4. Maintenance' /\ Withdrawing' /\ Retired' /\ Accounted'
  BY SMTT(30), <1>1, <1>3 DEF Maintenance, Withdrawing, Retired, Accounted
<1> QED
  BY <1>2, <1>4

LEMMA StepRemovePeer ==
    ASSUME NInv, NEW k \in Key, RemovePeer(k)
    PROVE  NInv'
<1> USE DEF NInv
<1>1. /\ nbPass.pc = "drain" /\ k \in nbPass.left
      /\ nbRoutes \cap SourcesOf(nbPass.retiring) = {}
      /\ nbPeers' = [nbPeers EXCEPT ![k] = {}]
      /\ nbPass' = [nbPass EXCEPT !.left = @ \ {k}]
      /\ UNCHANGED <<neighborFiles, nbRoutes, neighborMesh, nbDone>>
  BY DEF RemovePeer
<1>2. /\ nbPass' \in Pass /\ nbPass'.pc = "drain" /\ nbPass'.key = nbPass.key
      /\ nbPass'.want = nbPass.want /\ nbPass'.retiring = nbPass.retiring
      /\ nbPass'.candidates = nbPass.candidates /\ nbPass'.left = nbPass.left \ {k}
  BY <1>1 DEF NeighborTypes, Pass
<1>3. nbPeers \in [Key -> SUBSET Source] /\ nbPeers' \in [Key -> SUBSET Source]
  BY <1>1 DEF NeighborTypes
<1>4. VariantsOf(nbPeers') = {v \in VariantsOf(nbPeers) : v[1] # k}
  <2>1. ASSUME NEW v \in VariantsOf(nbPeers')
        PROVE  v \in VariantsOf(nbPeers) /\ v[1] # k
    <3>1. v[1] \in Key /\ v[2] = nbPeers'[v[1]] /\ v[2] # {} /\ v = <<v[1], v[2]>>
      BY <1>3, VariantsAt
    <3>2. v[1] # k /\ nbPeers[v[1]] = v[2]
      BY <1>1, <1>3, <3>1
    <3>3. <<v[1], nbPeers[v[1]]>> \in VariantsOf(nbPeers)
      BY <1>3, <3>1, <3>2, VariantsAt
    <3> QED
      BY <3>1, <3>2, <3>3
  <2>2. ASSUME NEW v \in VariantsOf(nbPeers), v[1] # k
        PROVE  v \in VariantsOf(nbPeers')
    <3>1. v[1] \in Key /\ v[2] = nbPeers[v[1]] /\ v[2] # {} /\ v = <<v[1], v[2]>>
      BY <1>3, VariantsAt
    <3>2. nbPeers'[v[1]] = v[2]
      BY <1>1, <1>3, <2>2, <3>1
    <3>3. <<v[1], nbPeers'[v[1]]>> \in VariantsOf(nbPeers')
      BY <1>3, <3>1, <3>2, VariantsAt
    <3> QED
      BY <3>1, <3>2, <3>3
  <2> QED
    BY <2>1, <2>2
<1>5. UNCHANGED <<nbMain, nbSide, nbDocs, previousPeers>>
  BY <1>1 DEF neighborFiles, previousPeers, pendingReceiveCloudLegacy
<1>6. NeighborTypes'
  BY <1>1, <1>2, <1>3 DEF NeighborTypes, neighborFiles, neighborMesh
<1>7. LeftForGood'
  BY <1>1, <1>2, LeftFrame
<1>8. Maintenance' /\ Withdrawing' /\ Retired'
  BY <1>1, <1>2, <1>4, <1>5 DEF Maintenance, Withdrawing, Retired
<1>9. Accounted'
  <2>1. \A s \in nbRoutes : \E v \in VariantsOf(nbPeers') : s \in v[2]
    <3> SUFFICES ASSUME NEW s \in nbRoutes
                 PROVE  \E v \in VariantsOf(nbPeers') : s \in v[2]
      OBVIOUS
    <3>1. PICK v \in VariantsOf(nbPeers) : s \in v[2]
      BY DEF Accounted
    <3>2. v[1] # k
      BY SMTT(30), <1>1, <3>1, Sources DEF Retired
    <3> QED
      BY <1>4, <3>1, <3>2
  <2>2. \A j \in nbDone : nbPeers'[j] = {}
    BY <1>1, <1>3 DEF Accounted, LeftForGood, NeighborTypes
  <2> QED
    BY <1>1, <1>4, <1>5, <2>1, <2>2 DEF Accounted
<1> QED
  BY <1>6, <1>7, <1>8, <1>9

LEMMA StepCommitRetirement ==
    ASSUME NInv, CommitRetirement
    PROVE  NInv'
<1> USE DEF NInv
<1>1. /\ nbPass.pc = "drain" /\ nbPass.left = {} /\ nbPass.key = {}
      /\ nbSide' = [peers |-> nbPass.want, retiring |-> {}, candidates |-> nbPass.candidates]
      /\ nbPass' = [nbPass EXCEPT !.pc = "install"]
      /\ UNCHANGED <<nbMain, nbMarker, nbDocs, nbPeers, nbRoutes, neighborMesh, nbDone>>
  BY DEF CommitRetirement, Drained, neighborKernel
<1>2. /\ nbPass' \in Pass /\ nbPass'.pc = "install" /\ nbPass'.key = nbPass.key
      /\ nbPass'.want = nbPass.want /\ nbPass'.retiring = nbPass.retiring
      /\ nbPass'.candidates = nbPass.candidates
  BY <1>1, Onward
<1>3. VariantsOf(nbPeers) \subseteq nbPass.candidates
  BY <1>1 DEF Maintenance
<1>4. NeighborTypes'
  BY <1>1, <1>2 DEF NeighborTypes, neighborMesh, Pass
<1>5. LeftForGood'
  BY <1>1, <1>2, LeftFrame
<1>6. Maintenance' /\ Withdrawing' /\ Retired'
  BY <1>1, <1>2, <1>3 DEF Maintenance, Withdrawing, Retired
<1>7. Accounted'
  <2>1. nbSide'.candidates \subseteq previousPeers'
    BY DEF previousPeers
  <2>2. \A v \in nbPass.want \cup nbPass.candidates : v[1] \notin nbDone
    BY <1>1 DEF Maintenance, LeftForGood
  <2> QED
    BY SMTT(30), <1>1, <1>3, <2>1, <2>2 DEF Accounted
<1> QED
  BY <1>4, <1>5, <1>6, <1>7

LEMMA StepInstallPeers ==
    ASSUME NInv, InstallPeers
    PROVE  NInv'
<1> USE DEF NInv
<1>1. /\ nbPass.pc = "install" /\ Installable
      /\ nbPeers' = [k \in Key |-> IF k \in KeysOf(nbPass.want)
                                   THEN SourcesOf({v \in nbPass.want : v[1] = k})
                                   ELSE nbPeers[k]]
      /\ nbPass' = [nbPass EXCEPT !.pc = "routes"]
      /\ UNCHANGED <<neighborFiles, nbRoutes, neighborMesh, nbDone>>
  BY DEF InstallPeers
<1>2. /\ nbPass' \in Pass /\ nbPass'.pc = "routes" /\ nbPass'.key = nbPass.key
      /\ nbPass'.want = nbPass.want /\ nbPass'.retiring = nbPass.retiring
      /\ nbPass'.candidates = nbPass.candidates
  BY <1>1, Onward
<1>3. nbPass.key = {}
  BY <1>1 DEF Withdrawing
<1>4. /\ nbPass.want \in SUBSET Variant /\ nbPeers \in [Key -> SUBSET Source]
      /\ \A u, v \in nbPass.want : u[1] = v[1] => u = v
      /\ \A v \in nbPass.candidates : \E u \in nbPass.want : u[1] = v[1]
      /\ VariantsOf(nbPeers) \subseteq nbPass.candidates
  BY <1>1, <1>3 DEF Maintenance, NeighborTypes, Pass
<1>5. \A v \in nbPass.want : SourcesOf({u \in nbPass.want : u[1] = v[1]}) = v[2]
  <2> SUFFICES ASSUME NEW v \in nbPass.want
               PROVE  SourcesOf({u \in nbPass.want : u[1] = v[1]}) = v[2]
    OBVIOUS
  <2>1. {u \in nbPass.want : u[1] = v[1]} = {v}
    BY SMTT(30), <1>4
  <2> QED
    BY <2>1 DEF SourcesOf
<1>6. /\ \A v \in nbPass.want : nbPeers'[v[1]] = v[2]
      /\ \A k \in Key : (\A v \in nbPass.want : v[1] # k) => nbPeers'[k] = nbPeers[k]
      /\ nbPeers' \in [Key -> SUBSET Source]
  <2>1. \A v \in nbPass.want : nbPeers'[v[1]] = v[2]
    BY <1>1, <1>4, <1>5, Keys, VariantParts
  <2>2. \A k \in Key : (\A v \in nbPass.want : v[1] # k) => nbPeers'[k] = nbPeers[k]
    BY <1>1, Keys
  <2>3. \A k \in Key : nbPeers'[k] \in SUBSET Source
    BY SMTT(30), <1>4, <2>1, <2>2, VariantParts
  <2> QED
    BY <1>1, <2>1, <2>2, <2>3
<1>7. VariantsOf(nbPeers') = nbPass.want
  <2>1. ASSUME NEW v \in nbPass.want
        PROVE  v \in VariantsOf(nbPeers')
    <3>1. v[1] \in Key /\ v[2] # {} /\ v = <<v[1], v[2]>>
      BY SMTT(30), <1>4 DEF Variant
    <3>2. <<v[1], nbPeers'[v[1]]>> \in VariantsOf(nbPeers')
      BY <1>6, <3>1, VariantsAt
    <3> QED
      BY <1>6, <3>1, <3>2
  <2>2. ASSUME NEW v \in VariantsOf(nbPeers')
        PROVE  v \in nbPass.want
    <3>1. v[1] \in Key /\ v[2] = nbPeers'[v[1]] /\ v[2] # {} /\ v = <<v[1], v[2]>>
      BY <1>6, VariantsAt
    <3>2. PICK u \in nbPass.want : u[1] = v[1]
      <4>1. CASE \A u \in nbPass.want : u[1] # v[1]
        <5>1. <<v[1], nbPeers[v[1]]>> \in VariantsOf(nbPeers)
          BY <1>4, <1>6, <3>1, <4>1, VariantsAt
        <5>2. v \in nbPass.candidates
          BY <1>4, <1>6, <3>1, <4>1, <5>1
        <5> QED
          BY <1>4, <4>1, <5>2
      <4> QED
        BY <4>1
    <3>3. u = <<u[1], u[2]>>
      BY <1>4, VariantParts
    <3> QED
      BY SMTT(30), <1>6, <3>1, <3>2, <3>3
  <2> QED
    BY <2>1, <2>2
<1>8. UNCHANGED <<nbMain, nbSide, nbDocs, previousPeers>>
  BY <1>1 DEF neighborFiles, previousPeers, pendingReceiveCloudLegacy
<1>9. NeighborTypes'
  BY <1>1, <1>2, <1>6 DEF NeighborTypes, neighborFiles, neighborMesh
<1>10. LeftForGood'
  BY <1>1, <1>2, LeftFrame
<1>11. Maintenance' /\ Withdrawing' /\ Retired'
  BY <1>1, <1>2, <1>3, <1>7, <1>8 DEF Maintenance, Withdrawing, Retired
<1>12. Accounted'
  <2>1. VariantsOf(nbPeers') \subseteq previousPeers'
    BY <1>1, <1>3, <1>7, <1>8 DEF Maintenance, previousPeers
  <2>2. \A s \in nbRoutes : \E v \in VariantsOf(nbPeers') : s \in v[2]
    <3> SUFFICES ASSUME NEW s \in nbRoutes
                 PROVE  \E v \in nbPass.want : s \in v[2]
      BY <1>7
    <3>1. PICK v \in VariantsOf(nbPeers) : s \in v[2]
      BY DEF Accounted
    <3>2. PICK u \in nbPass.want : u[1] = v[1]
      BY <1>4, <3>1
    <3>3. v[2] \subseteq u[2]
      BY SMTT(30), <1>1, <1>4, <3>1, <3>2, VariantsAt DEF Installable
    <3> QED
      BY <3>1, <3>2, <3>3
  <2>3. \A k \in nbDone : nbPeers'[k] = {}
    BY SMTT(30), <1>6 DEF LeftForGood, NeighborTypes, Accounted
  <2> QED
    BY <1>1, <1>8, <2>1, <2>2, <2>3 DEF Accounted
<1> QED
  BY <1>9, <1>10, <1>11, <1>12

LEMMA StepInstallRoute ==
    ASSUME NInv, NEW s \in Source, InstallRoute(s)
    PROVE  NInv'
<1> USE DEF NInv
<1>1. /\ nbPass.pc = "routes" /\ s \in SourcesOf(nbPass.want) /\ nbRoutes' = nbRoutes \cup {s}
      /\ UNCHANGED <<neighborFiles, nbPeers, neighborMesh, nbDone, nbPass>>
  BY DEF InstallRoute
<1>2. NeighborTypes' /\ LeftForGood'
  BY <1>1 DEF NeighborTypes, LeftForGood, neighborFiles, neighborMesh
<1>3. UNCHANGED <<nbMain, nbSide, nbPeers, nbDocs, previousPeers>>
  BY <1>1 DEF neighborFiles, previousPeers, pendingReceiveCloudLegacy
<1>4. Maintenance' /\ Withdrawing' /\ Retired'
  BY <1>1, <1>3 DEF Maintenance, Withdrawing, Retired
<1>5. VariantsOf(nbPeers) = nbPass.want
  BY <1>1 DEF Maintenance, Withdrawing
<1>6. \E v \in VariantsOf(nbPeers) : s \in v[2]
  BY SMTT(30), <1>1, <1>5, Sources
<1>7. Accounted'
  <2>1. \A t \in nbRoutes' : \E v \in VariantsOf(nbPeers) : t \in v[2]
    BY SMTT(30), <1>1, <1>6 DEF Accounted
  <2>2. UNCHANGED nbDone
    BY <1>1
  <2> HIDE DEF NInv
  <2>3. Accounted
    BY DEF NInv
  <2> QED
    BY SMTT(30), <1>3, <2>1, <2>2, <2>3 DEF Accounted
<1> QED
  BY <1>2, <1>4, <1>7

LEMMA StepFinishNeighbors ==
    ASSUME NInv, FinishNeighbors
    PROVE  NInv'
<1> USE DEF NInv
<1>1. /\ nbPass.pc = "routes"
      /\ nbSide' = [peers |-> nbPass.want, retiring |-> {}, candidates |-> {}]
      /\ nbPass' = Rest(AfterPass)
      /\ UNCHANGED <<nbMain, nbMarker, nbDocs, nbPeers, nbRoutes, neighborMesh, nbDone>>
  BY DEF FinishNeighbors, neighborKernel
<1>2. nbPass.key = {} /\ nbMain = nbPass.want /\ VariantsOf(nbPeers) = nbPass.want
  BY <1>1 DEF Withdrawing, Maintenance
<1>3. NeighborTypes'
  BY <1>1, RestType, AfterPassType DEF NeighborTypes, neighborMesh, Pass
<1>4. LeftForGood' /\ Maintenance' /\ Withdrawing' /\ Retired'
  BY <1>1, Resting, AfterPassType DEF LeftForGood
<1>5. Accounted'
  <2>1. nbMain' \subseteq previousPeers'
    BY DEF previousPeers
  <2> QED
    BY SMTT(30), <1>1, <1>2, <2>1 DEF Accounted
<1> QED
  BY <1>3, <1>4, <1>5
-----------------------------------------------------------------------------
(* Withdrawal.                                                              *)

LEMMA StepPlanWithdrawal ==
    ASSUME NInv, NEW k \in Key, PlanWithdrawal(k)
    PROVE  NInv'
<1> USE DEF NInv
<1>1. /\ k \in nbWithdrawn
      /\ nbPass' = [Rest("dispatch") EXCEPT !.pc = "withdraw", !.key = {k}, !.fresh = TRUE,
                                            !.retiring = withdrawnVariants(k)]
      /\ UNCHANGED <<neighborFiles, neighborKernel, neighborMesh, nbDone>>
  BY DEF PlanWithdrawal
<1>2. withdrawnVariants(k) \in SUBSET Variant
  BY VariantsAt, NeighborsAssumption DEF withdrawnVariants, recordedVariants, NeighborTypes
<1>3. nbPass' \in Pass /\ nbPass'.pc = "withdraw" /\ nbPass'.key = {k} /\ nbPass'.want = {}
  BY <1>1, <1>2 DEF Rest, Pass
<1>4. NeighborTypes'
  BY <1>1, <1>3 DEF NeighborTypes, neighborFiles, neighborKernel, neighborMesh
<1>5. LeftForGood'
  BY <1>1, <1>3 DEF LeftForGood, neighborMesh
<1>6. Maintenance' /\ Withdrawing' /\ Retired'
  BY <1>3 DEF Maintenance, Withdrawing, Retired
<1> QED
  BY <1>1, <1>4, <1>5, <1>6, AccountedFrame

LEMMA StepWriteWithdrawal ==
    ASSUME NInv, WriteWithdrawal
    PROVE  NInv'
<1> USE DEF NInv
<1>1. /\ nbPass.pc = "withdraw" /\ nbPass' = [nbPass EXCEPT !.pc = "admit"]
      /\ nbSide' = [nbSide EXCEPT !.retiring = @ \cup nbPass.retiring]
      /\ UNCHANGED <<nbMain, nbMarker, nbDocs, nbPeers, nbRoutes, neighborMesh, nbDone>>
  BY DEF WriteWithdrawal, neighborKernel
<1>2. /\ nbPass' \in Pass /\ nbPass'.pc = "admit" /\ nbPass'.key = nbPass.key
      /\ nbPass'.want = nbPass.want
  BY <1>1, Onward
<1>3. /\ nbSide'.peers = nbSide.peers /\ nbSide'.candidates = nbSide.candidates
      /\ nbSide.retiring \subseteq nbSide'.retiring
      /\ nbSide' \in [peers : SUBSET Variant, retiring : SUBSET Variant,
                      candidates : SUBSET Variant]
  BY <1>1 DEF NeighborTypes, Pass
<1>4. NeighborTypes'
  BY <1>1, <1>2, <1>3 DEF NeighborTypes, neighborMesh
<1>5. LeftForGood'
  BY <1>1, <1>2, LeftFrame
<1>6. Maintenance' /\ Withdrawing' /\ Retired'
  BY <1>1, <1>2 DEF Maintenance, Withdrawing, Retired
<1>7. Accounted'
  <2>1. previousPeers \subseteq previousPeers'
    BY <1>1, <1>3 DEF previousPeers, pendingReceiveCloudLegacy
  <2> QED
    BY <1>1, <1>3, <2>1 DEF Accounted
<1> QED
  BY <1>4, <1>5, <1>6, <1>7

\* What a file loses with a key is not in the kernel.
LEMMA Dropped ==
    ASSUME NeighborTypes, NEW k \in Key, nbPeers[k] = {}, Accounted,
           NEW S, previousPeers \subseteq S \cup {v \in Variant : v[1] = k}
    PROVE  VariantsOf(nbPeers) \subseteq S
BY SMTT(30), VariantsAt DEF NeighborTypes, Accounted

LEMMA StepDropFromMain ==
    ASSUME NInv, DropFromMain
    PROVE  NInv'
<1> USE DEF NInv
<1>1. PICK k \in nbPass.key : nbPeers[k] = {} /\ nbMain' = Without(nbMain, k)
  BY DEF DropFromMain
<1>2. /\ nbPass.pc = "drain" /\ nbPass' = [nbPass EXCEPT !.pc = "sidecar"]
      /\ UNCHANGED <<nbSide, nbMarker, nbDocs, nbPeers, nbRoutes, neighborMesh, nbDone>>
  BY DEF DropFromMain, Drained, neighborKernel
<1>3. /\ nbPass' \in Pass /\ nbPass'.pc = "sidecar" /\ nbPass'.key = nbPass.key
      /\ nbPass'.want = nbPass.want
  BY <1>2, Onward
<1>4. k \in Key /\ nbPass.key = {k} /\ nbPass.want = {}
  BY <1>1 DEF NeighborTypes, Pass, Withdrawing
<1>5. nbMain' \subseteq nbMain /\ \A v \in nbMain' : v[1] # k
  BY <1>1 DEF Without
<1>6. NeighborTypes'
  BY <1>2, <1>3, <1>5 DEF NeighborTypes, neighborMesh
<1>7. LeftForGood'
  BY <1>2, <1>3, LeftFrame
<1>8. Maintenance' /\ Withdrawing' /\ Retired'
  BY SMTT(30), <1>1, <1>2, <1>3, <1>4, <1>5 DEF Maintenance, Withdrawing, Retired
<1>9. Accounted'
  <2>1. previousPeers \subseteq previousPeers' \cup {v \in Variant : v[1] = k}
    BY <1>1, <1>2 DEF previousPeers, pendingReceiveCloudLegacy, Without, NeighborTypes
  <2>2. VariantsOf(nbPeers) \subseteq previousPeers'
    BY <1>1, <1>4, <2>1, Dropped
  <2> QED
    BY <1>2, <1>5, <2>2 DEF Accounted
<1> QED
  BY <1>6, <1>7, <1>8, <1>9

LEMMA StepDropFromSide ==
    ASSUME NInv, DropFromSide
    PROVE  NInv'
<1> USE DEF NInv
<1>1. PICK k \in nbPass.key : nbSide' = [peers |-> Without(nbSide.peers, k),
                                         retiring |-> Without(nbSide.retiring, k),
                                         candidates |-> Without(nbSide.candidates, k)]
  BY DEF DropFromSide
<1>2. /\ nbPass.pc = "sidecar"
      /\ nbPass' = [nbPass EXCEPT !.pc = "docs", !.left = DOMAIN nbDocs]
      /\ UNCHANGED <<nbMain, nbMarker, nbDocs, nbPeers, nbRoutes, neighborMesh, nbDone>>
  BY DEF DropFromSide, neighborKernel
<1>3. /\ nbPass' \in Pass /\ nbPass'.pc = "docs" /\ nbPass'.key = nbPass.key
      /\ nbPass'.want = nbPass.want /\ nbPass'.left = Document
  BY <1>2 DEF NeighborTypes, Pass
<1>4. k \in Key /\ nbPass.key = {k} /\ nbPass.want = {}
  BY <1>1 DEF NeighborTypes, Pass, Withdrawing
<1>5. /\ nbSide'.peers \subseteq nbSide.peers /\ nbSide'.candidates \subseteq nbSide.candidates
      /\ \A v \in nbSide'.peers \cup nbSide'.candidates : v[1] # k
      /\ nbSide' \in [peers : SUBSET Variant, retiring : SUBSET Variant,
                      candidates : SUBSET Variant]
  BY <1>1 DEF Without, NeighborTypes
<1>6. NeighborTypes'
  BY <1>2, <1>3, <1>5 DEF NeighborTypes, neighborMesh
<1>7. LeftForGood'
  BY <1>2, <1>3, LeftFrame
<1>8. Maintenance' /\ Withdrawing' /\ Retired'
  BY <1>2, <1>3, <1>4, <1>5 DEF Maintenance, Withdrawing, Retired
<1>9. Accounted'
  <2>1. previousPeers \subseteq previousPeers' \cup {v \in Variant : v[1] = k}
    BY SMTT(30), <1>1, <1>2 DEF previousPeers, pendingReceiveCloudLegacy, Without, NeighborTypes
  <2>2. VariantsOf(nbPeers) \subseteq previousPeers'
    BY <1>2, <1>4, <2>1, Dropped DEF Withdrawing
  <2> QED
    BY <1>2, <1>5, <2>2 DEF Accounted
<1> QED
  BY <1>6, <1>7, <1>8, <1>9

LEMMA StepCommitCaches ==
    ASSUME NInv, NEW d \in DOMAIN nbDocs, commitWithdrawnCloudCaches(d)
    PROVE  NInv'
<1> USE DEF NInv
<1>1. /\ nbPass.pc = "docs" /\ nbPass' = [nbPass EXCEPT !.left = @ \ {d}]
      /\ nbDocs' = [nbDocs EXCEPT ![d] = @ \ nbPass.key]
      /\ UNCHANGED <<nbMain, nbSide, nbMarker, nbPeers, nbRoutes, neighborMesh, nbDone>>
  BY DEF commitWithdrawnCloudCaches, neighborKernel
<1>2. /\ nbPass' \in Pass /\ nbPass'.pc = "docs" /\ nbPass'.key = nbPass.key
      /\ nbPass'.want = nbPass.want /\ nbPass'.left = nbPass.left \ {d}
  BY <1>1 DEF NeighborTypes, Pass
<1>3. /\ nbDocs' \in [Document -> SUBSET Key]
      /\ \A e \in Document : nbDocs'[e] \subseteq nbDocs[e]
      /\ nbDocs'[d] \cap nbPass.key = {}
  BY <1>1 DEF NeighborTypes
<1>4. NeighborTypes'
  BY <1>1, <1>2, <1>3 DEF NeighborTypes, neighborMesh
<1>5. LeftForGood'
  BY <1>1, <1>2, LeftFrame
<1>6. Maintenance' /\ Withdrawing' /\ Retired'
  BY SMTT(30), <1>1, <1>2, <1>3 DEF Maintenance, Withdrawing, Retired
<1>7. Accounted'
  BY <1>1, <1>3 DEF Accounted, previousPeers, pendingReceiveCloudLegacy
<1> QED
  BY <1>4, <1>5, <1>6, <1>7
-----------------------------------------------------------------------------
LEMMA NeighborNextInv ==
    ASSUME NInv, [NeighborNext]_neighborVars
    PROVE  NInv'
<1>1. CASE NeighborStep
  BY ZenonT(30), <1>1, StepPlanNeighbors, StepWriteRetiring, StepWriteNeighbors,
     StepImportLegacy, StepAdmitRetirement, StepDrainRoute, StepRemovePeer,
     StepCommitRetirement, StepInstallPeers, StepInstallRoute, StepFinishNeighbors, StepRest
     DEF NeighborStep
<1>2. CASE WithdrawalStep
  BY ZenonT(30), <1>2, StepPlanWithdrawal, StepWriteWithdrawal, StepDropFromMain,
     StepDropFromSide, StepCommitCaches, StepRest
     DEF WithdrawalStep
<1>3. CASE UNCHANGED neighborVars
  <2>1. UNCHANGED <<nbMain, nbSide, nbMarker, nbDocs, nbPeers, nbRoutes, nbReserved, nbPublished,
                    nbGone, nbWithdrawn, nbDone, nbPass, previousPeers>>
    BY <1>3 DEF neighborVars, neighborFiles, neighborKernel, neighborMesh, previousPeers,
                pendingReceiveCloudLegacy
  <2> QED
    BY SMTT(30), <2>1
       DEF NInv, NeighborTypes, LeftForGood, Maintenance, Withdrawing, Retired, Accounted
<1> QED
  BY <1>1, <1>2, <1>3, StepMesh, StepRest DEF NeighborNext

\* What the kernel holds for ordinary peers is recorded at every step of every
\* pass, routes lead to peers that own them, and a worker whose withdrawal was
\* reported is named by no file and no kernel state again, for any number of
\* neighbours, publications, crashes and reboots.
THEOREM NeighborsStayAccounted == NeighborSpec => []NeighborsAccounted
<1>1. NInv => NeighborsAccounted
  <2> SUFFICES ASSUME NInv
               PROVE  NeighborsAccounted
    OBVIOUS
  <2>1. nbRoutes \subseteq SourcesOf(VariantsOf(nbPeers))
    BY Sources DEF NInv, Accounted
  <2>2. DOMAIN nbDocs = Document
    BY DEF NInv, NeighborTypes
  <2> QED
    BY SMTT(30), <2>1, <2>2, Keys DEF NInv, Accounted, NeighborsAccounted
<1> QED
  BY NeighborInitInv, NeighborNextInv, <1>1, PTL DEF NeighborSpec
=============================================================================
