-------------------------- MODULE KnowledgeProofs --------------------------
(***************************************************************************)
(* What stored knowledge keeps true, for any number of claims, sources,    *)
(* statements and runners; and the learning loop, which runs next to it    *)
(* and is not disturbed by it.                                             *)
(***************************************************************************)
EXTENDS Knowledge, LearningProofs

ClaimRows == [key : Statements, mark : [version : 1..MaxVersion, trust : {"unverified"}]]

(* A statement has one row, and nobody's word makes it a fact.             *)
ClaimsTyped ==
  /\ IsFiniteSet(DOMAIN claims) /\ claims \in [DOMAIN claims -> ClaimRows]
  /\ \A c, d \in DOMAIN claims : claims[c].key = claims[d].key => c = d

(* An open conflict, with the rows it cites still there.                   *)
Disputed(conflict) ==
  /\ \E c, d \in DOMAIN claims : conflict.key = {c, d} /\ claims[c].key # claims[d].key
  /\ conflict.cited # {}
  /\ \A e \in conflict.cited :
       /\ e \in DOMAIN evidence /\ evidence[e].mark
       /\ sources[evidence[e].key.source].mark /\ evidence[e].key.claim \in conflict.key

KnowledgeInv ==
  /\ ClaimsTyped
  /\ \A e \in DOMAIN evidence : evidence[e].key.source \in DOMAIN sources
  /\ \A x \in DOMAIN conflicts : conflicts[x].mark = "OPEN" => Disputed(conflicts[x])

-----------------------------------------------------------------------------
(* Tables *)

Extends(new, old) == DOMAIN old \subseteq DOMAIN new /\ \A x \in DOMAIN old : new[x] = old[x]

LEMMA StoredRow ==
  ASSUME NEW table, NEW at, NEW row
  PROVE  /\ Extends(Stored(table, at, row), table)
         /\ at \in DOMAIN table => Stored(table, at, row) = table
         /\ DOMAIN Stored(table, at, row) = DOMAIN table \cup {at}
         /\ at \notin DOMAIN table => Stored(table, at, row)[at] = row
BY DEF Stored, Put, Extends

(* A row is put in a place of its own only if no row says the same.        *)
LEMMA NewPlace ==
  ASSUME NEW table, NEW id, NEW row, Place(table, id, row) # Refused,
         Place(table, id, row) \notin DOMAIN table
  PROVE  Place(table, id, row) = id /\ Twins(table, row) = {}
<1> DEFINE found == IF id \in DOMAIN table THEN {id} ELSE Twins(table, row)
<1>1. found \subseteq DOMAIN table
  BY DEF Twins
<1>2. CASE found = {}
  BY <1>2 DEF Place
<1>3. CASE found # {}
  <2> DEFINE x == CHOOSE y \in found : TRUE
  <2>1. x \in found
    BY <1>3
  <2>2. Place(table, id, row) \in {x, Refused}
    BY <1>3 DEF Place
  <2> QED
    BY <1>1, <2>1, <2>2
<1> QED
  BY <1>2, <1>3

LEMMA Pair ==
  ASSUME NEW S, IsFiniteSet(S), Cardinality(S) = 2
  PROVE  \E c, d \in S : c # d /\ S = {c, d}
<1>1. S # {}
  BY FS_EmptySet
<1>2. PICK c \in S : TRUE
  BY <1>1
<1>3. IsFiniteSet(S \ {c}) /\ Cardinality(S \ {c}) = 1
  BY <1>2, FS_RemoveElement
<1>4. PICK d : S \ {c} = {d}
  BY <1>3, FS_Singleton
<1> QED
  BY <1>2, <1>4

-----------------------------------------------------------------------------
(* What a claim table may become in one step.                              *)
ClaimsStep ==
  /\ ClaimsTyped'
  /\ \A id \in DOMAIN claims :
       /\ id \in DOMAIN claims' /\ claims'[id].key = claims[id].key
       /\ claims'[id].mark = claims[id].mark \/ claims'[id].mark.version > claims[id].mark.version

LEMMA ProposedRow == \A claim \in ProposedClaims : claim \in ClaimRows
BY DEF ProposedClaims, Projected, ClaimsGiven, ClaimRow, ClaimRows

LEMMA SameClaims == ASSUME ClaimsTyped, UNCHANGED claims PROVE ClaimsStep
BY DEF ClaimsTyped, ClaimsStep

LEMMA StoreClaimStep ==
  ASSUME ClaimsTyped, NEW id, NEW claim \in ProposedClaims, StoreClaim(id, claim)
  PROVE  ClaimsStep
<1> DEFINE at == Place(claims, id, claim)
<1>1. at # Refused /\ claims' = Stored(claims, at, claim)
  BY DEF StoreClaim
<1>2. CASE at \in DOMAIN claims
  BY <1>1, <1>2, StoredRow, SameClaims
<1>3. CASE at \notin DOMAIN claims
  <2>1. Twins(claims, claim) = {}
    BY <1>1, <1>3, NewPlace
  <2>2. \A c \in DOMAIN claims : claims[c].key # claim.key
    BY <2>1 DEF Twins
  <2>3. claims' = Put(claims, at, claim) /\ claim \in ClaimRows
    BY <1>1, <1>3, ProposedRow DEF Stored
  <2> HIDE DEF at
  <2>4. /\ DOMAIN claims' = DOMAIN claims \cup {at} /\ claims'[at] = claim
        /\ claims' \in [DOMAIN claims \cup {at} -> ClaimRows]
        /\ \A c \in DOMAIN claims : claims'[c] = claims[c]
    BY <1>3, <2>3 DEF Put, ClaimsTyped
  <2>5. IsFiniteSet(DOMAIN claims')
    BY <2>4, FS_AddElement DEF ClaimsTyped
  <2>6. \A c, d \in DOMAIN claims' : claims'[c].key = claims'[d].key => c = d
    BY <2>2, <2>4 DEF ClaimsTyped
  <2> QED
    BY <2>4, <2>5, <2>6 DEF ClaimsTyped, ClaimsStep
<1> QED
  BY <1>2, <1>3

LEMMA AdvanceStep ==
  ASSUME ClaimsTyped, NEW lease, NEW id, NEW claim \in ProposedClaims, Advance(lease, id, claim)
  PROVE  ClaimsStep
<1>1. PICK x \in Twins(claims, claim) :
        Advances(claim, claims[x]) /\ claims' = [claims EXCEPT ![x].mark = claim.mark]
  BY DEF Advance
<1>2. x \in DOMAIN claims
  BY DEF Twins
<1>3. claim \in ClaimRows /\ claims[x] \in ClaimRows
  BY <1>2, ProposedRow DEF ClaimsTyped
<1> DEFINE row == [claims[x] EXCEPT !.mark = claim.mark]
<1>4. row \in ClaimRows /\ row.key = claims[x].key /\ row.mark.version > claims[x].mark.version
  BY <1>1, <1>3 DEF ClaimRows, Advances
<1>5. claims' = [claims EXCEPT ![x] = row]
  BY <1>1, <1>2 DEF ClaimsTyped
<1> HIDE DEF row
<1>6. /\ DOMAIN claims' = DOMAIN claims /\ claims' \in [DOMAIN claims -> ClaimRows]
      /\ claims'[x] = row /\ \A c \in DOMAIN claims : c # x => claims'[c] = claims[c]
  BY <1>2, <1>4, <1>5 DEF ClaimsTyped
<1>7. \A c \in DOMAIN claims : claims'[c].key = claims[c].key
  BY <1>4, <1>6
<1> QED
  BY <1>4, <1>6, <1>7 DEF ClaimsTyped, ClaimsStep

-----------------------------------------------------------------------------
(* The other tables only get new rows; evidence names a stored source.     *)
RowsStep ==
  /\ Extends(sources', sources) /\ Extends(evidence', evidence)
  /\ \A e \in DOMAIN evidence' : e \notin DOMAIN evidence => evidence'[e].key.source \in DOMAIN sources'

LEMMA SameTable == ASSUME NEW table PROVE Extends(table, table)
BY DEF Extends

LEMMA StoreEvidenceStep ==
  ASSUME NEW item, NEW at, evidence' = Stored(evidence, at, item), item.key.source \in DOMAIN sources',
         Extends(sources', sources)
  PROVE  RowsStep
<1>1. /\ Extends(evidence', evidence) /\ DOMAIN evidence' = DOMAIN evidence \cup {at}
      /\ at \notin DOMAIN evidence => evidence'[at] = item
  BY DEF Stored, Put, Extends
<1> QED
  BY <1>1 DEF RowsStep

LEMMA StoresStep ==
  ASSUME KnowledgeInv, KnowledgeStep
  PROVE  ClaimsStep /\ RowsStep
<1>k. ClaimsTyped
  BY DEF KnowledgeInv
<1>1. CASE SaveSource
  <2>1. PICK at, row : sources' = Stored(sources, at, row)
    BY <1>1 DEF SaveSource
  <2>2. Extends(sources', sources) /\ UNCHANGED <<claims, evidence>>
    BY <1>1, <2>1, StoredRow DEF SaveSource
  <2> QED
    BY <1>k, <2>2, SameClaims, SameTable DEF RowsStep
<1>2. CASE SaveClaim
  BY <1>k, <1>2, StoreClaimStep, SameTable DEF SaveClaim, RowsStep
<1>3. CASE SaveConflict \/ \E r \in Runners : AddKnowledge(r)
  BY <1>k, <1>3, SameClaims, SameTable DEF SaveConflict, AddKnowledge, RowsStep
<1>4. ASSUME NEW lease, SaveEvidence(lease) PROVE ClaimsStep /\ RowsStep
  <2>1. PICK id \in EvidenceIds, item \in EvidenceGiven : StoreEvidence(lease, id, item)
    BY <1>4 DEF SaveEvidence
  <2>2. UNCHANGED <<sources, claims>>
    BY <1>4 DEF SaveEvidence
  <2> QED
    BY <1>k, <2>1, <2>2, SameClaims, SameTable, StoreEvidenceStep DEF StoreEvidence, Attachable
<1>5. ASSUME NEW lease, RefreshClaim(lease) PROVE ClaimsStep /\ RowsStep
  <2>1. PICK id \in ClaimIds, claim \in ProposedClaims : FirstClaim(id, claim) \/ Advance(lease, id, claim)
    BY <1>5 DEF RefreshClaim
  <2>2. UNCHANGED sources
    BY <1>5 DEF RefreshClaim
  <2>3. CASE FirstClaim(id, claim)
    BY <1>k, <2>2, <2>3, StoreClaimStep, SameTable DEF FirstClaim, RowsStep
  <2>4. CASE Advance(lease, id, claim)
    <3>1. CASE UNCHANGED evidence
      BY <1>k, <2>2, <2>4, <3>1, AdvanceStep, SameTable DEF RowsStep
    <3>2. ASSUME NEW e, NEW item, StoreEvidence(lease, e, item) PROVE RowsStep
      BY <2>2, <3>2, SameTable, StoreEvidenceStep DEF StoreEvidence, Attachable
    <3> QED
      BY <1>k, <2>4, <3>1, <3>2, AdvanceStep DEF Advance
  <2> QED
    BY <2>1, <2>3, <2>4
<1>6. ASSUME NEW lease, SaveBundle(lease) PROVE ClaimsStep /\ RowsStep
  <2>1. PICK sid \in SourceIds, source \in SourcesGiven, cid \in ClaimIds, claim \in ProposedClaims :
          LET place == Place(sources, sid, source)
              at == Place(claims, cid, claim)
          IN  /\ place # Refused /\ sources' = Stored(sources, place, source)
              /\ StoreClaim(cid, claim)
              /\ \E e \in EvidenceIds, task \in {NoTask, lease}, verified \in BOOLEAN :
                   LET item == EvidenceRow(at, place, task, verified)
                   IN  /\ Attachable(lease, e, item, DOMAIN claims', DOMAIN sources')
                       /\ evidence' = Stored(evidence, Place(evidence, e, item), item)
    BY <1>6 DEF SaveBundle
  <2>2. ClaimsStep
    BY <1>k, <2>1, StoreClaimStep
  <2>3. Extends(sources', sources)
    BY <2>1, StoredRow
  <2>4. PICK e, item : /\ Attachable(lease, e, item, DOMAIN claims', DOMAIN sources')
                       /\ evidence' = Stored(evidence, Place(evidence, e, item), item)
    BY <2>1
  <2> QED
    BY <2>2, <2>3, <2>4, StoreEvidenceStep DEF Attachable
<1> QED
  BY <1>1, <1>2, <1>3, <1>4, <1>5, <1>6 DEF KnowledgeStep

(* What an open conflict rests on stays.                                   *)
LEMMA StaysDisputed ==
  ASSUME KnowledgeInv, ClaimsStep, RowsStep, NEW conflict, Disputed(conflict)
  PROVE  Disputed(conflict)'
<1>1. \E c, d \in DOMAIN claims' : conflict.key = {c, d} /\ claims'[c].key # claims'[d].key
  BY DEF Disputed, ClaimsStep
<1>2. ASSUME NEW e \in conflict.cited
      PROVE  /\ e \in DOMAIN evidence' /\ evidence'[e].mark
             /\ sources'[evidence'[e].key.source].mark /\ evidence'[e].key.claim \in conflict.key
  <2>1. /\ e \in DOMAIN evidence /\ evidence[e].mark /\ evidence[e].key.source \in DOMAIN sources
        /\ sources[evidence[e].key.source].mark /\ evidence[e].key.claim \in conflict.key
    BY <1>2 DEF Disputed, KnowledgeInv
  <2>2. e \in DOMAIN evidence' /\ evidence'[e] = evidence[e]
    BY <2>1 DEF RowsStep, Extends
  <2>3. sources'[evidence[e].key.source] = sources[evidence[e].key.source]
    BY <2>1 DEF RowsStep, Extends
  <2> QED
    BY <2>1, <2>2, <2>3
<1> QED
  BY <1>1, <1>2 DEF Disputed

(* A conflict is opened between two claims, on evidence about them.        *)
LEMMA OpenedOnEvidence ==
  ASSUME KnowledgeInv, SaveConflict
  PROVE  \A x \in DOMAIN conflicts' :
           \/ x \in DOMAIN conflicts /\ conflicts'[x] = conflicts[x]
           \/ conflicts'[x].mark = "OPEN" => Disputed(conflicts'[x])
<1>1. PICK id \in ConflictIds, row \in ConflictsGiven :
        LET at == Place(conflicts, id, row)
        IN  /\ row.key \subseteq DOMAIN claims
            /\ Cites(row)
            /\ row.mark = "OPEN" => row.cited # {} /\ Verified(row.cited)
            /\ at # Refused /\ conflicts' = Stored(conflicts, at, row)
  BY DEF SaveConflict
<1> DEFINE at == Place(conflicts, id, row)
<1>2. row.key \in SUBSET ClaimIds /\ Cardinality(row.key) = 2
  BY DEF ConflictsGiven, ConflictRow
<1>3. IsFiniteSet(row.key)
  BY <1>1, FS_Subset DEF KnowledgeInv, ClaimsTyped
<1>4. PICK c, d \in row.key : c # d /\ row.key = {c, d}
  BY <1>2, <1>3, Pair
<1>5. claims[c].key # claims[d].key /\ c \in DOMAIN claims /\ d \in DOMAIN claims
  BY <1>1, <1>4 DEF KnowledgeInv, ClaimsTyped
<1>6. row.mark = "OPEN" => Disputed(row)
  BY <1>1, <1>4, <1>5 DEF Disputed, Cites, Verified
<1>7. /\ DOMAIN conflicts' = DOMAIN conflicts \cup {at} /\ Extends(conflicts', conflicts)
      /\ at \notin DOMAIN conflicts => conflicts'[at] = row
  BY <1>1 DEF Stored, Put, Extends
<1> HIDE DEF at
<1> QED
  BY <1>6, <1>7 DEF Extends

LEMMA KnowledgeKeeps == ASSUME KnowledgeInv, KnowledgeStep PROVE KnowledgeInv'
<1>1. ClaimsStep /\ RowsStep
  BY StoresStep
<1>2. \A e \in DOMAIN evidence' : evidence'[e].key.source \in DOMAIN sources'
  <2> SUFFICES ASSUME NEW e \in DOMAIN evidence' PROVE evidence'[e].key.source \in DOMAIN sources'
    OBVIOUS
  <2>1. CASE e \in DOMAIN evidence
    BY <1>1, <2>1 DEF RowsStep, Extends, KnowledgeInv
  <2>2. CASE e \notin DOMAIN evidence
    BY <1>1, <2>2 DEF RowsStep
  <2> QED
    BY <2>1, <2>2
<1>3. ASSUME NEW x \in DOMAIN conflicts', conflicts'[x].mark = "OPEN"
      PROVE  Disputed(conflicts[x])'
  <2>1. PICK conflict : conflict = conflicts'[x] /\ Disputed(conflict)
    <3>1. CASE UNCHANGED conflicts
      BY <1>3, <3>1 DEF KnowledgeInv
    <3>2. CASE SaveConflict
      BY <1>3, <3>2, OpenedOnEvidence DEF KnowledgeInv
    <3> QED
      BY <3>1, <3>2 DEF KnowledgeStep, SaveSource, SaveClaim, SaveEvidence, RefreshClaim, SaveBundle,
                        AddKnowledge
  <2>2. Disputed(conflict)'
    BY <1>1, <2>1, StaysDisputed
  <2> QED
    BY <2>1, <2>2 DEF Disputed
<1> QED
  BY <1>1, <1>2, <1>3 DEF KnowledgeInv, ClaimsStep

-----------------------------------------------------------------------------
LEMMA KnowledgeInvariant == KnowledgeSpec => []KnowledgeInv
<1>1. KnowledgeInit => KnowledgeInv
  BY FS_EmptySet DEF KnowledgeInit, KnowledgeInv, ClaimsTyped
<1>2. KnowledgeInv /\ [KnowledgeNext]_knowledgeVars => KnowledgeInv'
  <2> SUFFICES ASSUME KnowledgeInv, [KnowledgeNext]_knowledgeVars PROVE KnowledgeInv'
    OBVIOUS
  <2>1. CASE KnowledgeStep
    BY <2>1, KnowledgeKeeps
  <2>2. CASE UNCHANGED tables
    BY <2>2 DEF tables, KnowledgeInv, ClaimsTyped, Disputed
  <2> QED
    BY <2>1, <2>2 DEF KnowledgeNext, knowledgeVars
<1> QED
  BY <1>1, <1>2, PTL DEF KnowledgeSpec

(* An open conflict rests on verified evidence from a usable source about  *)
(* one of two different statements, when it is opened and ever after       *)
(* (storage.py, save_knowledge_conflict).                                  *)
THEOREM ConflictsStayGrounded == KnowledgeSpec => []ConflictsAreGrounded
<1>1. KnowledgeInv => ConflictsAreGrounded
  BY DEF KnowledgeInv, Disputed, ConflictsAreGrounded
<1> QED
  BY <1>1, KnowledgeInvariant, PTL

(* A statement keeps its row, its version only advances, no claim becomes  *)
(* a fact by being stored, and evidence stays with the claim it was stored *)
(* for (storage.py, the knowledge tables).                                 *)
THEOREM ClaimsAdvance == KnowledgeSpec => ClaimsOnlyAdvance
<1> DEFINE A ==
      /\ \A id \in DOMAIN claims :
           /\ id \in DOMAIN claims' /\ claims'[id].key = claims[id].key
           /\ claims'[id].mark = claims[id].mark
              \/ claims'[id].mark.version > claims[id].mark.version
      /\ \A id \in DOMAIN claims' :
           /\ claims'[id].mark.trust = "unverified" /\ id \notin ActiveKnowledge'
           /\ \A other \in DOMAIN claims' : claims'[other].key = claims'[id].key => other = id
      /\ \A e \in DOMAIN evidence : e \in DOMAIN evidence' /\ evidence'[e] = evidence[e]
<1>1. ASSUME KnowledgeInv, [KnowledgeNext]_knowledgeVars PROVE [A]_knowledgeVars
  <2>1. ASSUME KnowledgeNext PROVE A
    <3>1. ClaimsStep /\ Extends(evidence', evidence)
      <4>1. CASE KnowledgeStep
        BY <1>1, <4>1, StoresStep DEF RowsStep
      <4>2. CASE UNCHANGED tables
        BY <1>1, <4>2, SameClaims, SameTable DEF tables, KnowledgeInv
      <4> QED
        BY <2>1, <4>1, <4>2 DEF KnowledgeNext
    <3>2. ActiveKnowledge' = {}
      BY DEF ActiveKnowledge, Attested
    <3>3. \A id \in DOMAIN claims' : claims'[id].mark.trust = "unverified"
      BY <3>1 DEF ClaimsStep, ClaimsTyped, ClaimRows
    <3> QED
      BY <3>1, <3>2, <3>3 DEF ClaimsStep, ClaimsTyped, Extends
  <2> QED
    BY <1>1, <2>1
<1> HIDE DEF A
<1>2. KnowledgeSpec => [][A]_knowledgeVars
  BY <1>1, KnowledgeInvariant, PTL DEF KnowledgeSpec
<1> QED
  BY <1>2 DEF ClaimsOnlyAdvance, A

(* The store of knowledge leaves the learning loop alone: what is proved   *)
(* of the loop holds of the two together.                                  *)
THEOREM KnowledgeLearns == KnowledgeSpec => LearnSpec
<1>1. KnowledgeInit => LearnInit
  BY DEF KnowledgeInit
<1>2. [KnowledgeNext]_knowledgeVars => [\E r \in Runners : LearnStep(r)]_learnVars
  BY DEF KnowledgeNext, KnowledgeStep, knowledgeVars
<1> QED
  BY <1>1, <1>2, PTL DEF KnowledgeSpec, LearnSpec

(* With the store: a detour is planned only when stored runs have earned it. *)
THEOREM DetoursStayEarned == KnowledgeSpec => []DetoursAreEarned
BY KnowledgeLearns, DetoursOfLearning, PTL

(* With the store: what an active strategy cites is stored, and nothing it *)
(* knows of conflicts.                                                     *)
THEOREM StrategiesStayBacked == KnowledgeSpec => []ActiveIsBacked
BY KnowledgeLearns, StrategiesAreBacked, PTL

(* With the store: evidence is dropped only by a save of what was read     *)
(* before another runner's save.                                           *)
THEOREM EvidenceStaysKept == KnowledgeSpec => EvidenceIsKept
BY KnowledgeLearns, EvidenceStays, PTL
=============================================================================
