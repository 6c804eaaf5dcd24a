----------------------------- MODULE Knowledge -----------------------------
(***************************************************************************)
(* What runners know: sources, claims, evidence and conflicts, each table  *)
(* written by operations that are one transaction under the caller's       *)
(* lease.  A row is found by its id or by what it says (its key); what is  *)
(* already there is returned instead of stored, unless its mark, the part  *)
(* only a transition may change, differs: then the call is refused.        *)
(*                                                                         *)
(* Nothing a caller says is trusted: a claim is stored as unverified       *)
(* however it was declared.  A refused call changes nothing and is no step.*)
(*                                                                         *)
(* Abstracted: texts, times, confidences and metadata; one excerpt per     *)
(* claim, source and task; one type of conflict; a call brings one item of *)
(* evidence at most.  Malformed values are refused by the constructors and *)
(* never reach the tables.                                                 *)
(***************************************************************************)
EXTENDS Learning

CONSTANTS SourceIds, ClaimIds, EvidenceIds, ConflictIds,
          Places,     \* contents at an address: revision and hash included
          Statements, \* domain, subject, predicate, object and type
          MaxVersion  \* bound: versions of a claim that are submitted

ASSUME VersionsAssumption == MaxVersion \in Nat \ {0}

VARIABLES
  sources,   \* table knowledge_sources, by source id
  claims,    \* table knowledge_claims, by claim id
  evidence,  \* table knowledge_evidence, by evidence id
  conflicts, \* table knowledge_conflicts, by conflict id
  items      \* table knowledge_items: the tasks whose pages were kept

tables == <<sources, claims, evidence, conflicts, items>>
knowledgeVars == <<learnVars, tables>>

NoTask == NoTool
Refused == "refused"

-----------------------------------------------------------------------------
(* Rows                                                                    *)

(* However an address is spelled, it is the same place once canonical.     *)
Spellings == Places \X {"canonical", "as typed"}
Canonical(uri) == uri[1]

(* Usable: declared ACTIVE and of a class other than "unverified".         *)
SourceRow(uri, usable) == [key |-> Canonical(uri), mark |-> usable]

ClaimRow(statement, version, trust) ==
  [key |-> statement, mark |-> [version |-> version, trust |-> trust]]

EvidenceRow(claim, source, task, verified) ==
  [key |-> [claim |-> claim, source |-> source, task |-> task], mark |-> verified]

ConflictRow(pair, status, cited) == [key |-> pair, mark |-> status, cited |-> cited]

SourcesGiven == {SourceRow(u, b) : u \in Spellings, b \in BOOLEAN}
ClaimsGiven == {ClaimRow(s, v, t) : s \in Statements, v \in 1..MaxVersion,
                                    t \in {"unverified", "verified"}}
EvidenceGiven == {EvidenceRow(c, s, t, b) : c \in ClaimIds, s \in SourceIds,
                                            t \in Ids \cup {NoTask}, b \in BOOLEAN}

(* A conflict is between two claims; its evidence is a set of ids.         *)
ConflictsGiven == {ConflictRow(p, s, E) : p \in {q \in SUBSET ClaimIds : Cardinality(q) = 2},
                                          s \in {"OPEN", "RESOLVED", "DISMISSED"},
                                          E \in SUBSET EvidenceIds}

Twins(table, row) == {id \in DOMAIN table : table[id].key = row.key}

(* The id under which a row is to be found, once it is stored.             *)
Place(table, id, row) ==
  LET found == IF id \in DOMAIN table THEN {id} ELSE Twins(table, row)
  IN  IF found = {} THEN id
      ELSE LET x == CHOOSE x \in found : TRUE
           IN  IF table[x].key = row.key /\ table[x].mark = row.mark THEN x ELSE Refused

Stored(table, at, row) == IF at \in DOMAIN table THEN table ELSE Put(table, at, row)

-----------------------------------------------------------------------------
(* Operations of the store, called by a runner                             *)

(* No caller's claim is stored as anything but a proposal.                 *)
Projected(claim) == [claim EXCEPT !.mark.trust = "unverified"]

ProposedClaims == {Projected(claim) : claim \in ClaimsGiven}

(* The task whose lease the caller holds.                                  *)
Lease(r) == IF At(r, "run") THEN work[r].id ELSE NoTask

(* Evidence that names a task is stored under the lease of that task.      *)
Provenance(lease, item) == item.key.task \in {NoTask, lease}

Attachable(lease, id, item, known, places) ==
  /\ Provenance(lease, item)
  /\ item.key.claim \in known /\ item.key.source \in places
  /\ Place(evidence, id, item) # Refused

SaveSource ==
  /\ \E id \in SourceIds, row \in SourcesGiven :
       LET at == Place(sources, id, row)
       IN  at # Refused /\ sources' = Stored(sources, at, row)
  /\ UNCHANGED <<claims, evidence, conflicts, items>>

StoreClaim(id, claim) ==
  LET at == Place(claims, id, claim)
  IN  at # Refused /\ claims' = Stored(claims, at, claim)

SaveClaim ==
  /\ \E id \in ClaimIds, claim \in ProposedClaims : StoreClaim(id, claim)
  /\ UNCHANGED <<sources, evidence, conflicts, items>>

StoreEvidence(lease, id, item) ==
  /\ Attachable(lease, id, item, DOMAIN claims, DOMAIN sources)
  /\ evidence' = Stored(evidence, Place(evidence, id, item), item)

SaveEvidence(lease) ==
  /\ \E id \in EvidenceIds, item \in EvidenceGiven : StoreEvidence(lease, id, item)
  /\ UNCHANGED <<sources, claims, conflicts, items>>

(* Mutant of Advances: any version replaces the stored one.                *)
AdvancesAnyhow(claim, stored) == TRUE

Advances(claim, stored) == claim.mark.version > stored.mark.version

(* A refresh finds the claim by its statement.  The first of a statement   *)
(* is stored without its evidence.  Else the row advances and the evidence *)
(* is attached under the id the caller used, which may be another row's.   *)
FirstClaim(id, claim) ==
  /\ Twins(claims, claim) = {}
  /\ StoreClaim(id, claim)
  /\ UNCHANGED evidence

Advance(lease, id, claim) ==
  \E x \in Twins(claims, claim) :
    /\ Advances(claim, claims[x])
    /\ claims' = [claims EXCEPT ![x].mark = claim.mark]
    /\ \/ UNCHANGED evidence
       \/ \E e \in EvidenceIds, item \in EvidenceGiven :
            item.key.claim = id /\ StoreEvidence(lease, e, item)

RefreshClaim(lease) ==
  /\ \E id \in ClaimIds, claim \in ProposedClaims : FirstClaim(id, claim) \/ Advance(lease, id, claim)
  /\ UNCHANGED <<sources, conflicts, items>>

(* A source, a claim and evidence for it at once, all of them or none; the *)
(* evidence follows the two to the ids they are stored under.              *)
SaveBundle(lease) ==
  /\ \E sid \in SourceIds, source \in SourcesGiven, cid \in ClaimIds, claim \in ProposedClaims :
       LET place == Place(sources, sid, source)
           at == Place(claims, cid, claim)
       IN  /\ place # Refused /\ sources' = Stored(sources, place, source)
           /\ StoreClaim(cid, claim)
           /\ \E e \in EvidenceIds, task \in {NoTask, lease}, verified \in BOOLEAN :
                LET item == EvidenceRow(at, place, task, verified)
                IN  /\ Attachable(lease, e, item, DOMAIN claims', DOMAIN sources')
                    /\ evidence' = Stored(evidence, Place(evidence, e, item), item)
  /\ UNCHANGED <<conflicts, items>>

(* Mutant of Cites: evidence about any claim will do.                      *)
CitesAny(conflict) == conflict.cited \subseteq DOMAIN evidence

Cites(conflict) ==
  \A e \in conflict.cited : e \in DOMAIN evidence /\ evidence[e].key.claim \in conflict.key

Verified(cited) == \A e \in cited : evidence[e].mark /\ sources[evidence[e].key.source].mark

SaveConflict ==
  /\ \E id \in ConflictIds, row \in ConflictsGiven :
       LET at == Place(conflicts, id, row)
       IN  /\ row.key \subseteq DOMAIN claims
           /\ Cites(row)
           /\ row.mark = "OPEN" => row.cited # {} /\ Verified(row.cited)
           /\ at # Refused /\ conflicts' = Stored(conflicts, at, row)
  /\ UNCHANGED <<sources, claims, evidence, items>>

(* _persist_knowledge: a page a run has read is kept, for review.          *)
AddKnowledge(r) ==
  /\ At(r, "run")
  /\ items' = items \cup {work[r].id}
  /\ UNCHANGED <<sources, claims, evidence, conflicts>>

(* What a search for active knowledge returns.  No stored evidence counts  *)
(* without an attestation, so there is no claim with a usable one.         *)
Attested == {}
OpenConflicts(id) == {x \in DOMAIN conflicts : id \in conflicts[x].key /\ conflicts[x].mark = "OPEN"}
ActiveKnowledge ==
  {id \in DOMAIN claims : /\ claims[id].mark.trust = "verified"
                          /\ id \in Attested /\ OpenConflicts(id) = {}}

KnowledgeStep ==
  /\ \/ SaveSource \/ SaveClaim \/ SaveConflict
     \/ \E lease \in {Lease(r) : r \in Runners} :
          SaveEvidence(lease) \/ RefreshClaim(lease) \/ SaveBundle(lease)
     \/ \E r \in Runners : AddKnowledge(r)
  /\ UNCHANGED learnVars

KnowledgeInit ==
  /\ LearnInit
  /\ sources = <<>> /\ claims = <<>> /\ evidence = <<>> /\ conflicts = <<>> /\ items = {}

KnowledgeNext ==
  \/ KnowledgeStep
  \/ (\E r \in Runners : LearnStep(r)) /\ UNCHANGED tables

KnowledgeSpec == KnowledgeInit /\ [][KnowledgeNext]_knowledgeVars

-----------------------------------------------------------------------------
(* Properties                                                              *)

(* An open conflict is between two different statements that are stored,   *)
(* and rests on verified evidence about one of the two, from a usable      *)
(* source: at the time it is opened and at every later one.                *)
ConflictsAreGrounded ==
  \A x \in DOMAIN conflicts :
    conflicts[x].mark = "OPEN" =>
      /\ \E c, d \in DOMAIN claims : conflicts[x].key = {c, d} /\ claims[c].key # claims[d].key
      /\ conflicts[x].cited # {}
      /\ \A e \in conflicts[x].cited :
           /\ evidence[e].mark /\ sources[evidence[e].key.source].mark
           /\ evidence[e].key.claim \in conflicts[x].key

(* A statement has one row, which keeps its id, only ever advances and is  *)
(* never stored or returned as a fact, whatever its callers declare; and   *)
(* evidence stored for a claim stays with it.                              *)
ClaimsOnlyAdvance ==
  [][/\ \A id \in DOMAIN claims :
          /\ id \in DOMAIN claims' /\ claims'[id].key = claims[id].key
          /\ claims'[id].mark = claims[id].mark
             \/ claims'[id].mark.version > claims[id].mark.version
     /\ \A id \in DOMAIN claims' :
          /\ claims'[id].mark.trust = "unverified" /\ id \notin ActiveKnowledge'
          /\ \A other \in DOMAIN claims' : claims'[other].key = claims'[id].key => other = id
     /\ \A e \in DOMAIN evidence : e \in DOMAIN evidence' /\ evidence'[e] = evidence[e]
    ]_knowledgeVars
=============================================================================
