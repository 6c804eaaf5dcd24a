------------------------------ MODULE MCStages ------------------------------
(* A small instance of Stages, and with it of Sessions, for TLC.           *)
EXTENDS Stages, TLC

CONSTANTS c1, c2, s1, s2, t1, t2, w1, w2

TwoClients == {c1, c2}
TwoSessions == {s1, s2}
TwoTasks == {t1, t2}
TwoWorkers == {w1, w2}

(* Nothing tells two threads, sessions, tasks or workers apart.            *)
PeerSymmetry == Permutations(Clients) \cup Permutations(SessionIds)
                  \cup Permutations(Tasks) \cup Permutations(Workers)

(* Bound: requests race each other before anything is analysed, and the    *)
(* owner is not locked out meanwhile; the work on stages is raced by the   *)
(* requests of one thread and one session, with no account locked.         *)
Locked == {u \in DOMAIN users : users[u].locked}

OneRaceAtATime ==
  \/ analyses = {} /\ Owner \notin Locked
  \/ /\ tasks = <<>> /\ Locked = {}
     /\ Cardinality(DOMAIN sessions) <= 1
     /\ Cardinality({c \in Clients : ~At(c, "idle")}) <= 1
=============================================================================
