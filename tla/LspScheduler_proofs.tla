------------------------ MODULE LspScheduler_proofs -------------------------
(***************************************************************************)
(* The safety of the LSP scheduler, for every set of roots, capacity and   *)
(* file layout.                                                            *)
(***************************************************************************)
EXTENDS LspScheduler, FiniteSetTheorems, WellFoundedInduction, TLAPS

(* A set of roots has a first and a last one in path order.                *)
LEMMA NatMin ==
    ASSUME NEW S \in SUBSET Nat, S # {}
    PROVE  \E m \in S : \A n \in S : m <= n
<1>1. PICK m \in S : \A n \in S : ~ (<<n, m>> \in OpToRel(<, Nat))
  BY NatLessThanWellFounded, WFMin
<1>2. \A n \in S : ~ (n < m)
  BY <1>1 DEF OpToRel
<1> QED
  BY <1>2

(* A nonempty set of roots has a first one.                                *)
LEMMA FirstByRank ==
    ASSUME NEW T \in SUBSET Roots, T # {}
    PROVE  \E m \in T : \A q \in T : Rank[m] <= Rank[q]
<1> DEFINE S == {Rank[r] : r \in T}
<1>1. S \in SUBSET Nat /\ S # {}
  BY RootsAssumption, RankAssumption, FS_CardinalityType
<1>2. PICK n \in S : \A k \in S : n <= k
  BY <1>1, NatMin
<1> QED
  BY <1>2

(* A nonempty set of roots has a last one.                                 *)
LEMMA LastByRank ==
    ASSUME NEW T \in SUBSET Roots, T # {}
    PROVE  \E m \in T : \A q \in T : Rank[q] <= Rank[m]
<1> DEFINE N == Cardinality(Roots)
           S == {N - Rank[r] : r \in T}
<1>1. N \in Nat
  BY RootsAssumption, FS_CardinalityType
<1>2. S \in SUBSET Nat /\ S # {}
  BY <1>1, RankAssumption
<1>3. PICK n \in S : \A k \in S : n <= k
  BY <1>2, NatMin
<1>4. PICK m \in T : n = N - Rank[m]
  BY <1>3
<1>5. \A q \in T : N - Rank[m] <= N - Rank[q]
  BY <1>3, <1>4
<1> HIDE DEF N
<1> QED
  BY <1>1, <1>5, RankAssumption

(* Finite cardinalities of sets of roots.                                  *)
LEMMA RootSets ==
    ASSUME NEW S \in SUBSET Roots
    PROVE  IsFiniteSet(S) /\ Cardinality(S) \in Nat
BY RootsAssumption, FS_Subset, FS_CardinalityType

(* The candidates of FirstFree fill the pool exactly: never beyond         *)
(* MaxScans, and up to it if a candidate is left over.                     *)
LEMMA FirstFreeFills ==
    ASSUME NEW run \in [Roots -> BOOLEAN], NEW C \in SUBSET Roots,
           \A r \in C : ~run[r],
           Cardinality(Running(run)) <= MaxScans
    PROVE  LET all == Running(run) \union FirstFree(run, C)
           IN /\ Cardinality(all) <= MaxScans
              /\ FirstFree(run, C) # C => Cardinality(all) = MaxScans
<1> DEFINE R == Running(run)
           L == FirstFree(run, C)
           Before(r) == {q \in C : Rank[q] < Rank[r]}
<1>1. R \in SUBSET Roots /\ L \in SUBSET C /\ R \intersect L = {}
  BY DEF Running, FirstFree
<1>2. /\ Cardinality(R) \in Nat
      /\ Cardinality(L) \in Nat
      /\ Cardinality(R \union L) = Cardinality(R) + Cardinality(L)
  <2>1. IsFiniteSet(R) /\ IsFiniteSet(L) /\ Cardinality(R) \in Nat /\ Cardinality(L) \in Nat
    BY <1>1, RootSets
  <2>2. Cardinality(R \union L) = Cardinality(R) + Cardinality(L) - Cardinality(R \intersect L)
    BY <2>1, FS_Union
  <2>3. Cardinality(R \intersect L) = 0
    BY <1>1, FS_EmptySet
  <2> QED
    BY <2>1, <2>2, <2>3
<1>3. \A r \in C : Before(r) \in SUBSET Roots /\ Cardinality(Before(r)) \in Nat
  BY RootSets
<1>4. \A r \in C : r \in L <=> Cardinality(R) + Cardinality(Before(r)) < MaxScans
  BY DEF FirstFree
<1>5. Cardinality(R) + Cardinality(L) <= MaxScans
  <2>1. CASE L = {}
    BY <2>1, <1>2, FS_EmptySet, MaxScansAssumption
  <2>2. CASE L # {}
    <3>1. PICK m \in L : \A q \in L : Rank[q] <= Rank[m]
      BY <2>2, <1>1, LastByRank
    <3>2. \A q \in L \ {m} : Rank[q] < Rank[m]
      BY <3>1, <1>1, RankAssumption, RootsAssumption, FS_CardinalityType
    <3>3. L \ {m} \in SUBSET Before(m)
      BY <3>2, <1>1
    <3>4. Cardinality(L \ {m}) <= Cardinality(Before(m))
      BY <3>3, <3>1, <1>1, <1>3, RootSets, FS_Subset
    <3>5. Cardinality(L \ {m}) = Cardinality(L) - 1
      BY <3>1, <1>1, RootSets, FS_RemoveElement
    <3>6. m \in C /\ Cardinality(R) + Cardinality(Before(m)) < MaxScans
      BY <3>1, <1>1, <1>4
    <3> QED
      BY <3>4, <3>5, <3>6, <1>2, <1>3, MaxScansAssumption
  <2> QED
    BY <2>1, <2>2
<1>6. ASSUME L # C
      PROVE  Cardinality(R) + Cardinality(L) >= MaxScans
  <2>1. C \ L \in SUBSET Roots /\ C \ L # {}
    BY <1>1, <1>6
  <2>2. PICK m \in C \ L : \A q \in C \ L : Rank[m] <= Rank[q]
    BY <2>1, FirstByRank
  <2>3. Before(m) \in SUBSET L
    BY <2>2, RankAssumption, RootsAssumption, FS_CardinalityType
  <2>4. Cardinality(Before(m)) <= Cardinality(L)
    BY <2>3, <1>1, RootSets, FS_Subset
  <2>5. ~ (Cardinality(R) + Cardinality(Before(m)) < MaxScans)
    BY <2>2, <1>4
  <2> QED
    BY <2>2, <2>4, <2>5, <1>2, <1>3, MaxScansAssumption
<1> QED
  BY <1>2, <1>5, <1>6, MaxScansAssumption

-----------------------------------------------------------------------------
(***************************************************************************)
(* The invariant of the pool.  Each part is needed for the next one: only  *)
(* the match between flags and scans shows that freeing r's slot leaves    *)
(* none of r's scans behind, and only then is a stale scan's root pending. *)
(***************************************************************************)
PoolInv ==
    /\ TypeOK
    /\ SlotsMatchScans
    /\ PoolWellFilled
    /\ SupersededIsPending

(* Queueing the roots of D keeps the pool invariant, whatever else the     *)
(* handler changes.                                                        *)
LEMMA QueueAllKeepsPool ==
    ASSUME PoolInv, NEW D \in SUBSET Roots, NEW lvl \in Levels,
           QueueAll(D, lvl), level' = lvl, lvl # level => D = Roots
    PROVE  /\ generation' \in [Roots -> Nat]
           /\ running' \in [Roots -> BOOLEAN]
           /\ pending' \in [Roots -> BOOLEAN]
           /\ scans' \subseteq Scan
           /\ status' \in [Roots -> Statuses]
           /\ SlotsMatchScans'
           /\ PoolWellFilled'
           /\ SupersededIsPending'
<1> DEFINE C == {r \in D : ~running[r]}
           starting == FirstFree(running, C)
<1>1. starting \in SUBSET C
  BY DEF FirstFree
<1>2. /\ generation' = [r \in Roots |-> IF r \in D THEN generation[r] + 1 ELSE generation[r]]
      /\ running' = [r \in Roots |-> running[r] \/ r \in starting]
      /\ pending' = [r \in Roots |-> pending[r] \/ r \in D \ starting]
      /\ scans' = scans \union {NewScan(r, generation[r] + 1, lvl) : r \in starting}
      /\ status' = [r \in Roots |-> IF r \in starting THEN "scanning" ELSE status[r]]
  BY DEF QueueAll
<1>3. /\ generation \in [Roots -> Nat] /\ running \in [Roots -> BOOLEAN]
      /\ pending \in [Roots -> BOOLEAN] /\ scans \subseteq Scan
      /\ status \in [Roots -> Statuses] /\ SlotsMatchScans
      /\ PoolWellFilled /\ SupersededIsPending
  BY DEF PoolInv, TypeOK
<1> HIDE DEF starting
<1>4. /\ generation' \in [Roots -> Nat]
      /\ running' \in [Roots -> BOOLEAN]
      /\ pending' \in [Roots -> BOOLEAN]
      /\ status' \in [Roots -> Statuses]
  BY <1>2, <1>3 DEF Statuses
<1>5. scans' \subseteq Scan
  BY <1>1, <1>2, <1>3 DEF Scan, NewScan
<1>6. SlotsMatchScans'
  <2>1. \A r \in Roots : ~running[r] => \A s \in scans : s.root # r
    BY <1>3 DEF SlotsMatchScans
  <2>2. \A r \in starting : r \in Roots /\ ~running[r]
    BY <1>1
  <2>3. \A r : NewScan(r, generation[r] + 1, lvl).root = r
    BY DEF NewScan
  <2>4. ASSUME NEW r \in Roots
        PROVE  running'[r] <=> \E s \in scans' : s.root = r
    <3>1. CASE r \in starting
      BY <3>1, <1>2, <2>3
    <3>2. CASE r \notin starting
      BY <3>2, <1>2, <1>3, <2>3 DEF SlotsMatchScans
    <3> QED
      BY <3>1, <3>2
  <2>5. ASSUME NEW s \in scans', NEW t \in scans', s.root = t.root
        PROVE  s = t
    <3>1. CASE s \in scans /\ t \in scans
      BY <3>1, <2>5, <1>3 DEF SlotsMatchScans
    <3>2. CASE s \notin scans \/ t \notin scans
      BY <3>2, <2>1, <2>2, <2>3, <2>5, <1>2
    <3> QED
      BY <3>1, <3>2
  <2> QED
    BY <2>4, <2>5 DEF SlotsMatchScans
<1>7. PoolWellFilled'
  <2>1. Running(running') = Running(running) \union starting
    BY <1>1, <1>2 DEF Running
  <2>2. /\ Cardinality(Running(running')) <= MaxScans
        /\ starting # C => Cardinality(Running(running')) = MaxScans
    BY <2>1, <1>3, FirstFreeFills DEF starting, PoolWellFilled
  <2>3. ASSUME NEW r \in Roots, pending'[r], ~running'[r]
        PROVE  Cardinality(Running(running')) = MaxScans
    <3>1. CASE r \in D
      BY <3>1, <2>2, <2>3, <1>2
    <3>2. CASE r \notin D
      <4>1. Cardinality(Running(running)) = MaxScans
        BY <3>2, <2>3, <1>2, <1>3 DEF PoolWellFilled
      <4>2. Running(running') \in SUBSET Roots /\ Running(running) \in SUBSET Running(running')
        BY <2>1 DEF Running
      <4> QED
        BY <4>1, <4>2, <2>2, RootSets, FS_Subset, MaxScansAssumption
    <3> QED
      BY <3>1, <3>2
  <2> QED
    BY <2>2, <2>3 DEF PoolWellFilled
<1>8. SupersededIsPending'
  <2>1. ASSUME NEW s \in scans', s.gen # generation'[s.root] \/ s.level # level'
        PROVE  pending'[s.root]
    <3>1. CASE s \in scans
      <4>1. s.root \in Roots /\ running[s.root] /\ s.root \notin starting
        BY <3>1, <1>1, <1>3 DEF SlotsMatchScans, Scan
      <4>2. CASE s.root \in D
        BY <4>1, <4>2, <1>2
      <4>3. CASE s.root \notin D
        BY <4>1, <4>3, <3>1, <2>1, <1>2, <1>3 DEF SupersededIsPending
      <4> QED
        BY <4>2, <4>3
    <3>2. CASE s \notin scans
      <4>1. PICK r \in starting : s = NewScan(r, generation[r] + 1, lvl)
        BY <3>2, <1>2
      <4>2. s.root = r /\ s.gen = generation'[r] /\ s.level = level'
        BY <4>1, <1>1, <1>2 DEF NewScan
      <4> QED
        BY <4>2, <2>1
    <3> QED
      BY <3>1, <3>2
  <2> QED
    BY <2>1 DEF SupersededIsPending
<1> QED
  BY <1>4, <1>5, <1>6, <1>7, <1>8

(* Handling a result frees a slot and refills the pool.                    *)
LEMMA HandleResultKeepsPool ==
    ASSUME PoolInv, NEW s \in scans, HandleResult(s)
    PROVE  PoolInv'
<1> DEFINE r == s.root
           freed == [running EXCEPT ![r] = FALSE]
           C == {q \in Roots : pending[q] /\ ~freed[q]}
           starting == Relaunched(r)
           current == s.gen = generation[r]
<1>1. /\ TypeOK /\ SlotsMatchScans /\ PoolWellFilled /\ SupersededIsPending
      /\ s \in Scan /\ r \in Roots
  BY DEF PoolInv, TypeOK, Scan
<1>2. freed \in [Roots -> BOOLEAN] /\ starting \in SUBSET C /\ starting = FirstFree(freed, C)
  BY <1>1 DEF Relaunched, FirstFree, TypeOK
<1>3. /\ running' = [q \in Roots |-> (running[q] /\ q # r) \/ q \in starting]
      /\ pending' = [q \in Roots |-> pending[q] /\ q \notin starting]
      /\ scans' = (scans \ {s}) \union {NewScan(q, generation[q], level) : q \in starting}
      /\ status' = [q \in Roots |->
             IF q \in starting THEN "scanning"
             ELSE IF q = r /\ current THEN (IF s.state = "ok" THEN "idle" ELSE "error")
             ELSE status[q]]
      /\ UNCHANGED <<phase, generation, level, disk, unreported, events>>
  BY DEF HandleResult
<1>4. /\ published' \in [Roots -> SUBSET Files]
      /\ shown' \subseteq Files
  <2>1. s.found \subseteq Files /\ shown \subseteq Files /\ published \in [Roots -> SUBSET Files]
    BY <1>1 DEF Scan, TypeOK
  <2>2. Republished(r, s.found) \subseteq Files
    BY <2>1 DEF Republished
  <2> QED
    BY <2>1, <2>2 DEF HandleResult
<1> HIDE DEF starting, freed
<1>5. scans' \subseteq Scan
  <2>1. \A q \in Roots : NewScan(q, generation[q], level) \in Scan
    BY <1>1 DEF Scan, NewScan, TypeOK
  <2>2. starting \in SUBSET Roots /\ scans \subseteq Scan
    BY <1>1, <1>2 DEF TypeOK
  <2> QED
    BY <2>1, <2>2, <1>3
<1>6. TypeOK'
  <2>1. status' \in [Roots -> Statuses]
    BY <1>1, <1>3 DEF TypeOK, Statuses
  <2> QED
    BY <2>1, <1>1, <1>3, <1>4, <1>5 DEF TypeOK
<1>7. \A q : NewScan(q, generation[q], level).root = q
  BY DEF NewScan
<1>8. \A q \in Roots : (running[q] /\ q # r) <=> \E t \in scans \ {s} : t.root = q
  BY <1>1 DEF SlotsMatchScans
<1>9. \A q \in starting : q \in Roots /\ pending[q] /\ ~(running[q] /\ q # r)
  BY <1>1, <1>2 DEF TypeOK, freed
<1>10. SlotsMatchScans'
  <2>1. ASSUME NEW q \in Roots
        PROVE  running'[q] <=> \E t \in scans' : t.root = q
    <3>1. CASE q \in starting
      BY <3>1, <1>3, <1>7
    <3>2. CASE q \notin starting
      <4>1. running'[q] <=> (running[q] /\ q # r)
        BY <3>2, <1>1, <1>3 DEF TypeOK
      <4>2. (\E t \in scans' : t.root = q) <=> \E t \in scans \ {s} : t.root = q
        BY <3>2, <1>3, <1>7
      <4> QED
        BY <4>1, <4>2, <1>8
    <3> QED
      BY <3>1, <3>2
  <2>2. ASSUME NEW t \in scans', NEW u \in scans', t.root = u.root
        PROVE  t = u
    <3>1. CASE t \in scans \ {s} /\ u \in scans \ {s}
      BY <3>1, <2>2, <1>1 DEF SlotsMatchScans
    <3>2. CASE t \notin scans \ {s} \/ u \notin scans \ {s}
      BY <3>2, <2>2, <1>3, <1>7, <1>8, <1>9
    <3> QED
      BY <3>1, <3>2
  <2> QED
    BY <2>1, <2>2 DEF SlotsMatchScans
<1>11. PoolWellFilled'
  <2>1. Running(freed) \in SUBSET Running(running) /\ Running(running) \in SUBSET Roots
    BY <1>1 DEF Running, TypeOK, freed
  <2>2. Cardinality(Running(freed)) <= MaxScans
    <3>1. /\ IsFiniteSet(Running(running))
          /\ Cardinality(Running(running)) \in Nat
          /\ Cardinality(Running(freed)) \in Nat
      BY <2>1, RootSets
    <3>2. Cardinality(Running(freed)) <= Cardinality(Running(running))
      BY <3>1, <2>1, FS_Subset
    <3> QED
      BY <3>1, <3>2, <1>1, MaxScansAssumption DEF PoolWellFilled
  <2>3. Running(running') = Running(freed) \union starting
    BY <1>1, <1>2, <1>3 DEF Running, TypeOK, freed
  <2>4. \A q \in C : ~freed[q]
    OBVIOUS
  <2>5. /\ Cardinality(Running(running')) <= MaxScans
        /\ starting # C => Cardinality(Running(running')) = MaxScans
    BY <1>2, <2>2, <2>3, <2>4, FirstFreeFills
  <2>6. ASSUME NEW q \in Roots, pending'[q], ~running'[q]
        PROVE  Cardinality(Running(running')) = MaxScans
    <3>1. q \in C /\ q \notin starting
      BY <2>6, <1>1, <1>3 DEF TypeOK, freed
    <3> QED
      BY <3>1, <2>5
  <2> QED
    BY <2>5, <2>6 DEF PoolWellFilled
<1>12. SupersededIsPending'
  <2>1. ASSUME NEW t \in scans', t.gen # generation'[t.root] \/ t.level # level'
        PROVE  pending'[t.root]
    <3>1. CASE t \in scans \ {s}
      <4>1. t.root \in Roots /\ pending[t.root]
        BY <3>1, <2>1, <1>1, <1>3 DEF SupersededIsPending, TypeOK, Scan
      <4>2. t.root \notin starting
        BY <3>1, <4>1, <1>8, <1>9
      <4> QED
        BY <4>1, <4>2, <1>3
    <3>2. CASE t \notin scans \ {s}
      <4>1. PICK q \in starting : t = NewScan(q, generation[q], level)
        BY <3>2, <1>3
      <4> QED
        BY <4>1, <2>1, <1>3 DEF NewScan
    <3> QED
      BY <3>1, <3>2
  <2> QED
    BY <2>1 DEF SupersededIsPending
<1> QED
  BY <1>6, <1>10, <1>11, <1>12 DEF PoolInv

(* A thread that finishes keeps its slot: only the loop frees it.          *)
LEMMA ScanCompletesKeepsPool ==
    ASSUME PoolInv, NEW s \in scans, ScanCompletes(s)
    PROVE  PoolInv'
<1>1. PICK done \in {[s EXCEPT !.state = "ok", !.found = Findings(s.root, disk, s.level)],
                     [s EXCEPT !.state = "failed"]} :
           scans' = (scans \ {s}) \union {done}
  BY DEF ScanCompletes
<1>2. /\ UNCHANGED <<phase, generation, running, pending, published, level, disk,
                     unreported, shown, status, events>>
      /\ TypeOK /\ SlotsMatchScans /\ PoolWellFilled /\ SupersededIsPending
      /\ s \in Scan
  BY DEF ScanCompletes, editorVars, PoolInv, TypeOK
<1>3. Findings(s.root, disk, s.level) \subseteq Files
  BY <1>2, FilesAssumption DEF Findings, Scan
<1>4. /\ done \in Scan
      /\ done.root = s.root /\ done.gen = s.gen /\ done.level = s.level
  BY <1>1, <1>2, <1>3 DEF Scan
<1>5. TypeOK'
  BY <1>1, <1>2, <1>4 DEF TypeOK
<1>6. SlotsMatchScans'
  <2>1. ASSUME NEW q \in Roots
        PROVE  running'[q] <=> \E t \in scans' : t.root = q
    BY <1>1, <1>2, <1>4 DEF SlotsMatchScans
  <2>2. ASSUME NEW t \in scans', NEW u \in scans', t.root = u.root
        PROVE  t = u
    BY <2>2, <1>1, <1>2, <1>4 DEF SlotsMatchScans
  <2> QED
    BY <2>1, <2>2 DEF SlotsMatchScans
<1>7. PoolWellFilled'
  BY <1>2 DEF PoolWellFilled, Running
<1>8. SupersededIsPending'
  BY <1>1, <1>2, <1>4 DEF SupersededIsPending
<1> QED
  BY <1>5, <1>6, <1>7, <1>8 DEF PoolInv

(* Nothing runs at the start.                                              *)
LEMMA PoolInvInit == Init => PoolInv
<1> SUFFICES ASSUME Init PROVE PoolInv
  OBVIOUS
<1>1. PICK S \in SUBSET Roots, twice \in SUBSET Roots :
        /\ Cardinality(S) = IF Cardinality(Roots) < MaxScans
                            THEN Cardinality(Roots) ELSE MaxScans
        /\ generation = [r \in Roots |-> IF r \in twice THEN 2 ELSE 1]
        /\ running = [r \in Roots |-> r \in S]
        /\ pending = [r \in Roots |-> r \notin S \/ r \in twice]
        /\ status = [r \in Roots |-> IF r \in S THEN "scanning" ELSE NoStatus]
        /\ level \in Levels
        /\ scans = {NewScan(r, 1, level) : r \in S}
  BY DEF Init
<1>2. scans \subseteq Scan
  BY <1>1 DEF Scan, NewScan
<1>3. TypeOK
  BY <1>1, <1>2 DEF TypeOK, Init, Statuses, NoStatus
<1> DEFINE new(r) == NewScan(r, 1, level)
<1>n. \A r : new(r).root = r /\ new(r).gen = 1 /\ new(r).level = level
  BY DEF NewScan
<1>s. scans = {new(r) : r \in S}
  BY <1>1
<1> HIDE DEF new
<1>4. SlotsMatchScans
  <2>1. \A r \in Roots : running[r] <=> r \in S
    BY <1>1
  <2>2. \A r \in Roots : (\E s \in scans : s.root = r) <=> r \in S
    BY <1>n, <1>s
  <2>3. \A s, t \in scans : s.root = t.root => s = t
    BY <1>n, <1>s
  <2> QED
    BY <2>1, <2>2, <2>3 DEF SlotsMatchScans
<1>5. PoolWellFilled
  <2>1. Running(running) = S
    BY <1>1 DEF Running
  <2>2. Cardinality(S) \in Nat /\ Cardinality(Roots) \in Nat
    BY RootSets
  <2>3. S # Roots => Cardinality(S) # Cardinality(Roots)
    BY RootsAssumption, FS_Subset
  <2>4. /\ Cardinality(S) <= MaxScans
        /\ S # Roots => Cardinality(S) = MaxScans
    BY <1>1, <2>2, <2>3, MaxScansAssumption
  <2>5. \A r \in Roots : pending[r] /\ ~running[r] => S # Roots
    BY <1>1
  <2> QED
    BY <2>1, <2>4, <2>5 DEF PoolWellFilled
<1>6. SupersededIsPending
  <2>1. \A r \in S : generation[r] # 1 => pending[r]
    BY <1>1
  <2> QED
    BY <2>1, <1>n, <1>s DEF SupersededIsPending
<1> QED
  BY <1>3, <1>4, <1>5, <1>6 DEF PoolInv

(* Every step keeps the pool.                                              *)
LEMMA PoolInvNext == PoolInv /\ [Next]_vars => PoolInv'
<1> SUFFICES ASSUME PoolInv, [Next]_vars PROVE PoolInv'
  OBVIOUS
<1> USE DEF serverVars, editorVars
<1>1. ASSUME NEW f \in Files, NEW c \in Contents, SaveFile(f, c) PROVE PoolInv'
  BY <1>1 DEF SaveFile, PoolInv, TypeOK, SlotsMatchScans, PoolWellFilled,
              SupersededIsPending, Running
<1>2. ASSUME NEW F \in (SUBSET Files) \ {{}}, FilesReported(F) PROVE PoolInv'
  <2>1. Affected(F) \in SUBSET Roots
    BY FilesAssumption DEF Affected
  <2>2. QueueAll(Affected(F), level) /\ level' = level /\ level \in Levels
    BY <1>2 DEF FilesReported, PoolInv, TypeOK
  <2> QED
    BY <2>1, <2>2, <1>2, QueueAllKeepsPool DEF FilesReported, PoolInv, TypeOK
<1>3. ASSUME NEW lvl \in Levels, ChangeConfiguration(lvl) PROVE PoolInv'
  <2>1. QueueAll(Roots, lvl) /\ level' = lvl
    BY <1>3 DEF ChangeConfiguration
  <2> QED
    BY <2>1, <1>3, QueueAllKeepsPool DEF ChangeConfiguration, PoolInv, TypeOK
<1>4. CASE Rescan
  <2>1. QueueAll(Roots, level) /\ level' = level /\ level \in Levels
    BY <1>4 DEF Rescan, PoolInv, TypeOK
  <2> QED
    BY <2>1, <1>4, QueueAllKeepsPool DEF Rescan, PoolInv, TypeOK
<1>5. ASSUME NEW s \in scans, ScanCompletes(s) PROVE PoolInv'
  BY <1>5, ScanCompletesKeepsPool
<1>6. ASSUME NEW s \in scans, HandleResult(s) PROVE PoolInv'
  BY <1>6, HandleResultKeepsPool
<1>7. CASE Exit
  BY <1>7 DEF Exit, PoolInv, TypeOK, SlotsMatchScans, PoolWellFilled,
              SupersededIsPending, Running
<1>8. CASE JoinAll
  BY <1>8 DEF JoinAll, PoolInv, TypeOK, SlotsMatchScans, PoolWellFilled,
              SupersededIsPending, Running
<1>9. CASE UNCHANGED vars
  BY <1>9 DEF vars, PoolInv, TypeOK, SlotsMatchScans, PoolWellFilled,
              SupersededIsPending, Running
<1> QED
  BY <1>1, <1>2, <1>3, <1>4, <1>5, <1>6, <1>7, <1>8, <1>9 DEF Next, Ended

(* The pool's invariant holds of every execution.                          *)
THEOREM PoolSafe == Spec => []PoolInv
<1> QED
  BY PoolInvInit, PoolInvNext, PTL DEF Spec

(* Type correctness, the match between slots and scans, the filling of the *)
(* pool and the fate of superseded scans, for any number of roots and any  *)
(* capacity.                                                               *)
THEOREM PoolCorrect ==
    Spec => [](TypeOK /\ SlotsMatchScans /\ PoolWellFilled /\ SupersededIsPending)
<1>1. PoolInv => TypeOK /\ SlotsMatchScans /\ PoolWellFilled /\ SupersededIsPending
  BY DEF PoolInv
<1> QED
  BY PoolSafe, <1>1, PTL

-----------------------------------------------------------------------------
(***************************************************************************)
(* Freshness.  A result of the current generation holds what its root      *)
(* would find now unless a save is unreported; a scan of an older          *)
(* generation promises nothing, and is never published.                    *)
(***************************************************************************)
ResultsAreFresh ==
    \A s \in scans :
        /\ s.gen <= generation[s.root]
        /\ s.state = "ok" /\ s.gen = generation[s.root]
             /\ unreported \intersect Under[s.root] = {}
           => s.found = Findings(s.root, disk, s.level)

FreshInv == PoolInv /\ SettledIsFresh /\ ResultsAreFresh

(* Saving a file of another root changes nothing that r would find.        *)
LEMMA FindingsLocal ==
    ASSUME NEW r \in Roots, NEW f \in Files, f \notin Under[r], NEW c, NEW lvl,
           disk \in [Files -> Contents]
    PROVE  Findings(r, [disk EXCEPT ![f] = c], lvl) = Findings(r, disk, lvl)
BY FilesAssumption DEF Findings

(* After QueueAll no root of D is settled, the other roots are as before,  *)
(* and no scan of a root of D is of the current generation and finished.   *)
LEMMA QueueAllKeepsFresh ==
    ASSUME FreshInv, NEW D \in SUBSET Roots, NEW lvl \in Levels, QueueAll(D, lvl),
           lvl # level => D = Roots, level' = lvl,
           published' = published, disk' = disk,
           \A r \in Roots \ D :
                unreported' \intersect Under[r] = unreported \intersect Under[r]
    PROVE  SettledIsFresh' /\ ResultsAreFresh'
<1> DEFINE starting == FirstFree(running, {r \in D : ~running[r]})
<1>1. starting \in SUBSET D
  BY DEF FirstFree
<1>2. /\ generation' = [r \in Roots |-> IF r \in D THEN generation[r] + 1 ELSE generation[r]]
      /\ running' = [r \in Roots |-> running[r] \/ r \in starting]
      /\ pending' = [r \in Roots |-> pending[r] \/ r \in D \ starting]
      /\ scans' = scans \union {NewScan(r, generation[r] + 1, lvl) : r \in starting}
      /\ status' = [r \in Roots |-> IF r \in starting THEN "scanning" ELSE status[r]]
  BY DEF QueueAll
<1>3. TypeOK /\ SettledIsFresh /\ ResultsAreFresh
  BY DEF FreshInv, PoolInv
<1> HIDE DEF starting
<1>4. SettledIsFresh'
  <2>1. ASSUME NEW r \in Roots, Settled(r)', (unreported \intersect Under[r])' = {}
        PROVE  published'[r] = Findings(r, disk', level')
    <3>1. r \notin D
      BY <2>1, <1>2 DEF Settled
    <3>2. Settled(r) /\ unreported \intersect Under[r] = {}
      BY <2>1, <3>1, <1>1, <1>2 DEF Settled
    <3>3. level' = level
      BY <3>1
    <3> QED
      BY <3>2, <3>3, <1>3 DEF SettledIsFresh
  <2> QED
    BY <2>1 DEF SettledIsFresh
<1>5. ResultsAreFresh'
  <2>1. ASSUME NEW s \in scans'
        PROVE  /\ s.gen <= generation'[s.root]
               /\ s.state = "ok" /\ s.gen = generation'[s.root]
                    /\ unreported' \intersect Under[s.root] = {}
                  => s.found = Findings(s.root, disk', s.level)
    <3>1. CASE s \in scans
      <4>1. /\ s.root \in Roots /\ s.gen \in Nat /\ generation[s.root] \in Nat
            /\ s.gen <= generation[s.root]
        BY <3>1, <1>3 DEF TypeOK, Scan, ResultsAreFresh
      <4>2. CASE s.root \in D
        BY <4>1, <4>2, <1>2
      <4>3. CASE s.root \notin D
        BY <4>1, <4>3, <3>1, <1>2, <1>3 DEF ResultsAreFresh
      <4> QED
        BY <4>2, <4>3
    <3>2. CASE s \notin scans
      <4>1. PICK r \in starting : s = NewScan(r, generation[r] + 1, lvl)
        BY <3>2, <1>2
      <4>2. r \in Roots /\ generation'[r] = generation[r] + 1 /\ generation[r] \in Nat
        BY <4>1, <1>1, <1>2, <1>3 DEF TypeOK
      <4>3. s.root = r /\ s.gen = generation[r] + 1 /\ s.state = "reading"
        BY <4>1 DEF NewScan
      <4> QED
        BY <4>2, <4>3
    <3> QED
      BY <3>1, <3>2
  <2> QED
    BY <2>1 DEF ResultsAreFresh
<1> QED
  BY <1>4, <1>5

(* Publishing a result, or starting over, keeps what is at rest fresh.     *)
LEMMA HandleResultKeepsFresh ==
    ASSUME FreshInv, NEW s \in scans, HandleResult(s)
    PROVE  SettledIsFresh' /\ ResultsAreFresh'
<1> DEFINE r == s.root
           starting == Relaunched(r)
           current == s.gen = generation[r]
<1>1. TypeOK /\ SettledIsFresh /\ ResultsAreFresh /\ SupersededIsPending /\ r \in Roots
  BY DEF FreshInv, PoolInv, TypeOK, Scan
<1>2. /\ running' = [q \in Roots |-> (running[q] /\ q # r) \/ q \in starting]
      /\ pending' = [q \in Roots |-> pending[q] /\ q \notin starting]
      /\ scans' = (scans \ {s}) \union {NewScan(q, generation[q], level) : q \in starting}
      /\ status' = [q \in Roots |->
             IF q \in starting THEN "scanning"
             ELSE IF q = r /\ current THEN (IF s.state = "ok" THEN "idle" ELSE "error")
             ELSE status[q]]
      /\ UNCHANGED <<phase, generation, level, disk, unreported, events>>
      /\ IF current /\ s.state = "ok"
         THEN published' = [published EXCEPT ![r] = s.found]
         ELSE published' = published
  BY DEF HandleResult
<1>3. starting \in SUBSET Roots
  BY DEF Relaunched, FirstFree
<1> HIDE DEF starting
<1>4. SettledIsFresh'
  <2>1. ASSUME NEW q \in Roots, Settled(q)', unreported \intersect Under[q] = {}
        PROVE  published'[q] = Findings(q, disk, level)
    <3>1. q \notin starting /\ ~pending[q] /\ status'[q] = "idle" /\ ~running'[q]
      BY <2>1, <1>2 DEF Settled
    <3>2. CASE q # r
      <4>1. Settled(q)
        BY <3>1, <3>2, <1>2 DEF Settled
      <4>2. published'[q] = published[q]
        BY <3>2, <1>1, <1>2 DEF TypeOK
      <4> QED
        BY <4>1, <4>2, <2>1, <1>1 DEF SettledIsFresh
    <3>3. CASE q = r
      <4>1. current /\ s.level = level
        BY <3>1, <3>3, <1>1 DEF SupersededIsPending
      <4>2. s.state = "ok"
        BY <4>1, <3>1, <3>3, <1>1, <1>2
      <4>3. published'[r] = s.found
        BY <4>1, <4>2, <1>1, <1>2 DEF TypeOK
      <4>4. s.found = Findings(r, disk, s.level)
        BY <4>1, <4>2, <3>3, <2>1, <1>1 DEF ResultsAreFresh
      <4> QED
        BY <4>1, <4>3, <4>4, <3>3
    <3> QED
      BY <3>2, <3>3
  <2> QED
    BY <2>1, <1>2 DEF SettledIsFresh
<1>5. ResultsAreFresh'
  <2>1. \A q \in Roots : /\ NewScan(q, generation[q], level).root = q
                         /\ NewScan(q, generation[q], level).gen = generation[q]
                         /\ NewScan(q, generation[q], level).state = "reading"
                         /\ generation[q] \in Nat
    BY <1>1 DEF NewScan, TypeOK
  <2>2. ASSUME NEW t \in scans'
        PROVE  /\ t.gen <= generation[t.root]
               /\ t.state = "ok" /\ t.gen = generation[t.root]
                    /\ unreported \intersect Under[t.root] = {}
                  => t.found = Findings(t.root, disk, t.level)
    <3>1. CASE t \in scans
      BY <3>1, <1>1 DEF ResultsAreFresh
    <3>2. CASE t \notin scans
      <4>1. PICK q \in starting : t = NewScan(q, generation[q], level)
        BY <3>2, <1>2
      <4> QED
        BY <4>1, <2>1, <1>3
    <3> QED
      BY <3>1, <3>2
  <2> QED
    BY <2>2, <1>2 DEF ResultsAreFresh
<1> QED
  BY <1>4, <1>5

(* Every step keeps what is at rest fresh.                                 *)
LEMMA FreshInvNext == DisjointRoots /\ FreshInv /\ [Next]_vars => FreshInv'
<1> SUFFICES ASSUME DisjointRoots, FreshInv, [Next]_vars
             PROVE  SettledIsFresh' /\ ResultsAreFresh'
  BY PoolInvNext DEF FreshInv
<1>t. TypeOK /\ SettledIsFresh /\ ResultsAreFresh
  BY DEF FreshInv, PoolInv
<1> USE DEF serverVars, editorVars
<1>1. ASSUME NEW f \in Files, NEW c \in Contents, SaveFile(f, c)
      PROVE  SettledIsFresh' /\ ResultsAreFresh'
  <2>1. /\ disk' = [disk EXCEPT ![f] = c] /\ unreported' = unreported \union {f}
        /\ UNCHANGED <<generation, running, pending, published, level, scans, status>>
        /\ disk \in [Files -> Contents]
    BY <1>1, <1>t DEF SaveFile, TypeOK
  <2>2. \A r \in Roots : unreported' \intersect Under[r] = {}
          => unreported \intersect Under[r] = {} /\ f \notin Under[r]
    BY <2>1
  <2>3. \A r \in Roots : \A lvl :
          f \notin Under[r] => Findings(r, disk', lvl) = Findings(r, disk, lvl)
    BY <2>1, FindingsLocal
  <2>4. SettledIsFresh'
    BY <2>1, <2>2, <2>3, <1>t DEF SettledIsFresh, Settled
  <2>5. \A s \in scans : s.root \in Roots
    BY <1>t DEF TypeOK, Scan
  <2>6. ResultsAreFresh'
    BY <2>1, <2>2, <2>3, <2>5, <1>t DEF ResultsAreFresh
  <2> QED
    BY <2>4, <2>6
<1>2. ASSUME NEW F \in (SUBSET Files) \ {{}}, FilesReported(F)
      PROVE  SettledIsFresh' /\ ResultsAreFresh'
  <2> DEFINE D == Affected(F)
  <2>1. D \in SUBSET Roots
    BY FilesAssumption DEF Affected
  <2>2. /\ QueueAll(D, level) /\ unreported' = unreported \ F
        /\ UNCHANGED <<published, level, disk>> /\ level \in Levels
    BY <1>2, <1>t DEF FilesReported, TypeOK
  <2>3. \A r \in Roots \ D :
            unreported' \intersect Under[r] = unreported \intersect Under[r]
    BY <2>2 DEF DisjointRoots, Affected
  <2> HIDE DEF D
  <2> QED
    BY <2>1, <2>2, <2>3, QueueAllKeepsFresh
<1>3. ASSUME NEW lvl \in Levels, ChangeConfiguration(lvl)
      PROVE  SettledIsFresh' /\ ResultsAreFresh'
  <2>1. /\ QueueAll(Roots, lvl) /\ level' = lvl
        /\ published' = published /\ disk' = disk /\ unreported' = unreported
    BY <1>3 DEF ChangeConfiguration
  <2> QED
    BY <2>1, QueueAllKeepsFresh
<1>4. CASE Rescan
  <2>1. /\ QueueAll(Roots, level) /\ level' = level /\ level \in Levels
        /\ published' = published /\ disk' = disk /\ unreported' = unreported
    BY <1>4, <1>t DEF Rescan, TypeOK
  <2> QED
    BY <2>1, QueueAllKeepsFresh
<1>5. ASSUME NEW s \in scans, ScanCompletes(s)
      PROVE  SettledIsFresh' /\ ResultsAreFresh'
  <2>1. PICK done \in {[s EXCEPT !.state = "ok", !.found = Findings(s.root, disk, s.level)],
                       [s EXCEPT !.state = "failed"]} :
             scans' = (scans \ {s}) \union {done}
    BY <1>5 DEF ScanCompletes
  <2>2. /\ UNCHANGED <<generation, running, pending, published, level, disk,
                       unreported, status>>
        /\ s \in Scan
    BY <1>5, <1>t DEF ScanCompletes, TypeOK
  <2>3. /\ done.root = s.root /\ done.gen = s.gen /\ done.level = s.level
        /\ done.state = "ok" => done.found = Findings(s.root, disk, s.level)
    BY <2>1, <2>2 DEF Scan
  <2>4. ResultsAreFresh'
    BY <2>1, <2>2, <2>3, <1>t DEF ResultsAreFresh
  <2>5. SettledIsFresh'
    BY <2>2, <1>t DEF SettledIsFresh, Settled
  <2> QED
    BY <2>4, <2>5
<1>6. ASSUME NEW s \in scans, HandleResult(s)
      PROVE  SettledIsFresh' /\ ResultsAreFresh'
  BY <1>6, HandleResultKeepsFresh
<1>7. CASE Exit
  BY <1>7, <1>t DEF Exit, SettledIsFresh, Settled, ResultsAreFresh
<1>8. CASE JoinAll
  BY <1>8, <1>t DEF JoinAll, SettledIsFresh, Settled, ResultsAreFresh
<1>9. CASE UNCHANGED vars
  BY <1>9, <1>t DEF vars, SettledIsFresh, Settled, ResultsAreFresh
<1> QED
  BY <1>1, <1>2, <1>3, <1>4, <1>5, <1>6, <1>7, <1>8, <1>9 DEF Next, Ended

(* Every root is yet to be scanned at the start.                           *)
LEMMA FreshInvInit == Init => FreshInv
<1> SUFFICES ASSUME Init PROVE SettledIsFresh /\ ResultsAreFresh
  BY PoolInvInit DEF FreshInv
<1>1. PICK S \in SUBSET Roots, twice \in SUBSET Roots :
        /\ generation = [r \in Roots |-> IF r \in twice THEN 2 ELSE 1]
        /\ status = [r \in Roots |-> IF r \in S THEN "scanning" ELSE NoStatus]
        /\ scans = {NewScan(r, 1, level) : r \in S}
  BY DEF Init
<1>2. SettledIsFresh
  BY <1>1 DEF SettledIsFresh, Settled, NoStatus
<1>3. ResultsAreFresh
  BY <1>1 DEF ResultsAreFresh, NewScan
<1> QED
  BY <1>2, <1>3

(* A settled root publishes what a scan of now would find, for every set   *)
(* of roots of which none lies in another.                                 *)
THEOREM SettledFresh ==
    ASSUME DisjointRoots
    PROVE  Spec => []SettledIsFresh
<1>1. Init => FreshInv
  BY FreshInvInit
<1>2. FreshInv /\ [Next]_vars => FreshInv'
  BY FreshInvNext
<1>3. FreshInv => SettledIsFresh
  BY DEF FreshInv
<1> QED
  BY <1>1, <1>2, <1>3, PTL DEF Spec

-----------------------------------------------------------------------------
(***************************************************************************)
(* What the editor shows.  Roots publish only files under them, so that    *)
(* clearing for one root cannot take a diagnostic of another.              *)
(***************************************************************************)
ShownInv ==
    /\ TypeOK
    /\ ShownIsPublished
    /\ \A r \in Roots : published[r] \subseteq Under[r]
    /\ \A s \in scans : s.found \subseteq Under[s.root]

(* A scan that starts has found nothing.                                   *)
LEMMA QueueAllStartsEmpty ==
    ASSUME NEW D \in SUBSET Roots, NEW lvl, QueueAll(D, lvl)
    PROVE  \A s \in scans' : s \in scans \/ s.found = {}
<1>1. \A r : NewScan(r, generation[r] + 1, lvl).found = {}
  BY DEF NewScan
<1> QED
  BY <1>1 DEF QueueAll

(* Every step keeps the editor's view.                                     *)
LEMMA ShownInvNext == DisjointRoots /\ ShownInv /\ TypeOK' /\ [Next]_vars => ShownInv'
<1> SUFFICES ASSUME DisjointRoots, ShownInv, TypeOK', [Next]_vars PROVE ShownInv'
  OBVIOUS
<1> DEFINE Held == published' = published /\ shown' = shown
<1>1. ASSUME Held, \A s \in scans' : s \in scans \/ s.found = {}
      PROVE  ShownInv'
  <2>1. ShownIsPublished' /\ \A r \in Roots : published'[r] \subseteq Under[r]
    BY <1>1 DEF ShownInv, ShownIsPublished
  <2>2. \A s \in scans' : s.found \subseteq Under[s.root]
    BY <1>1 DEF ShownInv
  <2> QED
    BY <2>1, <2>2 DEF ShownInv
<1>2. ASSUME NEW f \in Files, NEW c \in Contents, SaveFile(f, c) PROVE ShownInv'
  BY <1>1, <1>2 DEF SaveFile, serverVars, editorVars
<1>3. ASSUME NEW F \in (SUBSET Files) \ {{}}, FilesReported(F) PROVE ShownInv'
  <2>1. Affected(F) \in SUBSET Roots
    BY FilesAssumption DEF Affected
  <2> QED
    BY <2>1, <1>1, <1>3, QueueAllStartsEmpty DEF FilesReported
<1>4. ASSUME NEW lvl \in Levels, ChangeConfiguration(lvl) PROVE ShownInv'
  BY <1>1, <1>4, QueueAllStartsEmpty DEF ChangeConfiguration
<1>5. CASE Rescan
  BY <1>1, <1>5, QueueAllStartsEmpty DEF Rescan
<1>6. ASSUME NEW s \in scans, ScanCompletes(s) PROVE ShownInv'
  <2>1. PICK done \in {[s EXCEPT !.state = "ok", !.found = Findings(s.root, disk, s.level)],
                       [s EXCEPT !.state = "failed"]} :
             scans' = (scans \ {s}) \union {done}
    BY <1>6 DEF ScanCompletes
  <2>2. s \in Scan /\ s.found \subseteq Under[s.root] /\ published' = published /\ shown' = shown
    BY <1>6 DEF ShownInv, TypeOK, ScanCompletes, editorVars
  <2>3. done.root = s.root /\ done.found \subseteq Under[s.root]
    BY <2>1, <2>2 DEF Scan, Findings
  <2>4. \A t \in scans' : t.found \subseteq Under[t.root]
    BY <2>1, <2>2, <2>3 DEF ShownInv
  <2> QED
    BY <2>2, <2>4 DEF ShownInv, ShownIsPublished
<1>7. ASSUME NEW s \in scans, HandleResult(s) PROVE ShownInv'
  <2> DEFINE r == s.root
  <2>1. /\ r \in Roots /\ s.found \subseteq Under[r] /\ s.found \subseteq Files
        /\ published \in [Roots -> SUBSET Files]
        /\ shown = UNION {published[q] : q \in Roots}
        /\ \A q \in Roots : published[q] \subseteq Under[q]
    BY DEF ShownInv, TypeOK, Scan, ShownIsPublished
  <2>2. \A t \in scans' : t \in scans \/ t.found = {}
    BY <1>7 DEF HandleResult, NewScan
  <2>3. CASE ~(s.gen = generation[r] /\ s.state = "ok")
    BY <2>2, <2>3, <1>1, <1>7 DEF HandleResult
  <2>4. CASE s.gen = generation[r] /\ s.state = "ok"
    <3>1. /\ published' = [published EXCEPT ![r] = s.found]
          /\ shown' = (shown \ (published[r] \ s.found)) \union s.found
      BY <2>4, <1>7 DEF HandleResult, Republished
    <3>2. \A q \in Roots : q # r => published'[q] = published[q]
                                    /\ published[q] \intersect published[r] = {}
                                    /\ published[q] \intersect s.found = {}
      BY <2>1, <3>1 DEF DisjointRoots
    <3>3. published'[r] = s.found
      BY <2>1, <3>1
    <3>4. ShownIsPublished'
      <4>1. \A f : f \in shown' <=> \E q \in Roots : f \in published'[q]
        BY <2>1, <3>1, <3>2, <3>3
      <4> QED
        BY <4>1 DEF ShownIsPublished
    <3>5. \A q \in Roots : published'[q] \subseteq Under[q]
      BY <2>1, <3>2, <3>3
    <3> QED
      BY <2>2, <3>4, <3>5 DEF ShownInv
  <2> QED
    BY <2>3, <2>4
<1>8. CASE Exit
  BY <1>1, <1>8 DEF Exit, serverVars, editorVars
<1>9. CASE JoinAll
  BY <1>1, <1>9 DEF JoinAll, serverVars, editorVars
<1>10. CASE UNCHANGED vars
  BY <1>1, <1>10 DEF vars, serverVars, editorVars
<1> QED
  BY <1>2, <1>3, <1>4, <1>5, <1>6, <1>7, <1>8, <1>9, <1>10 DEF Next, Ended

(* The editor shows exactly what the roots have published, for every set   *)
(* of roots of which none lies in another.                                 *)
THEOREM EditorAgrees ==
    ASSUME DisjointRoots
    PROVE  Spec => []ShownIsPublished
<1>1. Init => ShownInv
  <2> SUFFICES ASSUME Init PROVE ShownInv
    OBVIOUS
  <2>1. TypeOK
    BY PoolInvInit DEF PoolInv
  <2>2. \A s \in scans : s.found = {}
    BY DEF Init, NewScan
  <2> QED
    BY <2>1, <2>2 DEF Init, ShownInv, ShownIsPublished
<1>2. PoolInv' => TypeOK'
  BY DEF PoolInv
<1>3. ShownInv => ShownIsPublished
  BY DEF ShownInv
<1> QED
  BY <1>1, <1>2, <1>3, PoolSafe, ShownInvNext, PTL DEF Spec

-----------------------------------------------------------------------------
(***************************************************************************)
(* The scheduler implements the abstract pool.                             *)
(***************************************************************************)
jobs == [r \in Roots |-> JobOf(r)]

(* The mapping tells which roots are busy and which are queued.            *)
LEMMA JobsTyped ==
    /\ jobs \in [Roots -> Pool!JobState]
    /\ Pool!Busy(jobs) = Running(running)
    /\ \A r \in Roots : jobs[r] = "queued" <=> pending[r] /\ ~running[r]
BY DEF jobs, JobOf, Pool!JobState, Pool!Busy, Running

(* The abstract pool counts as the detailed one does.                      *)
LEMMA SameCardinality == \A S : Pool!Cardinality(S) = Cardinality(S)
BY DEF Pool!Cardinality, Cardinality

(* The pool is well filled under the mapping.                              *)
LEMMA JobsWellFilled == PoolInv => Pool!WellFilled(jobs)
<1> SUFFICES ASSUME PoolInv PROVE Pool!WellFilled(jobs)
  OBVIOUS
<1>1. \A r \in Pool!Queued(jobs) : r \in Roots /\ pending[r] /\ ~running[r]
  BY JobsTyped DEF Pool!Queued
<1>2. Cardinality(Running(running)) <= MaxScans
  BY DEF PoolInv, PoolWellFilled
<1>3. Pool!Queued(jobs) # {} => Cardinality(Running(running)) = MaxScans
  BY <1>1 DEF PoolInv, PoolWellFilled
<1>4. Pool!Busy(jobs) = Running(running)
  BY JobsTyped
<1> QED
  BY <1>2, <1>3, <1>4, SameCardinality DEF Pool!WellFilled

(* The same of the next state.                                             *)
LEMMA JobsWellFilledNext == PoolInv' => Pool!WellFilled(jobs')
<1> SUFFICES ASSUME PoolInv' PROVE Pool!WellFilled(jobs')
  OBVIOUS
<1>1. /\ jobs' \in [Roots -> Pool!JobState]
      /\ Pool!Busy(jobs') = Running(running')
      /\ \A r \in Roots : jobs'[r] = "queued" <=> pending'[r] /\ ~running'[r]
  BY DEF jobs, JobOf, Pool!JobState, Pool!Busy, Running
<1>2. \A r \in Pool!Queued(jobs') : r \in Roots /\ pending'[r] /\ ~running'[r]
  BY <1>1 DEF Pool!Queued
<1>3. Cardinality(Running(running')) <= MaxScans
  BY DEF PoolInv, PoolWellFilled
<1>4. Pool!Queued(jobs') # {} => Cardinality(Running(running')) = MaxScans
  BY <1>2 DEF PoolInv, PoolWellFilled
<1> QED
  BY <1>1, <1>3, <1>4, SameCardinality DEF Pool!WellFilled

(* Queueing a set of roots is a request of the pool.                       *)
LEMMA QueueAllIsRequest ==
    ASSUME PoolInv, PoolInv', NEW D \in SUBSET Roots, NEW lvl, QueueAll(D, lvl),
           phase = "serving", phase' = phase
    PROVE  Pool!Request(D)
<1> DEFINE starting == FirstFree(running, {r \in D : ~running[r]})
<1>1. /\ running' = [r \in Roots |-> running[r] \/ r \in starting]
      /\ pending' = [r \in Roots |-> pending[r] \/ r \in D \ starting]
      /\ \A r \in starting : r \in D /\ ~running[r]
  BY DEF QueueAll, FirstFree
<1>2. \A r \in starting : ~pending[r]
  (* a root that waits shows the pool is full, and then nothing starts     *)
  <2>1. ASSUME NEW r \in starting, pending[r] PROVE FALSE
    <3>1. Cardinality(Running(running)) = MaxScans
      BY <1>1, <2>1 DEF PoolInv, PoolWellFilled
    <3>2. {q \in {p \in D : ~running[p]} : Rank[q] < Rank[r]} \in SUBSET Roots
      OBVIOUS
    <3>3. Cardinality({q \in {p \in D : ~running[p]} : Rank[q] < Rank[r]}) \in Nat
      BY <3>2, RootSets
    <3> QED
      BY <2>1, <3>1, <3>3, MaxScansAssumption DEF FirstFree
  <2> QED
    BY <2>1
<1> HIDE DEF starting
<1>3. /\ running \in [Roots -> BOOLEAN] /\ pending \in [Roots -> BOOLEAN]
  BY DEF PoolInv, TypeOK
<1>4. jobs' \in [Roots -> Pool!JobState]
  BY DEF jobs, JobOf, Pool!JobState
<1>5. \A r \in Roots \ D : jobs'[r] = jobs[r]
  BY <1>1, <1>3 DEF jobs, JobOf
<1>6. \A r \in D :
        \/ jobs[r] = "idle" /\ jobs'[r] \in {"queued", "running"}
        \/ jobs[r] = "queued" /\ jobs'[r] = "queued"
        \/ jobs[r] \in {"running", "rerun"} /\ jobs'[r] = "rerun"
  BY <1>1, <1>2, <1>3 DEF jobs, JobOf
<1> QED
  BY <1>4, <1>5, <1>6, JobsWellFilledNext DEF Pool!Request, jobs

(* Handling a result is the end of a job of the pool.                      *)
LEMMA HandleResultIsFinish ==
    ASSUME PoolInv, PoolInv', NEW s \in scans, HandleResult(s)
    PROVE  Pool!Finish(s.root)
<1> DEFINE r == s.root
           starting == Relaunched(r)
<1>1. /\ running' = [q \in Roots |-> (running[q] /\ q # r) \/ q \in starting]
      /\ pending' = [q \in Roots |-> pending[q] /\ q \notin starting]
      /\ phase = "serving" /\ phase' = phase
  BY DEF HandleResult
<1>2. /\ running \in [Roots -> BOOLEAN] /\ pending \in [Roots -> BOOLEAN]
      /\ r \in Roots /\ running[r]
  BY DEF PoolInv, TypeOK, SlotsMatchScans, Scan
<1>3. \A q \in starting : q \in Roots /\ pending[q] /\ (~running[q] \/ q = r)
  BY <1>2 DEF Relaunched, FirstFree
<1> HIDE DEF starting
<1>4. jobs' \in [Roots -> Pool!JobState]
  BY DEF jobs, JobOf, Pool!JobState
<1>5. r \in Pool!Busy(jobs)
  BY <1>2, JobsTyped DEF Running
<1>6. IF jobs[r] = "running" THEN jobs'[r] = "idle" ELSE jobs'[r] \in {"queued", "running"}
  BY <1>1, <1>2, <1>3 DEF jobs, JobOf
<1>7. \A q \in Roots \ {r} : jobs'[q] # jobs[q] => jobs[q] = "queued" /\ jobs'[q] = "running"
  BY <1>1, <1>2, <1>3 DEF jobs, JobOf
<1> QED
  BY <1>1, <1>4, <1>5, <1>6, <1>7, JobsWellFilledNext DEF Pool!Finish, jobs

(* Every step is a step of the pool or stutters.                           *)
LEMMA StepImplementsPool ==
    PoolInv /\ PoolInv' /\ [Next]_vars => [Pool!PoolNext]_Pool!poolVars
<1> SUFFICES ASSUME PoolInv, PoolInv', [Next]_vars
             PROVE  [Pool!PoolNext]_Pool!poolVars
  OBVIOUS
<1> DEFINE Still == running' = running /\ pending' = pending
<1>1. ASSUME Still, phase' = phase \/ (phase = "serving" /\ phase' = "joining")
                    \/ (phase = "joining" /\ phase' = "ended")
      PROVE  [Pool!PoolNext]_Pool!poolVars
  <2>1. [r \in Roots |-> JobOf(r)]' = [r \in Roots |-> JobOf(r)]
    BY <1>1 DEF JobOf
  <2> QED
    BY <1>1, <2>1 DEF Pool!PoolNext, Pool!Close, Pool!poolVars
<1>2. ASSUME NEW D \in SUBSET Roots, NEW lvl, QueueAll(D, lvl),
             phase = "serving", phase' = phase
      PROVE  [Pool!PoolNext]_Pool!poolVars
  BY <1>2, QueueAllIsRequest DEF Pool!PoolNext
<1>3. ASSUME NEW f \in Files, NEW c \in Contents, SaveFile(f, c)
      PROVE  [Pool!PoolNext]_Pool!poolVars
  BY <1>1, <1>3 DEF SaveFile, serverVars
<1>4. ASSUME NEW F \in (SUBSET Files) \ {{}}, FilesReported(F)
      PROVE  [Pool!PoolNext]_Pool!poolVars
  <2>1. Affected(F) \in SUBSET Roots
    BY FilesAssumption DEF Affected
  <2> QED
    BY <2>1, <1>2, <1>4 DEF FilesReported
<1>5. ASSUME NEW lvl \in Levels, ChangeConfiguration(lvl)
      PROVE  [Pool!PoolNext]_Pool!poolVars
  BY <1>2, <1>5 DEF ChangeConfiguration
<1>6. CASE Rescan
  BY <1>2, <1>6 DEF Rescan
<1>7. ASSUME NEW s \in scans, ScanCompletes(s)
      PROVE  [Pool!PoolNext]_Pool!poolVars
  BY <1>1, <1>7 DEF ScanCompletes
<1>8. ASSUME NEW s \in scans, HandleResult(s)
      PROVE  [Pool!PoolNext]_Pool!poolVars
  <2>1. s.root \in Roots
    BY DEF PoolInv, TypeOK, Scan
  <2> QED
    BY <2>1, <1>8, HandleResultIsFinish DEF Pool!PoolNext
<1>9. CASE Exit
  BY <1>1, <1>9 DEF Exit, serverVars
<1>10. CASE JoinAll
  BY <1>1, <1>10 DEF JoinAll, serverVars
<1>11. CASE UNCHANGED vars
  BY <1>1, <1>11 DEF vars, serverVars
<1> QED
  BY <1>3, <1>4, <1>5, <1>6, <1>7, <1>8, <1>9, <1>10, <1>11 DEF Next, Ended

(* The scheduler is the abstract pool: every handler of the loop is one    *)
(* batch of requests or one finished scan of it, for any roots and any     *)
(* capacity.                                                               *)
THEOREM SchedulerImplementsPool == Spec => ImplementsPool
<1>1. Init => Pool!PoolInit
  <2> SUFFICES ASSUME Init PROVE Pool!PoolInit
    OBVIOUS
  <2>1. \A r \in Roots : running[r] \/ pending[r]
    BY DEF Init
  <2>2. jobs \in [Roots -> Pool!JobState \ {"idle"}]
    BY <2>1 DEF jobs, JobOf, Pool!JobState
  <2>3. Pool!WellFilled(jobs)
    BY PoolInvInit, JobsWellFilled
  <2>4. (phase = "serving") = TRUE
    BY DEF Init
  <2> QED
    BY <2>2, <2>3, <2>4 DEF Pool!PoolInit, jobs
<1> QED
  BY <1>1, StepImplementsPool, PoolSafe, PTL DEF Spec, ImplementsPool, Pool!PoolSpec

=============================================================================
