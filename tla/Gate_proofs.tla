---------------------------- MODULE Gate_proofs ----------------------------
(***************************************************************************)
(* What the end-of-turn gate promises for any sessions, branches, findings *)
(* and limits: it holds nothing back that was not shown, does not block    *)
(* twice for unchanged work, and nags a bounded number of times.           *)
(***************************************************************************)
EXTENDS Gate, TLAPS

Repeats == [counts : [Keys -> Nat], until : [Keys -> Int], expired : SUBSET Keys]
ScopeState == [updated : 0 .. MaxClock, blocked : SUBSET Findings, resolved : SUBSET Findings,
               repeats : [Branches -> Repeats]]
Apart(st) == st.blocked \cap st.resolved = {}
Calls == [pc : {"idle", "scanned", "read", "decided"}, report : SUBSET Keys, branch : Branches,
          now : 0 .. MaxClock, copy : [Scopes -> ScopeState],
          shown : SUBSET Keys, regressed : SUBSET Findings]
TypeInv ==
    /\ TypeOK
    /\ state \in [Scopes -> ScopeState] /\ call \in [Scopes -> Calls]
    /\ told \in [Scopes -> SUBSET Findings] /\ standing \in [Scopes -> SUBSET Findings]
    /\ blocks \in [Scopes -> [Branches -> [Keys -> Nat]]]
    /\ \A s \in Scopes :
        /\ call[s].shown \subseteq call[s].report
        /\ call[s].pc # "decided" => call[s].shown = {}
        /\ call[s].pc = "read" => call[s].now \in 1 .. MaxClock
        /\ \A q \in Scopes : Apart(call[s].copy[q])

-----------------------------------------------------------------------------
(* The triage, as a function of the scope, the report and the time.        *)

(* The identities of repeat keys are findings.                             *)
LEMMA IdsOfKeys == ASSUME NEW keys \in SUBSET Keys PROVE Ids(keys) \in SUBSET Findings
BY DEF Ids, Keys

(* A scope that was never used blocks nothing.                             *)
LEMMA FreshIsScope == FreshScope \in ScopeState /\ Apart(FreshScope) /\ FreshScope.blocked = {}
<1>1. FreshRepeats \in Repeats
  BY DEF FreshRepeats, Repeats, None
<1>2. 0 \in 0 .. MaxClock
  BY ConstantsAssumption
<1> QED
  BY <1>1, <1>2 DEF FreshScope, ScopeState, Apart

(* A session that is not calling has shown nothing.                        *)
LEMMA IdleIsCall ==
    ASSUME Branches # {}
    PROVE  Idle \in Calls /\ Idle.pc = "idle" /\ Idle.shown = {}
           /\ \A q \in Scopes : Idle.copy[q] = FreshScope /\ Apart(Idle.copy[q])
<1>1. (CHOOSE b \in Branches : TRUE) \in Branches
  OBVIOUS
<1>2. 0 \in 0 .. MaxClock /\ [q \in Scopes |-> FreshScope] \in [Scopes -> ScopeState]
  BY ConstantsAssumption, FreshIsScope
<1> QED
  BY <1>1, <1>2, FreshIsScope DEF Idle, Calls

(* What retain_allowed does to the counters of one repeat key.             *)
LEMMA RetainAllowedKeys ==
    ASSUME NEW r \in Repeats, NEW keys \in SUBSET Keys, NEW now \in 1 .. MaxClock
    PROVE  LET t == RetainAllowed(r, keys, now) IN
           /\ t.allowed \in SUBSET keys /\ t.repeats \in Repeats
           /\ \A k \in Keys :
                \/ /\ k \notin t.allowed
                   /\ t.repeats.counts[k] = r.counts[k]
                   /\ k \in t.repeats.expired <=> k \in r.expired
                   /\ \/ t.repeats.until[k] = r.until[k]
                      \/ /\ r.counts[k] >= Limit
                         /\ IF k \in r.expired THEN t.repeats.until[k] = Forever
                            ELSE t.repeats.until[k] \in Nat \ {0}
                \/ /\ k \in t.allowed /\ r.until[k] = None /\ r.counts[k] < Limit
                   /\ t.repeats.counts[k] = r.counts[k] + 1
                   /\ t.repeats.until[k] = r.until[k]
                   /\ k \in t.repeats.expired <=> k \in r.expired
                \/ /\ k \in t.allowed /\ r.until[k] > None
                   /\ t.repeats.counts[k] = 1
                   /\ t.repeats.until[k] = None
                   /\ k \in t.repeats.expired
<1> DEFINE t == RetainAllowed(r, keys, now)
           expiring == {k \in keys : Expires(r, k, now)}
           repeated == {k \in keys : r.until[k] = None /\ r.counts[k] >= Limit}
           held == {k \in keys \ expiring : r.until[k] # None}
           allowed == keys \ (repeated \cup held)
           counts == [k \in Keys |-> IF k \in expiring THEN 1
                                     ELSE IF k \in allowed THEN r.counts[k] + 1 ELSE r.counts[k]]
           until == [k \in Keys |-> IF k \in expiring THEN None
                                    ELSE IF k \notin repeated THEN r.until[k]
                                    ELSE IF k \in r.expired THEN Forever ELSE now + DeferExpiry]
<1>1. /\ t.allowed = allowed /\ t.repeats.counts = counts /\ t.repeats.until = until
      /\ t.repeats.expired = r.expired \cup expiring
      /\ t.repeats = [counts |-> counts, until |-> until, expired |-> r.expired \cup expiring]
  BY DEF RetainAllowed
<1>2. /\ r.counts \in [Keys -> Nat] /\ r.until \in [Keys -> Int] /\ r.expired \in SUBSET Keys
      /\ now \in Nat \ {0} /\ Limit \in Nat /\ DeferExpiry \in Nat \ {0}
  BY ConstantsAssumption DEF Repeats
<1>3. expiring \in SUBSET keys /\ repeated \in SUBSET keys /\ held \in SUBSET keys
      /\ \A k \in expiring : r.until[k] > None
  BY DEF Expires
<1>4. counts \in [Keys -> Nat]
  BY <1>2
<1>5. until \in [Keys -> Int]
  BY <1>2 DEF None, Forever
<1>6. t.allowed \in SUBSET keys /\ t.repeats \in Repeats
  BY <1>1, <1>2, <1>3, <1>4, <1>5 DEF Repeats
<1>7. ASSUME NEW k \in Keys
      PROVE  \/ /\ k \notin t.allowed
                /\ t.repeats.counts[k] = r.counts[k]
                /\ k \in t.repeats.expired <=> k \in r.expired
                /\ \/ t.repeats.until[k] = r.until[k]
                   \/ /\ r.counts[k] >= Limit
                      /\ IF k \in r.expired THEN t.repeats.until[k] = Forever
                         ELSE t.repeats.until[k] \in Nat \ {0}
             \/ /\ k \in t.allowed /\ r.until[k] = None /\ r.counts[k] < Limit
                /\ t.repeats.counts[k] = r.counts[k] + 1
                /\ t.repeats.until[k] = r.until[k]
                /\ k \in t.repeats.expired <=> k \in r.expired
             \/ /\ k \in t.allowed /\ r.until[k] > None
                /\ t.repeats.counts[k] = 1
                /\ t.repeats.until[k] = None
                /\ k \in t.repeats.expired
  <2>1. r.counts[k] \in Nat /\ r.until[k] \in Int
    BY <1>2
  <2>2. t.repeats.counts[k] = counts[k] /\ t.repeats.until[k] = until[k]
    BY <1>1
  <2>3. CASE k \in expiring
    <3>1. k \in allowed /\ counts[k] = 1 /\ until[k] = None
      BY <1>3, <2>3 DEF None
    <3> QED
      BY <1>1, <1>3, <2>2, <2>3, <3>1
  <2>4. CASE k \in allowed \ expiring
    <3>1. counts[k] = r.counts[k] + 1 /\ until[k] = r.until[k]
          /\ r.until[k] = None /\ r.counts[k] < Limit
      BY <1>2, <2>1, <2>4
    <3> QED
      BY <1>1, <2>2, <2>4, <3>1
  <2>5. CASE k \notin allowed \cup expiring
    <3>1. counts[k] = r.counts[k]
      BY <2>5
    <3>2. until[k] = r.until[k] \/
            (r.counts[k] >= Limit /\ IF k \in r.expired THEN until[k] = Forever ELSE until[k] \in Nat \ {0})
      BY <1>2, <2>1, <2>5
    <3> QED
      BY <1>1, <2>2, <2>5, <3>1, <3>2
  <2> QED
    BY <2>3, <2>4, <2>5
<1> QED
  BY <1>6, <1>7

Unseen(st, report) == {k \in report : k[1] \notin st.blocked}

(* What triage makes of a scope, and shows of a report.                    *)
LEMMA TriageProperties ==
    ASSUME NEW st \in ScopeState, NEW report \in SUBSET Keys, NEW branch \in Branches,
           NEW now \in 1 .. MaxClock
    PROVE  LET t == Triage(st, report, branch, now)
               r == RetainAllowed(st.repeats[branch], Unseen(st, report), now) IN
           /\ t.scope \in ScopeState /\ Apart(t.scope)
           /\ t.shown \in SUBSET report /\ t.regressed \in SUBSET Findings
           /\ t.scope.blocked = (st.blocked \cap Ids(report)) \cup Ids(t.shown)
           /\ Ids(t.shown) \cap st.blocked = {}
           /\ t.shown = r.allowed
           /\ t.scope.repeats = [st.repeats EXCEPT ![branch] = r.repeats]
           /\ t.scope.updated = st.updated
<1> DEFINE t == Triage(st, report, branch, now)
           unseen == Unseen(st, report)
           r == RetainAllowed(st.repeats[branch], unseen, now)
           recalled == Recall(st, Ids(report))
           scope == recalled.scope
<1>1. /\ st.blocked \in SUBSET Findings /\ st.resolved \in SUBSET Findings
      /\ st.repeats \in [Branches -> Repeats]
  BY DEF ScopeState
<1>2. /\ scope \in ScopeState /\ scope.blocked = st.blocked \cap Ids(report)
      /\ scope.resolved = (st.resolved \cup (st.blocked \ Ids(report))) \ Ids(report)
      /\ scope.repeats = st.repeats /\ scope.updated = st.updated
      /\ recalled.back \in SUBSET Findings
  BY <1>1 DEF Recall, ScopeState
<1>3. unseen = {k \in report : k[1] \notin scope.blocked} /\ unseen \in SUBSET report
  BY <1>2 DEF Unseen, Ids
<1>4. r.allowed \in SUBSET unseen /\ r.repeats \in Repeats
  <2>1. unseen \in SUBSET Keys /\ st.repeats[branch] \in Repeats
    BY <1>1, <1>3
  <2> HIDE DEF unseen
  <2> QED
    BY <2>1, RetainAllowedKeys
<1>5. Ids(r.allowed) \in SUBSET Ids(report) /\ Ids(r.allowed) \in SUBSET Findings
      /\ Ids(r.allowed) \cap st.blocked = {}
  BY <1>4 DEF Unseen, Ids, Keys
<1> HIDE DEF recalled, unseen, r
<1>6. /\ t.shown = r.allowed
      /\ t.regressed = recalled.back \cap Ids(r.allowed)
      /\ t.scope = [scope EXCEPT !.blocked = @ \cup Ids(r.allowed), !.repeats[branch] = r.repeats]
  BY <1>2, <1>3 DEF Triage, recalled, r
<1>7. /\ t.scope.blocked = scope.blocked \cup Ids(r.allowed)
      /\ t.scope.resolved = scope.resolved /\ t.scope.updated = scope.updated
      /\ t.scope.repeats = [scope.repeats EXCEPT ![branch] = r.repeats]
  BY <1>2, <1>6 DEF ScopeState
<1>8. t.scope \in ScopeState
  <2> DEFINE newBlocked == scope.blocked \cup Ids(r.allowed)
             newRepeats == [scope.repeats EXCEPT ![branch] = r.repeats]
  <2>1. newBlocked \in SUBSET Findings /\ newRepeats \in [Branches -> Repeats]
    BY <1>1, <1>2, <1>4, <1>5
  <2>2. t.scope = [scope EXCEPT !.blocked = newBlocked, !.repeats = newRepeats]
    BY <1>2, <1>6 DEF ScopeState
  <2> HIDE DEF newBlocked, newRepeats
  <2> QED
    BY <1>2, <2>1, <2>2 DEF ScopeState
<1> HIDE DEF t
<1>9. Apart(t.scope)
  BY <1>2, <1>5, <1>7 DEF Apart
<1>10. t.shown \in SUBSET report /\ t.regressed \in SUBSET Findings
  BY <1>2, <1>3, <1>4, <1>6
<1> QED
  BY <1>2, <1>5, <1>6, <1>7, <1>8, <1>9, <1>10 DEF t, r, unseen

-----------------------------------------------------------------------------
(* What applying a triage changes: the caller's scope and call, and what is *)
(* remembered of sessions whose scope is outdated.                         *)

(* A scope is kept as it is, or forgotten when its TTL is over.            *)
LEMMA RetainProperties ==
    ASSUME NEW from \in [Scopes -> ScopeState], NEW now \in 0 .. MaxClock,
           \A q \in Scopes : Apart(from[q])
    PROVE  /\ Retain(from, now) \in [Scopes -> ScopeState]
           /\ \A q \in Scopes : /\ Retain(from, now)[q] \in {from[q], FreshScope}
                                 /\ Apart(Retain(from, now)[q])
BY FreshIsScope DEF Retain

Applied(s, from, now, branch) == Triage(Retain(from, now)[s], call[s].report, branch, now)
Outdated(from, now) == {q \in Scopes : Retain(from, now)[q] # from[q]}

Applies(s, from, now, branch) ==
    LET t == Applied(s, from, now, branch) IN
        /\ state' \in [Scopes -> ScopeState] /\ call' \in [Scopes -> Calls]
        /\ \A q \in Scopes : Apart(state'[q])
        /\ \A q \in Scopes : q # s => state'[q] = Retain(from, now)[q] /\ call'[q] = call[q]
        /\ state'[s] = [t.scope EXCEPT !.updated = now]
        /\ call'[s] = [Idle EXCEPT !.pc = "decided", !.report = call[s].report,
                                   !.shown = t.shown, !.regressed = t.regressed]
        /\ t.shown \in SUBSET call[s].report
        /\ blocks' \in [Scopes -> [Branches -> [Keys -> Nat]]]
        /\ \A q \in Scopes, b \in Branches, k \in Keys :
             blocks'[q][b][k] =
                 (IF q \in Outdated(from, now) THEN 0 ELSE blocks[q][b][k])
                   + (IF q = s /\ b = branch /\ k \in t.shown THEN 1 ELSE 0)
        /\ standing' \in [Scopes -> SUBSET Findings]
        /\ \A q \in Scopes :
             standing'[q] = (IF q \in Outdated(from, now) THEN {} ELSE standing[q])
                              \cup (IF q = s THEN Ids(t.shown) ELSE {})

(* Applying a triage is as summed up above.                                *)
LEMMA ApplyProperties ==
    ASSUME TypeInv, NEW s \in Scopes, NEW from \in [Scopes -> ScopeState],
           NEW now \in 1 .. MaxClock, NEW branch \in Branches,
           \A q \in Scopes : Apart(from[q]), Apply(s, from, now, branch)
    PROVE  Applies(s, from, now, branch)
<1> DEFINE all == Retain(from, now)
           t == Applied(s, from, now, branch)
<1>1. now \in 0 .. MaxClock
  OBVIOUS
<1>2. all \in [Scopes -> ScopeState] /\ \A q \in Scopes : Apart(all[q])
  BY <1>1, RetainProperties
<1>3. call[s].report \in SUBSET Keys /\ call \in [Scopes -> Calls]
  BY DEF TypeInv, Calls
<1>4. /\ t.scope \in ScopeState /\ Apart(t.scope)
      /\ t.shown \in SUBSET call[s].report /\ t.regressed \in SUBSET Findings
  BY <1>2, <1>3, TriageProperties DEF Applied
<1>5. /\ state' = [all EXCEPT ![s] = [t.scope EXCEPT !.updated = now]]
      /\ call' = [call EXCEPT ![s] =
              [Idle EXCEPT !.pc = "decided", !.report = call[s].report,
                           !.shown = t.shown, !.regressed = t.regressed]]
      /\ blocks' = [q \in Scopes |-> [b \in Branches |-> [k \in Keys |->
              (IF q \in Outdated(from, now) THEN 0 ELSE blocks[q][b][k])
                + (IF q = s /\ b = branch /\ k \in t.shown THEN 1 ELSE 0)]]]
      /\ standing' = [q \in Scopes |->
              (IF q \in Outdated(from, now) THEN {} ELSE standing[q])
                \cup (IF q = s THEN Ids(t.shown) ELSE {})]
  BY DEF Apply, Applied, Outdated
<1> HIDE DEF all, t
<1>6. [t.scope EXCEPT !.updated = now] \in ScopeState /\ Apart([t.scope EXCEPT !.updated = now])
  BY <1>1, <1>4 DEF ScopeState, Apart
<1>7. Idle \in Calls
  BY IdleIsCall DEF TypeInv, TypeOK
<1>8. [Idle EXCEPT !.pc = "decided", !.report = call[s].report,
                   !.shown = t.shown, !.regressed = t.regressed] \in Calls
  BY <1>3, <1>4, <1>7 DEF Calls
<1>9. call' \in [Scopes -> Calls] /\ state' \in [Scopes -> ScopeState]
  BY <1>2, <1>3, <1>5, <1>6, <1>8
<1>10. \A q \in Scopes : q # s => state'[q] = all[q] /\ call'[q] = call[q]
  BY <1>2, <1>3, <1>5
<1>11. /\ state'[s] = [t.scope EXCEPT !.updated = now]
       /\ call'[s] = [Idle EXCEPT !.pc = "decided", !.report = call[s].report,
                                  !.shown = t.shown, !.regressed = t.regressed]
  BY <1>2, <1>3, <1>5
<1>12. \A q \in Scopes : Apart(state'[q])
  BY <1>2, <1>6, <1>10, <1>11
<1>13. standing' \in [Scopes -> SUBSET Findings]
  <2>1. Ids(t.shown) \in SUBSET Findings
    BY <1>3, <1>4, IdsOfKeys
  <2>2. \A q \in Scopes : standing[q] \in SUBSET Findings
    BY DEF TypeInv
  <2> QED
    BY <1>5, <2>1, <2>2
<1>14. blocks' \in [Scopes -> [Branches -> [Keys -> Nat]]]
  <2>1. \A q \in Scopes, b \in Branches, k \in Keys : blocks[q][b][k] \in Nat
    BY DEF TypeInv
  <2> QED
    BY <1>5, <2>1
<1>15. \A q \in Scopes, b \in Branches, k \in Keys :
          blocks'[q][b][k] = (IF q \in Outdated(from, now) THEN 0 ELSE blocks[q][b][k])
                               + (IF q = s /\ b = branch /\ k \in t.shown THEN 1 ELSE 0)
  BY <1>5
<1>16. \A q \in Scopes :
          standing'[q] = (IF q \in Outdated(from, now) THEN {} ELSE standing[q])
                           \cup (IF q = s THEN Ids(t.shown) ELSE {})
  BY <1>5
<1> QED
  BY <1>4, <1>9, <1>10, <1>11, <1>12, <1>13, <1>14, <1>15, <1>16 DEF Applies, all, t

-----------------------------------------------------------------------------
(* Types.                                                                  *)

(* At the start state.json is empty and no session is calling.             *)
LEMMA TypeInit == Init => TypeInv
<1> SUFFICES ASSUME Init PROVE TypeInv
  OBVIOUS
<1> USE DEF Init
<1>1. Branches # {}
  OBVIOUS
<1>2. /\ state \in [Scopes -> ScopeState] /\ call \in [Scopes -> Calls]
      /\ \A s \in Scopes : state[s] = FreshScope /\ call[s] = Idle
  BY <1>1, FreshIsScope, IdleIsCall
<1>3. TypeOK
  <2>1. 0 \in 0 .. MaxClock /\ 1 \in 1 .. MaxClock /\ 0 \in 0 .. MaxEdits /\ 0 \in 0 .. MaxFailures
    BY ConstantsAssumption
  <2>2. \A s \in Scopes : /\ state[s].updated \in 0 .. MaxClock
                          /\ state[s].blocked \in SUBSET Findings /\ state[s].resolved \in SUBSET Findings
                          /\ state[s].blocked \cap state[s].resolved = {}
                          /\ call[s].report \in SUBSET Keys /\ call[s].shown \in SUBSET call[s].report
    BY <1>1, <1>2, <2>1, IdleIsCall DEF FreshScope, Calls
  <2> QED
    BY <2>1, <2>2 DEF TypeOK
<1>4. told \in [Scopes -> SUBSET Findings] /\ standing \in [Scopes -> SUBSET Findings]
  OBVIOUS
<1>5. blocks \in [Scopes -> [Branches -> [Keys -> Nat]]]
  OBVIOUS
<1>6. \A s \in Scopes :
        /\ call[s].shown \subseteq call[s].report
        /\ call[s].pc # "decided" => call[s].shown = {}
        /\ call[s].pc = "read" => call[s].now \in 1 .. MaxClock
        /\ \A q \in Scopes : Apart(call[s].copy[q])
  BY <1>1, <1>2, IdleIsCall
<1> QED
  BY <1>2, <1>3, <1>4, <1>5, <1>6 DEF TypeInv

(* A step that leaves state.json and the calls alone.                      *)
LEMMA TypeOfRest ==
    ASSUME TypeInv, UNCHANGED <<state, call, told, blocks>>,
           place' \in [Branches -> [Findings -> Lines \cup {0}]], changed' \in SUBSET Findings,
           head' \in Branches, clock' \in 1 .. MaxClock, edits' \in 0 .. MaxEdits,
           failures' \in 0 .. MaxFailures, standing' \in [Scopes -> SUBSET Findings]
    PROVE  TypeInv'
BY DEF TypeInv, TypeOK, Apart

(* A step of a call that changes no more than the call itself.             *)
LEMMA TypeOfCall ==
    ASSUME TypeInv, NEW s \in Scopes, NEW c \in Calls, call' = [call EXCEPT ![s] = c],
           c.shown \in SUBSET c.report, c.pc # "decided" => c.shown = {},
           c.pc = "read" => c.now \in 1 .. MaxClock, \A q \in Scopes : Apart(c.copy[q]),
           UNCHANGED <<work, clock, state, standing, blocks>>,
           told' \in [Scopes -> SUBSET Findings], failures' \in 0 .. MaxFailures
    PROVE  TypeInv'
<1>1. /\ call' \in [Scopes -> Calls]
      /\ \A q \in Scopes : call'[q] = IF q = s THEN c ELSE call[q]
  BY DEF TypeInv
<1>2. \A q \in Scopes :
        /\ call'[q].shown \subseteq call'[q].report
        /\ call'[q].pc # "decided" => call'[q].shown = {}
        /\ call'[q].pc = "read" => call'[q].now \in 1 .. MaxClock
        /\ \A x \in Scopes : Apart(call'[q].copy[x])
        /\ call'[q].report \in SUBSET Keys
  BY <1>1 DEF TypeInv, Calls
<1> QED
  BY <1>1, <1>2 DEF TypeInv, TypeOK, work, Apart

(* Applying a triage keeps the types.                                      *)
LEMMA TypeOfApply ==
    ASSUME TypeInv, NEW s \in Scopes, NEW from \in [Scopes -> ScopeState],
           NEW now \in 1 .. MaxClock, NEW branch \in Branches,
           \A q \in Scopes : Apart(from[q]), Apply(s, from, now, branch),
           UNCHANGED <<work, clock, told, failures>>
    PROVE  TypeInv'
<1> DEFINE t == Applied(s, from, now, branch)
<1>0. Applies(s, from, now, branch)
  BY ApplyProperties
<1>1. /\ state' \in [Scopes -> ScopeState] /\ call' \in [Scopes -> Calls]
      /\ \A q \in Scopes : Apart(state'[q])
      /\ \A q \in Scopes : q # s => call'[q] = call[q]
      /\ call'[s] = [Idle EXCEPT !.pc = "decided", !.report = call[s].report,
                                 !.shown = t.shown, !.regressed = t.regressed]
      /\ t.shown \in SUBSET call[s].report
      /\ blocks' \in [Scopes -> [Branches -> [Keys -> Nat]]]
      /\ standing' \in [Scopes -> SUBSET Findings]
  BY <1>0 DEF Applies
<1> HIDE DEF t
<1>2. Branches # {}
  BY DEF TypeInv, TypeOK
<1>3. /\ call'[s].pc = "decided" /\ call'[s].report = call[s].report /\ call'[s].shown = t.shown
      /\ call'[s].copy = Idle.copy
  BY <1>1, <1>2, IdleIsCall DEF Calls
<1>4. \A q \in Scopes :
        /\ call'[q].shown \subseteq call'[q].report
        /\ call'[q].pc # "decided" => call'[q].shown = {}
        /\ call'[q].pc = "read" => call'[q].now \in 1 .. MaxClock
        /\ \A x \in Scopes : Apart(call'[q].copy[x])
        /\ call'[q].report \in SUBSET Keys
  BY <1>1, <1>2, <1>3, IdleIsCall DEF TypeInv, Calls
<1>5. \A q \in Scopes :
         /\ state'[q].updated \in 0 .. MaxClock
         /\ state'[q].blocked \in SUBSET Findings /\ state'[q].resolved \in SUBSET Findings
         /\ state'[q].blocked \cap state'[q].resolved = {}
  BY <1>1 DEF ScopeState, Apart
<1>6. TypeOK'
  BY <1>4, <1>5 DEF TypeInv, TypeOK, work
<1> QED
  BY <1>1, <1>4, <1>6 DEF TypeInv, work, Apart

(* Every step keeps the types.                                             *)
LEMMA TypeStep == TypeInv /\ [Next]_vars => TypeInv'
<1> SUFFICES ASSUME TypeInv, [Next]_vars PROVE TypeInv'
  OBVIOUS
<1>1. Branches # {} /\ Idle \in Calls /\ Idle.pc = "idle" /\ Idle.shown = {}
      /\ \A q \in Scopes : Apart(Idle.copy[q])
  BY IdleIsCall DEF TypeInv, TypeOK
<1>0. /\ failures \in 0 .. MaxFailures /\ (failures < MaxFailures => failures + 1 \in 0 .. MaxFailures)
      /\ clock \in 1 .. MaxClock /\ clock \in 0 .. MaxClock
  BY ConstantsAssumption DEF TypeInv, TypeOK
<1>2. /\ told \in [Scopes -> SUBSET Findings]
      /\ state \in [Scopes -> ScopeState] /\ call \in [Scopes -> Calls]
      /\ head \in Branches
      /\ \A q \in Scopes : Apart(state[q])
  BY DEF TypeInv, TypeOK, Apart
<1>3. CASE Edit \/ Commit \/ Checkout
  <2>1. /\ UNCHANGED <<state, call, told, blocks, clock, failures>>
        /\ edits' \in 0 .. MaxEdits /\ standing' = [s \in Scopes |-> {}]
    BY <1>3, ConstantsAssumption DEF Edit, Commit, Checkout, Worked, TypeInv, TypeOK
  <2>2. /\ place' \in [Branches -> [Findings -> Lines \cup {0}]] /\ changed' \in SUBSET Findings
        /\ head' \in Branches
    <3>1. CASE Edit
      BY <3>1 DEF Edit, TypeInv, TypeOK
    <3>2. CASE Commit \/ Checkout
      BY <3>2 DEF Commit, Checkout, TypeInv, TypeOK
    <3> QED
      BY <1>3, <3>1, <3>2
  <2> QED
    BY <1>0, <1>2, <2>1, <2>2, TypeOfRest
<1>4. CASE Tick
  <2>1. clock' \in 1 .. MaxClock
    BY <1>0, <1>2, <1>4, ConstantsAssumption DEF Tick
  <2> QED
    BY <1>4, <2>1, TypeOfRest DEF Tick, work, TypeInv, TypeOK
<1>5. CASE UNCHANGED vars
  BY <1>5, TypeOfRest DEF vars, work, TypeInv, TypeOK
<1>6. ASSUME NEW s \in Scopes, Scan(s) PROVE TypeInv'
  <2> DEFINE c == [Idle EXCEPT !.pc = "scanned", !.report = Report]
  <2>1. c \in Calls /\ c.pc = "scanned" /\ c.shown = {} /\ c.copy = Idle.copy
    BY <1>1 DEF Calls, Report
  <2>2. call' = [call EXCEPT ![s] = c] /\ UNCHANGED <<work, clock, state, standing, blocks, told, failures>>
    BY <1>6 DEF Scan
  <2> HIDE DEF c
  <2> QED
    BY <1>0, <1>1, <1>2, <2>1, <2>2, TypeOfCall
<1>7. ASSUME NEW s \in Scopes, Update(s) PROVE TypeInv'
  BY <1>0, <1>2, <1>7, TypeOfApply DEF Update
<1>8. ASSUME NEW s \in Scopes, ReadUnlocked(s) PROVE TypeInv'
  <2> DEFINE c == [call[s] EXCEPT !.pc = "read", !.copy = state, !.now = clock, !.branch = head]
  <2>1. c \in Calls /\ c.pc = "read" /\ c.shown = call[s].shown /\ c.copy = state /\ c.now = clock
        /\ c.report = call[s].report /\ call[s].shown = {}
    BY <1>0, <1>2, <1>8 DEF Calls, TypeInv, ReadUnlocked
  <2>2. /\ call' = [call EXCEPT ![s] = c] /\ UNCHANGED <<work, clock, state, standing, blocks, told>>
        /\ failures' \in 0 .. MaxFailures
    BY <1>0, <1>2, <1>8 DEF ReadUnlocked
  <2> HIDE DEF c
  <2> QED
    BY <1>0, <1>2, <2>1, <2>2, TypeOfCall
<1>9. ASSUME NEW s \in Scopes, WriteUnlocked(s) PROVE TypeInv'
  <2>1. call[s].copy \in [Scopes -> ScopeState] /\ call[s].now \in 1 .. MaxClock /\ call[s].branch \in Branches
        /\ \A q \in Scopes : Apart(call[s].copy[q])
    BY <1>9 DEF WriteUnlocked, TypeInv, Calls
  <2> QED
    BY <1>9, <2>1, TypeOfApply DEF WriteUnlocked
<1>10. ASSUME NEW s \in Scopes, Reply(s) \/ LoseReply(s) PROVE TypeInv'
  <2>1. Ids(call[s].shown) \in SUBSET Findings
    BY IdsOfKeys DEF TypeInv, Calls
  <2>2. /\ call' = [call EXCEPT ![s] = Idle] /\ UNCHANGED <<work, clock, state, standing, blocks>>
        /\ failures' \in 0 .. MaxFailures /\ told' \in [Scopes -> SUBSET Findings]
    BY <1>0, <1>2, <1>10, <2>1 DEF Reply, LoseReply
  <2> QED
    BY <1>1, <2>2, TypeOfCall
<1> QED
  BY <1>3, <1>4, <1>5, <1>6, <1>7, <1>8, <1>9, <1>10 DEF Next

(* Type correctness of the gate: what a scope holds as blocked is never    *)
(* also held as fixed (gate_state.rs, recall), and a block shows only      *)
(* findings of its own report.                                             *)
THEOREM TypeCorrect == Spec => []TypeOK
<1>1. TypeInv => TypeOK
  BY DEF TypeInv
<1> QED
  BY <1>1, TypeInit, TypeStep, PTL DEF Spec

-----------------------------------------------------------------------------
(* Nothing is held back that was not shown. The copies that calls without  *)
(* the lock have read are part of the invariant: they may yet be written.  *)

Seen(s) == told[s] \cup Ids(call[s].shown)
HeldInv ==
    \A s \in Scopes \ lost :
        /\ state[s].blocked \subseteq Seen(s)
        /\ \A q \in Scopes : call[q].copy[s].blocked \subseteq Seen(s)

(* No keys have no identities.                                             *)
LEMMA IdsOfNone == Ids({}) = {}
BY DEF Ids

(* Nothing is held back from anybody.                                      *)
LEMMA HeldInit == Init => HeldInv
<1> SUFFICES ASSUME Init PROVE HeldInv
  OBVIOUS
<1>1. Branches # {}
  BY DEF Init
<1>2. \A s \in Scopes : state[s] = FreshScope /\ call[s] = Idle
  BY DEF Init
<1> QED
  BY <1>1, <1>2, IdleIsCall, FreshIsScope DEF HeldInv

(* A step of one call that writes nothing and keeps what it has shown.     *)
LEMMA HeldOfCall ==
    ASSUME TypeInv, HeldInv, NEW s \in Scopes, NEW c \in Calls, call' = [call EXCEPT ![s] = c],
           UNCHANGED state, lost \subseteq lost',
           \A q \in Scopes \ lost' : Seen(q) \subseteq Seen(q)',
           \A q \in Scopes : c.copy[q] \in {FreshScope, state[q]}
    PROVE  HeldInv'
<1>1. \A q \in Scopes : call'[q] = IF q = s THEN c ELSE call[q]
  BY DEF TypeInv
<1>2. \A q, x \in Scopes : call'[x].copy[q].blocked
          \in {call[x].copy[q].blocked, state[q].blocked, {}}
  BY <1>1, FreshIsScope
<1> QED
  BY <1>2 DEF HeldInv

(* What a scope then holds back was held back before or is shown now.      *)
LEMMA HeldOfApply ==
    ASSUME TypeInv, HeldInv, NEW s \in Scopes, NEW from \in [Scopes -> ScopeState],
           NEW now \in 1 .. MaxClock, NEW branch \in Branches,
           \A q \in Scopes : Apart(from[q]), Apply(s, from, now, branch),
           \A q \in Scopes \ lost : from[q].blocked \subseteq Seen(q),
           call[s].pc # "decided", UNCHANGED <<told, lost>>
    PROVE  HeldInv'
<1> DEFINE t == Applied(s, from, now, branch)
           all == Retain(from, now)
<1>1. Applies(s, from, now, branch)
  BY ApplyProperties
<1>2. all \in [Scopes -> ScopeState] /\ \A q \in Scopes : all[q] \in {from[q], FreshScope}
  <2>1. now \in 0 .. MaxClock
    OBVIOUS
  <2> QED
    BY <2>1, RetainProperties
<1>3. /\ t.scope \in ScopeState
      /\ t.scope.blocked = (all[s].blocked \cap Ids(call[s].report)) \cup Ids(t.shown)
  <2>1. call[s].report \in SUBSET Keys
    BY DEF TypeInv, Calls
  <2> QED
    BY ZenonT(30), <1>2, <2>1, TriageProperties DEF Applied
<1>4. /\ \A q \in Scopes : q # s => state'[q] = all[q] /\ call'[q] = call[q]
      /\ state'[s] = [t.scope EXCEPT !.updated = now]
      /\ call'[s] = [Idle EXCEPT !.pc = "decided", !.report = call[s].report,
                                 !.shown = t.shown, !.regressed = t.regressed]
  BY <1>1 DEF Applies
<1> HIDE DEF t, all
<1>5. Branches # {}
  OBVIOUS
<1>6. state'[s].blocked = t.scope.blocked /\ call'[s].shown = t.shown /\ call'[s].copy = Idle.copy
  BY <1>3, <1>4, <1>5, IdleIsCall DEF ScopeState, Calls
<1>7. \A q \in Scopes : q # s => Seen(q)' = Seen(q)
  BY <1>4 DEF Seen
<1>8. Seen(s) = told[s] /\ Seen(s)' = told[s] \cup Ids(t.shown)
  BY <1>6, IdsOfNone DEF Seen, TypeInv
<1>9. \A q \in Scopes : all[q].blocked \subseteq from[q].blocked
  BY <1>2, FreshIsScope
<1>10. \A q \in Scopes \ lost : Seen(q) \subseteq Seen(q)'
  BY <1>7, <1>8
<1>11. \A q \in Scopes \ lost : state'[q].blocked \subseteq Seen(q)'
  <2> TAKE q \in Scopes \ lost
  <2>1. all[q].blocked \subseteq Seen(q)
    BY <1>9
  <2>2. CASE q = s
    BY <1>3, <1>6, <1>8, <2>1, <2>2
  <2>3. CASE q # s
    BY <1>4, <1>7, <2>1, <2>3
  <2> QED
    BY <2>2, <2>3
<1>12. \A q, x \in Scopes : call'[x].copy[q].blocked \in {call[x].copy[q].blocked, {}}
  <2> TAKE q, x \in Scopes
  <2>1. CASE x = s
    BY <1>5, <1>6, <2>1, IdleIsCall, FreshIsScope
  <2>2. CASE x # s
    BY <1>4, <2>2
  <2> QED
    BY <2>1, <2>2
<1> QED
  BY <1>10, <1>11, <1>12 DEF HeldInv

(* Every step holds back only what the session has seen or is about to.    *)
LEMMA HeldStep == TypeInv /\ HeldInv /\ [Next]_vars => HeldInv'
<1> SUFFICES ASSUME TypeInv, HeldInv, [Next]_vars PROVE HeldInv'
  OBVIOUS
<1>1. /\ Branches # {} /\ Idle \in Calls /\ Idle.pc = "idle" /\ Idle.shown = {}
      /\ \A q \in Scopes : Idle.copy[q] = FreshScope
  BY IdleIsCall DEF TypeInv, TypeOK
<1>2. /\ state \in [Scopes -> ScopeState] /\ call \in [Scopes -> Calls]
      /\ clock \in 1 .. MaxClock /\ head \in Branches
      /\ \A q \in Scopes : Apart(state[q])
  BY DEF TypeInv, TypeOK, Apart
<1>3. CASE UNCHANGED <<state, call, told, lost>>
  BY <1>3 DEF HeldInv, Seen
<1>4. ASSUME NEW s \in Scopes, Scan(s) PROVE HeldInv'
  <2> DEFINE c == [Idle EXCEPT !.pc = "scanned", !.report = Report]
  <2>1. c \in Calls /\ c.shown = {} /\ c.copy = Idle.copy
    BY <1>1 DEF Calls, Report
  <2>2. call' = [call EXCEPT ![s] = c] /\ UNCHANGED <<state, told, lost>> /\ call[s].shown = {}
    BY <1>4 DEF Scan, TypeInv
  <2> HIDE DEF c
  <2>3. \A q \in Scopes : Seen(q)' = Seen(q)
    BY <1>2, <2>1, <2>2 DEF Seen
  <2> QED
    BY <1>1, <2>1, <2>2, <2>3, HeldOfCall
<1>5. ASSUME NEW s \in Scopes, Update(s) PROVE HeldInv'
  BY <1>2, <1>5, HeldOfApply DEF Update, HeldInv
<1>6. ASSUME NEW s \in Scopes, ReadUnlocked(s) PROVE HeldInv'
  <2> DEFINE c == [call[s] EXCEPT !.pc = "read", !.copy = state, !.now = clock, !.branch = head]
  <2>1. c \in Calls /\ c.shown = call[s].shown /\ c.copy = state
    <3>1. clock \in 0 .. MaxClock
      BY <1>2
    <3> QED
      BY <1>2, <3>1 DEF Calls
  <2>2. call' = [call EXCEPT ![s] = c] /\ UNCHANGED <<state, told, lost>>
    BY <1>6 DEF ReadUnlocked
  <2> HIDE DEF c
  <2>3. \A q \in Scopes : Seen(q)' = Seen(q)
    BY <1>2, <2>1, <2>2 DEF Seen
  <2> QED
    BY <2>1, <2>2, <2>3, HeldOfCall
<1>7. ASSUME NEW s \in Scopes, WriteUnlocked(s) PROVE HeldInv'
  <2>1. /\ call[s].copy \in [Scopes -> ScopeState] /\ call[s].now \in 1 .. MaxClock
        /\ call[s].branch \in Branches /\ \A q \in Scopes : Apart(call[s].copy[q])
    BY <1>7 DEF WriteUnlocked, TypeInv, Calls
  <2>2. \A q \in Scopes \ lost : call[s].copy[q].blocked \subseteq Seen(q)
    BY DEF HeldInv
  <2> QED
    BY <1>7, <2>1, <2>2, HeldOfApply DEF WriteUnlocked
<1>8. ASSUME NEW s \in Scopes, Reply(s) PROVE HeldInv'
  <2>1. call' = [call EXCEPT ![s] = Idle] /\ UNCHANGED <<state, lost>>
        /\ told' = [told EXCEPT ![s] = @ \cup Ids(call[s].shown)]
    BY <1>8 DEF Reply
  <2>2. told \in [Scopes -> SUBSET Findings]
    BY DEF TypeInv
  <2>3. \A q \in Scopes : Seen(q) \subseteq Seen(q)'
    BY <1>1, <1>2, <2>1, <2>2 DEF Seen
  <2> QED
    BY <1>1, <2>1, <2>3, HeldOfCall
<1>9. ASSUME NEW s \in Scopes, LoseReply(s) PROVE HeldInv'
  <2>1. call' = [call EXCEPT ![s] = Idle] /\ UNCHANGED <<state, told>> /\ lost' = lost \cup {s}
    BY <1>9 DEF LoseReply
  <2>2. \A q \in Scopes \ lost' : Seen(q) = Seen(q)'
    BY <1>2, <2>1 DEF Seen
  <2> QED
    BY <1>1, <2>1, <2>2, HeldOfCall
<1> QED
  BY <1>3, <1>4, <1>5, <1>6, <1>7, <1>8, <1>9
  DEF Next, Edit, Commit, Checkout, Worked, Tick, vars

(* A finding is never held back as already blocked from a session that was *)
(* not shown it, for any number of sessions that rewrite state.json with   *)
(* the lock or, when it takes too long, without it (gate_state.rs, update). *)
THEOREM SuppressedIsTold == Spec => []SuppressedWasTold
<1>1. HeldInv => SuppressedWasTold
  BY DEF HeldInv, SuppressedWasTold, Seen
<1> QED
  BY <1>1, TypeInit, TypeStep, HeldInit, HeldStep, PTL DEF Spec

-----------------------------------------------------------------------------
(* Not twice for unchanged work. While every writer had the lock, what a   *)
(* session was blocked for since the work last changed and is still there  *)
(* is held as blocked; a call that scanned before the last change finds    *)
(* nothing standing.                                                       *)

StandingInv ==
    failures = 0 => \A s \in Scopes :
        /\ call[s].pc # "read"
        /\ standing[s] \cap Ids(Report) \subseteq state[s].blocked
        /\ call[s].pc = "scanned" => call[s].report = Report \/ standing[s] = {}

(* No session has been blocked yet.                                        *)
LEMMA StandingInit == Init => StandingInv
<1> SUFFICES ASSUME Init PROVE StandingInv
  OBVIOUS
<1>1. Branches # {} /\ \A s \in Scopes : call[s] = Idle /\ standing[s] = {}
  BY DEF Init
<1> QED
  BY <1>1, IdleIsCall DEF StandingInv

(* What an update under the lock shows is none of what it had blocked.     *)
LEMMA UpdateShows ==
    ASSUME TypeInv, NEW s \in Scopes, Update(s)
    PROVE  LET t == Applied(s, state, clock, head)
               all == Retain(state, clock) IN
           /\ Applies(s, state, clock, head)
           /\ all \in [Scopes -> ScopeState]
           /\ \A q \in Scopes : all[q] \in {state[q], FreshScope}
           /\ t.scope \in ScopeState /\ t.shown \in SUBSET call[s].report
           /\ t.scope.blocked = (all[s].blocked \cap Ids(call[s].report)) \cup Ids(t.shown)
           /\ Ids(t.shown) \cap all[s].blocked = {}
           /\ state'[s].blocked = t.scope.blocked /\ state'[s].repeats = t.scope.repeats
           /\ call'[s].shown = t.shown /\ call'[s].pc = "decided"
<1> DEFINE t == Applied(s, state, clock, head)
           all == Retain(state, clock)
<1>1. /\ state \in [Scopes -> ScopeState] /\ clock \in 1 .. MaxClock /\ head \in Branches
      /\ \A q \in Scopes : Apart(state[q])
  BY DEF TypeInv, TypeOK, Apart
<1>2. clock \in 0 .. MaxClock /\ Branches # {}
  BY <1>1
<1>3. Applies(s, state, clock, head)
  BY <1>1, ApplyProperties DEF Update
<1>4. all \in [Scopes -> ScopeState] /\ \A q \in Scopes : all[q] \in {state[q], FreshScope}
  BY <1>1, <1>2, RetainProperties
<1>5. /\ t.scope \in ScopeState /\ t.shown \in SUBSET call[s].report
      /\ t.scope.blocked = (all[s].blocked \cap Ids(call[s].report)) \cup Ids(t.shown)
      /\ Ids(t.shown) \cap all[s].blocked = {}
  <2>1. call[s].report \in SUBSET Keys /\ all[s] \in ScopeState
    BY <1>4 DEF TypeInv, Calls
  <2> HIDE DEF all
  <2>2. t = Triage(all[s], call[s].report, head, clock)
    BY DEF Applied, all
  <2> HIDE DEF t
  <2> QED
    BY <1>1, <2>1, <2>2, TriageProperties
<1>6. /\ state'[s] = [t.scope EXCEPT !.updated = clock]
      /\ call'[s] = [Idle EXCEPT !.pc = "decided", !.report = call[s].report,
                                 !.shown = t.shown, !.regressed = t.regressed]
  BY <1>3 DEF Applies
<1> HIDE DEF t, all
<1>7. /\ state'[s].blocked = t.scope.blocked /\ state'[s].repeats = t.scope.repeats
      /\ call'[s].shown = t.shown /\ call'[s].pc = "decided"
  BY <1>2, <1>5, <1>6, IdleIsCall DEF ScopeState, Calls
<1> QED
  BY <1>3, <1>4, <1>5, <1>7 DEF t, all

(* Every step keeps what was blocked for the present report blocked.       *)
LEMMA StandingStep == TypeInv /\ StandingInv /\ [Next]_vars => StandingInv'
<1> SUFFICES ASSUME TypeInv, StandingInv, [Next]_vars, failures' = 0
             PROVE  \A q \in Scopes :
                        /\ call'[q].pc # "read"
                        /\ standing'[q] \cap Ids(Report') \subseteq state'[q].blocked
                        /\ call'[q].pc = "scanned" => call'[q].report = Report' \/ standing'[q] = {}
  BY DEF StandingInv
<1>1. /\ Branches # {} /\ Idle \in Calls /\ Idle.pc = "idle"
      /\ call \in [Scopes -> Calls] /\ failures \in Nat
  BY IdleIsCall, ConstantsAssumption DEF TypeInv, TypeOK
<1>2. failures = 0
  <2>1. ASSUME NEW s \in Scopes, ReadUnlocked(s) \/ LoseReply(s) PROVE FALSE
    BY <1>1, <2>1 DEF ReadUnlocked, LoseReply
  <2>2. CASE UNCHANGED failures
    BY <2>2
  <2> QED
    BY <2>1, <2>2 DEF Next, Edit, Commit, Checkout, Worked, Tick, Scan, Update, WriteUnlocked, Reply, vars
<1>3. \A q \in Scopes :
        /\ call[q].pc # "read"
        /\ standing[q] \cap Ids(Report) \subseteq state[q].blocked
        /\ call[q].pc = "scanned" => call[q].report = Report \/ standing[q] = {}
  BY <1>2 DEF StandingInv
<1>4. CASE Edit \/ Commit \/ Checkout
  BY <1>3, <1>4 DEF Edit, Commit, Checkout, Worked
<1>5. CASE UNCHANGED <<work, state, call, standing>>
  BY <1>3, <1>5 DEF work, Report
<1>6. ASSUME NEW s \in Scopes, UNCHANGED <<work, state, standing>>, NEW c \in Calls,
             call' = [call EXCEPT ![s] = c], c.pc \in {"idle", "scanned"},
             c.pc = "scanned" => c.report = Report
      PROVE  \A q \in Scopes :
                /\ call'[q].pc # "read"
                /\ standing'[q] \cap Ids(Report') \subseteq state'[q].blocked
                /\ call'[q].pc = "scanned" => call'[q].report = Report' \/ standing'[q] = {}
  <2>1. \A q \in Scopes : call'[q] = IF q = s THEN c ELSE call[q]
    BY <1>1, <1>6
  <2>2. Report' = Report
    BY <1>6 DEF Report, work
  <2> QED
    BY <1>3, <1>6, <2>1, <2>2
<1>7. ASSUME NEW s \in Scopes, Scan(s)
      PROVE  \A q \in Scopes :
                /\ call'[q].pc # "read"
                /\ standing'[q] \cap Ids(Report') \subseteq state'[q].blocked
                /\ call'[q].pc = "scanned" => call'[q].report = Report' \/ standing'[q] = {}
  <2> DEFINE c == [Idle EXCEPT !.pc = "scanned", !.report = Report]
  <2>1. c \in Calls /\ c.pc = "scanned" /\ c.report = Report
    BY <1>1 DEF Calls, Report
  <2>2. call' = [call EXCEPT ![s] = c] /\ UNCHANGED <<work, state, standing>>
    BY <1>7 DEF Scan
  <2> HIDE DEF c
  <2> QED
    BY <1>6, <2>1, <2>2
<1>8. ASSUME NEW s \in Scopes, Reply(s)
      PROVE  \A q \in Scopes :
                /\ call'[q].pc # "read"
                /\ standing'[q] \cap Ids(Report') \subseteq state'[q].blocked
                /\ call'[q].pc = "scanned" => call'[q].report = Report' \/ standing'[q] = {}
  BY <1>1, <1>6, <1>8 DEF Reply
<1>9. ASSUME NEW s \in Scopes, Update(s)
      PROVE  \A q \in Scopes :
                /\ call'[q].pc # "read"
                /\ standing'[q] \cap Ids(Report') \subseteq state'[q].blocked
                /\ call'[q].pc = "scanned" => call'[q].report = Report' \/ standing'[q] = {}
  <2> DEFINE t == Applied(s, state, clock, head)
             all == Retain(state, clock)
  <2>1. /\ Applies(s, state, clock, head)
        /\ \A q \in Scopes : all[q] \in {state[q], FreshScope}
        /\ t.scope.blocked = (all[s].blocked \cap Ids(call[s].report)) \cup Ids(t.shown)
        /\ state'[s].blocked = t.scope.blocked
        /\ call'[s].pc = "decided"
    BY <1>9, UpdateShows
  <2>2. /\ \A q \in Scopes : q # s => state'[q] = all[q] /\ call'[q] = call[q]
        /\ \A q \in Scopes :
              standing'[q] = (IF all[q] # state[q] THEN {} ELSE standing[q])
                               \cup (IF q = s THEN Ids(t.shown) ELSE {})
    BY <2>1 DEF Applies, Outdated
  <2>3. Report' = Report /\ call[s].pc = "scanned"
    BY <1>9 DEF Update, work, Report
  <2> HIDE DEF t, all
  <2>4. ASSUME NEW q \in Scopes, q # s
        PROVE  /\ call'[q].pc # "read"
               /\ standing'[q] \cap Ids(Report) \subseteq state'[q].blocked
               /\ call'[q].pc = "scanned" => call'[q].report = Report \/ standing'[q] = {}
    BY <1>3, <2>2, <2>4
  <2>5. standing'[s] \cap Ids(Report) \subseteq state'[s].blocked
    BY <1>3, <2>1, <2>2, <2>3
  <2> QED
    BY <2>1, <2>3, <2>4, <2>5
<1>10. ASSUME NEW s \in Scopes, ReadUnlocked(s) \/ LoseReply(s) \/ WriteUnlocked(s) PROVE FALSE
  BY <1>1, <1>2, <1>3, <1>10 DEF ReadUnlocked, LoseReply, WriteUnlocked
<1> QED
  BY <1>4, <1>5, <1>7, <1>8, <1>9, <1>10 DEF Next, Tick, vars

(* A decision shows nothing that still stands.                             *)
LEMMA StandingNotShown ==
    ASSUME TypeInv, StandingInv, [Next]_vars, NEW s \in Scopes,
           call[s].pc = "scanned", call'[s].pc = "decided", failures = 0,
           Retain(state, clock)[s] = state[s]
    PROVE  Ids(call'[s].shown) \cap standing[s] = {}
<1>1. /\ call \in [Scopes -> Calls] /\ Branches # {} /\ Idle.pc = "idle"
      /\ \A q \in Scopes : call[q].pc # "read"
  BY IdleIsCall DEF TypeInv, TypeOK, StandingInv
<1>2. CASE Update(s)
  <2>1. LET t == Applied(s, state, clock, head) IN
        /\ t.shown \in SUBSET call[s].report
        /\ Ids(t.shown) \cap state[s].blocked = {}
        /\ call'[s].shown = t.shown
    BY <1>2, UpdateShows
  <2>2. /\ standing[s] \cap Ids(Report) \subseteq state[s].blocked
        /\ call[s].report = Report \/ standing[s] = {}
    BY DEF StandingInv
  <2>3. Ids(call'[s].shown) \subseteq Ids(call[s].report)
    BY <2>1 DEF Ids
  <2> QED
    BY <2>1, <2>2, <2>3
<1>3. ASSUME NEW q \in Scopes, Update(q), q # s PROVE FALSE
  BY <1>3, UpdateShows DEF Applies
<1>4. ASSUME NEW q \in Scopes, Scan(q) \/ ReadUnlocked(q) \/ Reply(q) \/ LoseReply(q) PROVE FALSE
  BY <1>1, <1>4 DEF Scan, ReadUnlocked, Reply, LoseReply, Calls
<1> QED
  BY <1>1, <1>2, <1>3, <1>4
  DEF Next, Edit, Commit, Checkout, Worked, Tick, vars, WriteUnlocked

(* "The gate will not keep blocking the same unchanged work" (gate.rs):    *)
(* for any sessions, branches and findings, until a file, a commit or the  *)
(* branch changes, no session is blocked a second time for a finding,      *)
(* short of its scope's expiry or a lost lock.                             *)
THEOREM UnchangedBlocksOnce == Spec => NoRepeatBlock
<1>1. TypeInv /\ StandingInv /\ [Next]_vars =>
        [\A s \in Scopes :
          (call[s].pc = "scanned" /\ call'[s].pc = "decided" /\ failures = 0
             /\ Retain(state, clock)[s] = state[s])
            => Ids(call'[s].shown) \cap standing[s] = {}]_vars
  BY StandingNotShown
<1> QED
  BY <1>1, TypeInit, TypeStep, StandingInit, StandingStep, PTL DEF Spec, NoRepeatBlock

-----------------------------------------------------------------------------
(* Bounded nagging. Before a key's one expiry the blocks for it are what   *)
(* its counter says, and the counter has reached the limit when the key is *)
(* deferred; after the expiry they are the limit and what it says.         *)

Again == IF Limit = 0 THEN 1 ELSE Limit
Matches(r, k, n) ==
    /\ k \notin r.expired =>
        /\ n = r.counts[k] /\ n <= Limit
        /\ r.until[k] # None => n = Limit
    /\ k \in r.expired =>
        /\ n = Limit + r.counts[k] /\ r.counts[k] <= Again
        /\ r.until[k] \in {None, Forever}
CountInv ==
    failures = 0 => \A s \in Scopes :
        /\ call[s].pc # "read"
        /\ \A b \in Branches, k \in Keys : Matches(state[s].repeats[b], k, blocks[s][b][k])

(* A fresh scope has blocked nothing.                                      *)
LEMMA FreshMatches == \A b \in Branches, k \in Keys : Matches(FreshScope.repeats[b], k, 0)
<1>1. \A b \in Branches : FreshScope.repeats[b] = FreshRepeats
  BY DEF FreshScope
<1> QED
  BY <1>1, ConstantsAssumption DEF Matches, FreshRepeats

(* A key allowed is counted once more, and no other.                       *)
LEMMA AllowedMatches ==
    ASSUME NEW r \in Repeats, NEW keys \in SUBSET Keys, NEW now \in 1 .. MaxClock,
           NEW k \in Keys, NEW n \in Nat, Matches(r, k, n)
    PROVE  LET t == RetainAllowed(r, keys, now) IN
           Matches(t.repeats, k, n + (IF k \in t.allowed THEN 1 ELSE 0))
<1> DEFINE t == RetainAllowed(r, keys, now)
<1>1. \/ /\ k \notin t.allowed
         /\ t.repeats.counts[k] = r.counts[k]
         /\ k \in t.repeats.expired <=> k \in r.expired
         /\ \/ t.repeats.until[k] = r.until[k]
            \/ /\ r.counts[k] >= Limit
               /\ IF k \in r.expired THEN t.repeats.until[k] = Forever
                  ELSE t.repeats.until[k] \in Nat \ {0}
      \/ /\ k \in t.allowed /\ r.until[k] = None /\ r.counts[k] < Limit
         /\ t.repeats.counts[k] = r.counts[k] + 1
         /\ t.repeats.until[k] = r.until[k]
         /\ k \in t.repeats.expired <=> k \in r.expired
      \/ /\ k \in t.allowed /\ r.until[k] > None
         /\ t.repeats.counts[k] = 1
         /\ t.repeats.until[k] = None
         /\ k \in t.repeats.expired
  BY RetainAllowedKeys
<1>2. r.counts[k] \in Nat /\ r.until[k] \in Int /\ Limit \in Nat
  BY ConstantsAssumption DEF Repeats
<1> SUFFICES Matches(t.repeats, k, n + (IF k \in t.allowed THEN 1 ELSE 0))
  OBVIOUS
<1> HIDE DEF t
<1>3. CASE /\ k \notin t.allowed
           /\ t.repeats.counts[k] = r.counts[k]
           /\ k \in t.repeats.expired <=> k \in r.expired
           /\ \/ t.repeats.until[k] = r.until[k]
              \/ /\ r.counts[k] >= Limit
                 /\ IF k \in r.expired THEN t.repeats.until[k] = Forever
                    ELSE t.repeats.until[k] \in Nat \ {0}
  BY <1>2, <1>3 DEF Matches, Again, None, Forever
<1>4. CASE /\ k \in t.allowed /\ r.until[k] = None /\ r.counts[k] < Limit
           /\ t.repeats.counts[k] = r.counts[k] + 1
           /\ t.repeats.until[k] = r.until[k]
           /\ k \in t.repeats.expired <=> k \in r.expired
  BY <1>2, <1>4 DEF Matches, Again, None, Forever
<1>5. CASE /\ k \in t.allowed /\ r.until[k] > None
           /\ t.repeats.counts[k] = 1
           /\ t.repeats.until[k] = None
           /\ k \in t.repeats.expired
  BY <1>2, <1>5 DEF Matches, Again, None, Forever
<1> QED
  BY <1>1, <1>3, <1>4, <1>5

(* No block has been counted yet.                                          *)
LEMMA CountInit == Init => CountInv
<1> SUFFICES ASSUME Init PROVE CountInv
  OBVIOUS
<1>1. /\ Branches # {}
      /\ \A s \in Scopes : state[s] = FreshScope /\ call[s] = Idle
      /\ \A s \in Scopes, b \in Branches, k \in Keys : blocks[s][b][k] = 0
  BY DEF Init
<1> QED
  BY <1>1, IdleIsCall, FreshMatches DEF CountInv

(* An update under the lock counts what it shows.                          *)
LEMMA CountOfUpdate ==
    ASSUME TypeInv, CountInv, failures = 0, NEW s \in Scopes, Update(s)
    PROVE  \A q \in Scopes :
             /\ call'[q].pc # "read"
             /\ \A b \in Branches, k \in Keys : Matches(state'[q].repeats[b], k, blocks'[q][b][k])
<1> DEFINE t == Applied(s, state, clock, head)
           all == Retain(state, clock)
           base(q, b, k) == IF all[q] # state[q] THEN 0 ELSE blocks[q][b][k]
           unseen == Unseen(all[s], call[s].report)
           r == RetainAllowed(all[s].repeats[head], unseen, clock)
<1>1. /\ Applies(s, state, clock, head)
      /\ all \in [Scopes -> ScopeState]
      /\ \A q \in Scopes : all[q] \in {state[q], FreshScope}
      /\ state'[s].repeats = t.scope.repeats
      /\ call'[s].pc = "decided"
  BY UpdateShows
<1>2. /\ clock \in 1 .. MaxClock /\ head \in Branches /\ call[s].report \in SUBSET Keys
      /\ all[s] \in ScopeState
  BY <1>1 DEF TypeInv, TypeOK, Calls
<1>3. t.scope.repeats = [all[s].repeats EXCEPT ![head] = r.repeats] /\ t.shown = r.allowed
  <2>1. t = Triage(all[s], call[s].report, head, clock)
    BY DEF Applied
  <2> HIDE DEF all, t
  <2> QED
    BY <1>2, <2>1, TriageProperties
<1>4. \A q \in Scopes, b \in Branches, k \in Keys :
         Matches(all[q].repeats[b], k, base(q, b, k)) /\ base(q, b, k) \in Nat
  <2> TAKE q \in Scopes, b \in Branches, k \in Keys
  <2>1. blocks[q][b][k] \in Nat /\ Matches(state[q].repeats[b], k, blocks[q][b][k])
    BY DEF CountInv, TypeInv
  <2>2. Matches(FreshScope.repeats[b], k, 0)
    BY FreshMatches
  <2>3. all[q] = state[q] \/ all[q] = FreshScope
    BY <1>1
  <2> HIDE DEF all
  <2> QED
    BY <2>1, <2>2, <2>3
<1>5. /\ \A q \in Scopes : q # s => state'[q] = all[q] /\ call'[q] = call[q]
      /\ \A q \in Scopes, b \in Branches, k \in Keys :
            blocks'[q][b][k] = base(q, b, k)
                                 + (IF q = s /\ b = head /\ k \in t.shown THEN 1 ELSE 0)
  BY <1>1 DEF Applies, Outdated
<1>6. all[s].repeats \in [Branches -> Repeats] /\ unseen \in SUBSET Keys
  BY <1>2 DEF ScopeState, Unseen
<1>7. \A k \in Keys : Matches(r.repeats, k, base(s, head, k) + (IF k \in r.allowed THEN 1 ELSE 0))
  <2> TAKE k \in Keys
  <2>1. Matches(all[s].repeats[head], k, base(s, head, k)) /\ base(s, head, k) \in Nat
    BY <1>2, <1>4
  <2>2. all[s].repeats[head] \in Repeats
    BY <1>2, <1>6
  <2> HIDE DEF all, unseen, base
  <2> QED
    BY <1>2, <1>6, <2>1, <2>2, AllowedMatches
<1> HIDE DEF t, all, base, r
<1>8. ASSUME NEW q \in Scopes, NEW b \in Branches, NEW k \in Keys
      PROVE  Matches(state'[q].repeats[b], k, blocks'[q][b][k])
  <2>1. CASE q = s /\ b = head
    <3>1. state'[s].repeats[head] = r.repeats
      BY <1>1, <1>2, <1>3, <1>6
    <3>2. blocks'[s][head][k] = base(s, head, k) + (IF k \in r.allowed THEN 1 ELSE 0)
      BY <1>2, <1>3, <1>5
    <3> QED
      BY <1>7, <2>1, <3>1, <3>2
  <2>2. CASE ~(q = s /\ b = head)
    <3>1. state'[q].repeats[b] = all[q].repeats[b]
      BY <1>1, <1>2, <1>3, <1>5, <1>6, <2>2
    <3>2. blocks'[q][b][k] = base(q, b, k)
      BY <1>4, <1>5, <2>2
    <3> QED
      BY <1>4, <3>1, <3>2
  <2> QED
    BY <2>1, <2>2
<1>9. \A q \in Scopes : call'[q].pc # "read"
  BY <1>1, <1>5 DEF CountInv
<1> QED
  BY <1>8, <1>9

(* Every step keeps the counters in agreement with the blocks.             *)
LEMMA CountStep == TypeInv /\ CountInv /\ [Next]_vars => CountInv'
<1> SUFFICES ASSUME TypeInv, CountInv, [Next]_vars, failures' = 0
             PROVE  \A q \in Scopes :
                      /\ call'[q].pc # "read"
                      /\ \A b \in Branches, k \in Keys :
                            Matches(state'[q].repeats[b], k, blocks'[q][b][k])
  BY DEF CountInv, Matches
<1>1. /\ Branches # {} /\ Idle \in Calls /\ Idle.pc = "idle"
      /\ call \in [Scopes -> Calls] /\ failures \in Nat
  BY IdleIsCall, ConstantsAssumption DEF TypeInv, TypeOK
<1>2. ASSUME NEW s \in Scopes, ReadUnlocked(s) \/ LoseReply(s) PROVE FALSE
  BY <1>1, <1>2 DEF ReadUnlocked, LoseReply
<1>3. failures = 0
  <2>1. CASE UNCHANGED failures
    BY <2>1
  <2> QED
    BY <1>2, <2>1 DEF Next, Edit, Commit, Checkout, Worked, Tick, Scan, Update, WriteUnlocked, Reply, vars
<1>4. \A q \in Scopes :
        /\ call[q].pc # "read"
        /\ \A b \in Branches, k \in Keys : Matches(state[q].repeats[b], k, blocks[q][b][k])
  BY <1>3 DEF CountInv
<1>5. ASSUME UNCHANGED <<state, blocks>>, \A q \in Scopes : call'[q].pc \in {call[q].pc, "idle", "scanned"}
      PROVE  \A q \in Scopes :
               /\ call'[q].pc # "read"
               /\ \A b \in Branches, k \in Keys : Matches(state'[q].repeats[b], k, blocks'[q][b][k])
  BY <1>4, <1>5
<1>6. CASE UNCHANGED <<state, blocks, call>>
  BY <1>5, <1>6
<1>7. ASSUME NEW s \in Scopes, Scan(s) \/ Reply(s)
      PROVE  UNCHANGED <<state, blocks>>
             /\ \A q \in Scopes : call'[q].pc \in {call[q].pc, "idle", "scanned"}
  <2>1. CASE Scan(s)
    <3> DEFINE c == [Idle EXCEPT !.pc = "scanned", !.report = Report]
    <3>1. c.pc = "scanned"
      BY <1>1 DEF Calls
    <3>2. call' = [call EXCEPT ![s] = c] /\ UNCHANGED <<state, blocks>>
      BY <2>1 DEF Scan
    <3> HIDE DEF c
    <3> QED
      BY <1>1, <3>1, <3>2
  <2>2. CASE Reply(s)
    BY <1>1, <2>2 DEF Reply
  <2> QED
    BY <1>7, <2>1, <2>2
<1>8. ASSUME NEW s \in Scopes, WriteUnlocked(s) PROVE FALSE
  BY <1>4, <1>8 DEF WriteUnlocked
<1>9. ASSUME NEW s \in Scopes, Update(s)
      PROVE  \A q \in Scopes :
               /\ call'[q].pc # "read"
               /\ \A b \in Branches, k \in Keys : Matches(state'[q].repeats[b], k, blocks'[q][b][k])
  BY <1>3, <1>9, CountOfUpdate
<1> QED
  BY <1>2, <1>5, <1>6, <1>7, <1>8, <1>9
  DEF Next, Edit, Commit, Checkout, Worked, Tick, vars

(* The counters, and one expiry, bound the blocks.                         *)
LEMMA CountImplies == TypeInv /\ CountInv => BoundedNagging
<1> SUFFICES ASSUME TypeInv, CountInv, failures = 0,
                    NEW s \in Scopes, NEW b \in Branches, NEW k \in Keys
             PROVE  blocks[s][b][k] <= Limit + Again
  BY DEF BoundedNagging, Again
<1>1. Matches(state[s].repeats[b], k, blocks[s][b][k])
  BY DEF CountInv
<1>2. state[s].repeats[b].counts[k] \in Nat /\ Limit \in Nat /\ blocks[s][b][k] \in Nat
  BY ConstantsAssumption DEF TypeInv, ScopeState, Repeats
<1> QED
  BY <1>1, <1>2 DEF Matches, Again

(* However often a finding is fixed and comes back on the same lines, and  *)
(* for any repeat_limit and expiry, a session on a branch is blocked for   *)
(* it at most twice repeat_limit times, unless its scope expires or a lock *)
(* or a reply is lost (repeats.rs, retain_allowed).                        *)
THEOREM NaggingIsBounded == Spec => []BoundedNagging
BY TypeInit, TypeStep, CountInit, CountStep, CountImplies, PTL DEF Spec
=============================================================================
