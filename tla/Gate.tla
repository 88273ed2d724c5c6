-------------------------------- MODULE Gate --------------------------------
(***************************************************************************)
(* The end-of-turn gate (src/src/mcp/gate.rs): a session's Stop hook calls *)
(* it, it scans the session's diff and blocks the turn if the report holds *)
(* a finding the session has to look at.  What a session was already shown *)
(* is kept per session (a scope) in .sensez/gate/state.json, which all     *)
(* sensez processes rewrite under a lock, or without it once waiting for   *)
(* the lock took too long.  A finding that keeps coming back on the same   *)
(* lines is deferred: for a while the first time, for good the second.     *)
(***************************************************************************)
EXTENDS Integers

CONSTANTS
    Scopes,       \* sessions
    Branches,     \* git branches
    Findings,     \* fingerprints: identities without line numbers
    Lines,        \* where a finding can stand
    Limit,        \* gate.repeat_limit
    DeferExpiry,  \* DEFER_EXPIRY_SECS
    ScopeTTL,     \* SCOPE_TTL_SECS
    MaxClock,     \* bound: time
    MaxEdits,     \* bound: edits, commits and checkouts
    Brief,        \* bound: the sessions that call the gate only once
    MaxFailures   \* bound: lock timeouts and lost replies

ASSUME ConstantsAssumption ==
    /\ 0 \notin Lines /\ Brief \subseteq Scopes
    /\ Limit \in Nat /\ DeferExpiry \in Nat \ {0} /\ ScopeTTL \in Nat \ {0}
    /\ MaxClock \in Nat \ {0} /\ MaxEdits \in Nat /\ MaxFailures \in Nat

VARIABLES
    place,     \* the line of each finding on each branch, 0 if it has none
    changed,   \* findings whose lines the working tree's diff touches
    head,      \* the branch checked out
    clock,     \* the time
    edits,     \* how many edits, commits and checkouts happened
    state,     \* state.json
    call,      \* the gate call of each session
    over,      \* the brief sessions that called
    told,      \* history: findings whose block reached the session
    standing,  \* history: findings blocked since the last change of the work
    blocks,    \* history: how often a session was blocked for a place
    gone,      \* history: findings that an edit took out of the source
    lost,      \* history: sessions that lost a reply
    failures   \* history: lock timeouts and lost replies

work == <<place, changed, head, edits>>
vars == <<work, clock, state, call, over, told, standing, blocks, gone, lost, failures>>

Keys == Findings \X Lines       \* a repeat key: the finding and its lines
Ids(keys) == {k[1] : k \in keys}
None == 0                       \* not deferred
Forever == -1                   \* deferred with no expiry

FreshRepeats == [counts |-> [k \in Keys |-> 0], until |-> [k \in Keys |-> None], expired |-> {}]
FreshScope == [updated |-> 0, blocked |-> {}, resolved |-> {},
               repeats |-> [b \in Branches |-> FreshRepeats]]
Idle == [pc |-> "idle", report |-> {}, branch |-> CHOOSE b \in Branches : TRUE, now |-> 0,
         copy |-> [s \in Scopes |-> FreshScope], shown |-> {}, regressed |-> {}]

TypeOK ==
    /\ place \in [Branches -> [Findings -> Lines \cup {0}]]
    /\ changed \in SUBSET Findings
    /\ head \in Branches /\ clock \in 1 .. MaxClock /\ edits \in 0 .. MaxEdits
    /\ \A s \in Scopes :
         /\ state[s].updated \in 0 .. MaxClock
         /\ state[s].blocked \in SUBSET Findings /\ state[s].resolved \in SUBSET Findings
         /\ state[s].blocked \cap state[s].resolved = {}
         /\ call[s].report \in SUBSET Keys /\ call[s].shown \in SUBSET call[s].report
    /\ failures \in 0 .. MaxFailures

Init ==
    /\ place \in [Branches -> [Findings -> Lines \cup {0}]]
    /\ changed \in SUBSET Findings
    /\ head \in Branches
    /\ clock = 1 /\ edits = 0 /\ failures = 0
    /\ state = [s \in Scopes |-> FreshScope]
    /\ call = [s \in Scopes |-> Idle]
    /\ told = [s \in Scopes |-> {}] /\ standing = [s \in Scopes |-> {}]
    /\ gone = {} /\ lost = {} /\ over = {}
    /\ blocks = [s \in Scopes |-> [b \in Branches |-> [k \in Keys |-> 0]]]

-----------------------------------------------------------------------------
(* The work: an edit of a finding's lines moves it, fixes it or brings it  *)
(* back; a commit takes everything out of the diff (changed_vs_head).      *)

Worked ==
    /\ edits < MaxEdits
    /\ edits' = edits + 1
    /\ standing' = [s \in Scopes |-> {}]
    /\ UNCHANGED <<clock, state, call, over, told, blocks, lost, failures>>

Edit ==
    /\ Worked
    /\ \E f \in Findings, l \in Lines \cup {0} :
         /\ place[head][f] # l \/ f \notin changed
         /\ place' = [place EXCEPT ![head][f] = l]
         /\ changed' = changed \cup {f}
         /\ gone' = IF l = 0 THEN gone \cup {f} ELSE gone
    /\ UNCHANGED head

Commit ==
    /\ Worked
    /\ changed # {} /\ changed' = {}
    /\ UNCHANGED <<place, head, gone>>

Checkout ==
    /\ Worked
    /\ head' \in Branches \ {head}
    /\ UNCHANGED <<place, changed, gone>>

Tick ==
    /\ clock < MaxClock
    /\ clock' = clock + 1
    /\ UNCHANGED <<work, state, call, over, told, standing, blocks, gone, lost, failures>>

-----------------------------------------------------------------------------
(* ScopeState::recall: what was blocked and is not reported any more       *)
(* counts as fixed; what was fixed and is reported again is back.          *)

Recall(st, current) ==
    LET resolved == st.resolved \cup (st.blocked \ current)
    IN  [back |-> resolved \cap current,
         scope |-> [st EXCEPT !.blocked = @ \cap current, !.resolved = resolved \ current]]

Expires(r, k, now) == r.until[k] > None /\ now >= r.until[k]

(* Variant: what is allowed does not count as a repeat.                    *)
RetainAllowedUncounted(r, keys, now) ==
    LET expiring == {k \in keys : Expires(r, k, now)}
        repeated == {k \in keys : r.until[k] = None /\ r.counts[k] >= Limit}
        held == {k \in keys \ expiring : r.until[k] # None}
        allowed == keys \ (repeated \cup held)
    IN  [allowed |-> allowed,
         repeats |->
           [counts |-> [k \in Keys |-> IF k \in expiring THEN 1
                                       ELSE IF k \in allowed THEN 0 ELSE r.counts[k]],
            until |-> [k \in Keys |->
               IF k \in expiring THEN None
               ELSE IF k \notin repeated THEN r.until[k]
               ELSE IF k \in r.expired THEN Forever ELSE now + DeferExpiry],
            expired |-> r.expired \cup expiring]]

(* retain_allowed: keep a finding unless it is deferred, or repeated often *)
(* enough to be deferred now.                                              *)
RetainAllowed(r, keys, now) ==
    LET expiring == {k \in keys : Expires(r, k, now)}
        repeated == {k \in keys : r.until[k] = None /\ r.counts[k] >= Limit}
        held == {k \in keys \ expiring : r.until[k] # None}
        allowed == keys \ (repeated \cup held)
    IN  [allowed |-> allowed,
         repeats |->
           [counts |-> [k \in Keys |-> IF k \in expiring THEN 1
                                       ELSE IF k \in allowed THEN r.counts[k] + 1 ELSE r.counts[k]],
            until |-> [k \in Keys |->
               IF k \in expiring THEN None
               ELSE IF k \notin repeated THEN r.until[k]
               ELSE IF k \in r.expired THEN Forever ELSE now + DeferExpiry],
            expired |-> r.expired \cup expiring]]

(* Variant: what is left replaces what was blocked.                        *)
TriageReplaces(st, report, branch, now) ==
    LET recalled == Recall(st, Ids(report))
        unseen == {k \in report : k[1] \notin recalled.scope.blocked}
        kept == RetainAllowed(st.repeats[branch], unseen, now)
    IN  [shown |-> kept.allowed,
         regressed |-> recalled.back \cap Ids(kept.allowed),
         scope |-> [recalled.scope EXCEPT
                      !.blocked = Ids(kept.allowed), !.repeats[branch] = kept.repeats]]

(* triage: prune what was blocked before, then what repeats, and remember  *)
(* what is left as blocked.                                                *)
Triage(st, report, branch, now) ==
    LET recalled == Recall(st, Ids(report))
        unseen == {k \in report : k[1] \notin recalled.scope.blocked}
        kept == RetainAllowed(st.repeats[branch], unseen, now)
    IN  [shown |-> kept.allowed,
         regressed |-> recalled.back \cap Ids(kept.allowed),
         scope |-> [recalled.scope EXCEPT
                      !.blocked = @ \cup Ids(kept.allowed), !.repeats[branch] = kept.repeats]]

(* Variant: all sessions share the scope that was updated last.            *)
RetainShared(st, now) ==
    LET last == CHOOSE q \in Scopes : \A r \in Scopes : st[q].updated >= st[r].updated
    IN  [s \in Scopes |-> IF now - st[last].updated < ScopeTTL THEN st[last] ELSE FreshScope]

(* The scopes that are not outdated; a missing scope is a fresh one.       *)
Retain(st, now) ==
    [s \in Scopes |-> IF now - st[s].updated < ScopeTTL THEN st[s] ELSE FreshScope]

-----------------------------------------------------------------------------
(* A gate call.  With nothing changed it allows the turn and leaves the    *)
(* state alone; the branch and the time are read after the scan.           *)

Report == {k \in Keys : k[1] \in changed /\ place[head][k[1]] = k[2]}

Scan(s) ==
    /\ call[s].pc = "idle"
    /\ changed # {}
    /\ s \notin over /\ over' = over \cup ({s} \cap Brief)
    /\ call' = [call EXCEPT ![s] = [Idle EXCEPT !.pc = "scanned", !.report = Report]]
    /\ UNCHANGED <<work, clock, state, told, standing, blocks, gone, lost, failures>>

(* apply the triage to `from`, what was read of state.json.                *)
Apply(s, from, now, branch) ==
    LET all == Retain(from, now)
        t == Triage(all[s], call[s].report, branch, now)
        ids == Ids(t.shown)
        fresh == {q \in Scopes : all[q] # from[q]}
    IN  /\ state' = [all EXCEPT ![s] = [t.scope EXCEPT !.updated = now]]
        /\ call' = [call EXCEPT ![s] =
              [Idle EXCEPT !.pc = "decided", !.report = call[s].report,
                           !.shown = t.shown, !.regressed = t.regressed]]
        /\ blocks' = [q \in Scopes |-> [b \in Branches |-> [k \in Keys |->
              (IF q \in fresh THEN 0 ELSE blocks[q][b][k])
                + (IF q = s /\ b = branch /\ k \in t.shown THEN 1 ELSE 0)]]]
        /\ standing' = [q \in Scopes |->
              (IF q \in fresh THEN {} ELSE standing[q]) \cup (IF q = s THEN ids ELSE {})]

Update(s) ==
    /\ call[s].pc = "scanned"
    /\ Apply(s, state, clock, head)
    /\ UNCHANGED <<work, clock, over, told, gone, lost, failures>>

(* Waiting for the lock took too long: read now, write later.              *)
ReadUnlocked(s) ==
    /\ call[s].pc = "scanned"
    /\ failures < MaxFailures
    /\ failures' = failures + 1
    /\ call' = [call EXCEPT ![s] = [@ EXCEPT !.pc = "read", !.copy = state, !.now = clock,
                                             !.branch = head]]
    /\ UNCHANGED <<work, clock, state, over, told, standing, blocks, gone, lost>>

WriteUnlocked(s) ==
    /\ call[s].pc = "read"
    /\ Apply(s, call[s].copy, call[s].now, call[s].branch)
    /\ UNCHANGED <<work, clock, over, told, gone, lost, failures>>

(* An empty report allows the turn, any other blocks it.                   *)
Reply(s) ==
    /\ call[s].pc = "decided"
    /\ told' = [told EXCEPT ![s] = @ \cup Ids(call[s].shown)]
    /\ call' = [call EXCEPT ![s] = Idle]
    /\ UNCHANGED <<work, clock, state, over, standing, blocks, gone, lost, failures>>

(* The request timed out meanwhile, or the process died.                   *)
LoseReply(s) ==
    /\ call[s].pc = "decided"
    /\ failures < MaxFailures
    /\ failures' = failures + 1
    /\ lost' = lost \cup {s}
    /\ call' = [call EXCEPT ![s] = Idle]
    /\ UNCHANGED <<work, clock, state, over, told, standing, blocks, gone>>

Next ==
    \/ Edit \/ Commit \/ Checkout \/ Tick
    \/ \E s \in Scopes :
         Scan(s) \/ Update(s) \/ ReadUnlocked(s) \/ WriteUnlocked(s) \/ Reply(s) \/ LoseReply(s)

Spec == Init /\ [][Next]_vars

-----------------------------------------------------------------------------
(* "The gate will not keep blocking the same unchanged work" (gate.rs):    *)
(* until a file, a commit or the branch changes, no session is blocked a   *)
(* second time for a finding, whatever other sessions do and however long  *)
(* it takes, short of its scope's expiry or a lost lock.                   *)
NoRepeatBlock ==
    [][\A s \in Scopes :
        (call[s].pc = "scanned" /\ call'[s].pc = "decided" /\ failures = 0
           /\ Retain(state, clock)[s] = state[s])
          => Ids(call'[s].shown) \cap standing[s] = {}]_vars

(* However often a finding is fixed and comes back on the same lines, a    *)
(* session on a branch is blocked for it at most twice repeat_limit times: *)
(* up to the limit, and after the one expiry of its deferral once more up  *)
(* to the limit (repeats.rs, retain_allowed), counted until the scope      *)
(* expires.                                                                *)
BoundedNagging ==
    failures = 0 => \A s \in Scopes, b \in Branches, k \in Keys :
        blocks[s][b][k] <= Limit + IF Limit = 0 THEN 1 ELSE Limit

(* A finding is never held back as already blocked from a session that was *)
(* not shown it: not because another session was, nor because it was       *)
(* deferred, nor by two calls that rewrite the state file without the      *)
(* lock.  Only a reply that never arrives breaks it.                       *)
SuppressedWasTold ==
    \A s \in Scopes \ lost : state[s].blocked \subseteq told[s] \cup Ids(call[s].shown)

(* A finding announced as a regression, one of the "identities that were   *)
(* blocked, fixed and are back" (gate_state.rs, recall), was once taken    *)
(* out of the source by an edit.                                           *)
RegressionWasFixed ==
    [][\A s \in Scopes :
        call[s].pc = "scanned" /\ call'[s].pc = "decided" => call'[s].regressed \subseteq gone]_vars
=============================================================================
