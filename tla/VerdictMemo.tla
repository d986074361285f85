---------------------------- MODULE VerdictMemo ----------------------------
(***************************************************************************)
(* What a caller of the verdict cache may rely on, without its two data    *)
(* structures: a lookup answers with the last result stored for the key if *)
(* that was at most TTL ago, and otherwise with a miss.  A result is       *)
(* forgotten early only when another key is stored into a full memory, and *)
(* then only one is.                                                       *)
(***************************************************************************)
EXTENDS Integers, FiniteSets

CONSTANTS Keys, Results, MaxSize, TTL, Horizon

VARIABLES memo,    \* key -> [result, storedAt], for the keys remembered
          reply,   \* what the last lookup answered: a set of at most one result
          now

memoVars == <<memo, reply, now>>

Fresh(k) == k \in DOMAIN memo /\ now - memo[k].storedAt <= TTL

Init ==
  /\ memo = [k \in {} |-> k]
  /\ reply = {}
  /\ now = 0

Remember(k, r) ==
  /\ \E gone \in SUBSET (DOMAIN memo \ {k}) :
       /\ Cardinality(gone) <= 1
       /\ gone # {} => k \notin DOMAIN memo /\ Cardinality(DOMAIN memo) >= MaxSize
       /\ memo' = [x \in (DOMAIN memo \ gone) \cup {k} |->
                     IF x = k THEN [result |-> r, storedAt |-> now] ELSE memo[x]]
  /\ UNCHANGED <<reply, now>>

Recall(k) ==
  /\ Fresh(k)
  /\ reply' = {memo[k].result}
  /\ UNCHANGED <<memo, now>>

\* A lookup that misses may drop the stale result of its key, and only that.
Forget(k) ==
  /\ ~Fresh(k)
  /\ reply' = {}
  /\ memo' = [x \in DOMAIN memo \ {k} |-> memo[x]]
  /\ UNCHANGED now

Tick ==
  /\ now < Horizon
  /\ now' = now + 1
  /\ UNCHANGED <<memo, reply>>

Next ==
  \/ \E k \in Keys :
       \/ Recall(k)
       \/ Forget(k)
       \/ \E r \in Results : Remember(k, r)
  \/ Tick

Spec == Init /\ [][Next]_memoVars
============================================================================
