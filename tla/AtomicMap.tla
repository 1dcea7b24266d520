----------------------------- MODULE AtomicMap -----------------------------
(***************************************************************************)
(* What a concurrent hash map promises: every call takes effect at one     *)
(* instant between its start and its return, on one map.                   *)
(***************************************************************************)
CONSTANTS Thread, Key, Value, None

VARIABLES
    map,     \* the value of each key, or None
    doing,   \* the call of each thread that has not taken effect, [kind, key, val], or None
    answer   \* what each thread's last call answered

vars == <<map, doing, answer>>

Begin(t, c) ==
    /\ doing[t] = None /\ doing' = [doing EXCEPT ![t] = c]
    /\ answer' = [answer EXCEPT ![t] = <<>>]
    /\ UNCHANGED map

\* The call of t takes effect: the map becomes m, and a is answered.
Effect(t, m, a) ==
    /\ map' = m
    /\ answer' = [answer EXCEPT ![t] = a]
    /\ doing' = [doing EXCEPT ![t] = None]

Take(t) == LET c == doing[t] k == c.key old == map[k] IN
    \/ /\ c.kind = "find"
       /\ Effect(t, map, IF old = None THEN <<"absent">> ELSE <<"found", old>>)
    \/ /\ c.kind = "erase"
       /\ Effect(t, [map EXCEPT ![k] = None], IF old = None THEN <<"absent">> ELSE <<"erased">>)
    \/ /\ c.kind \in {"insert", "upsert"}
       /\ IF old = None
          THEN Effect(t, [map EXCEPT ![k] = c.val], <<"inserted">>)
          ELSE Effect(t, map, IF c.kind = "insert" THEN <<"duplicate">> ELSE <<"found", old>>)
    \/ /\ c.kind = "update"
       /\ IF old = None THEN Effect(t, map, <<"absent">>)
                        ELSE Effect(t, [map EXCEPT ![k] = c.val], <<"found", old>>)
    \/ /\ c.kind = "clear"
       /\ Effect(t, [x \in Key |-> None], <<"cleared">>)
    \/ /\ c.kind = "walk"
       /\ Effect(t, map, <<"walked", {<<x, map[x]>> : x \in {y \in Key : map[y] # None}}>>)
    \/ /\ c.kind = "rehash"
       /\ \E changed \in BOOLEAN : Effect(t, map, <<"rehashed", changed>>)
    \* A map that may not grow refuses.
    \/ c.kind \in {"insert", "upsert", "rehash"} /\ Effect(t, map, <<"thrown">>)

Init ==
    /\ map \in [Key -> Value \cup {None}]
    /\ doing = [t \in Thread |-> None]
    /\ answer = [t \in Thread |-> <<>>]

Next == \E t \in Thread :
    \/ \E kind \in {"find", "erase", "insert", "upsert", "update", "clear", "walk", "rehash"},
          k \in Key, v \in Value : Begin(t, [kind |-> kind, key |-> k, val |-> v])
    \/ doing[t] # None /\ Take(t)

Spec == Init /\ [][Next]_vars

=============================================================================
