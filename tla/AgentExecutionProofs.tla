------------------------ MODULE AgentExecutionProofs ------------------------
(***************************************************************************)
(* The cache of seen commands and the order of stop(), for any commands,   *)
(* dispatcher workers, cache size and clock.                               *)
(***************************************************************************)
EXTENDS AgentExecution, FiniteSetTheorems, WellFoundedInduction, TLAPS

MapType == [Command -> Times \cup {NotSeen}]

\* The map and the list of a cache tell the same story.
Agree(map, list) ==
    /\ \A i \in 1 .. Len(list) : map[list[i].id] = list[i].at
    /\ \A c \in Command : map[c] # NotSeen => \E i \in 1 .. Len(list) : list[i].id = c
    /\ \A i, j \in 1 .. Len(list) : list[i].id = list[j].id => i = j

\* What erasing the first k entries leaves.
Dropped(map, list, k) == Without(map, Erased(map, list, k))

\* The cache with c marked now, before it is cut to its size.
Added(c) == [PrunedSeen EXCEPT ![c] = now]
Listed(c) == Append(PrunedOrder, [id |-> c, at |-> now])

-----------------------------------------------------------------------------
(* The operators of the cache.                                             *)

\* A bounded set of numbers has a least element, and Least finds it.
LEMMA LeastIsLeast ==
    ASSUME NEW n \in Nat, NEW S \in SUBSET (0 .. n), S # {}
    PROVE  Least(S) \in S /\ \A j \in S : Least(S) <= j
  <1>1. S \subseteq Nat OBVIOUS
  <1>2. PICK i \in S : \A j \in S : ~(<<j, i>> \in OpToRel(<, Nat))
       BY <1>1, WFMin, NatLessThanWellFounded, Zenon
  <1>3. \A j \in S : <<j, i>> \in OpToRel(<, Nat) <=> j < i
       BY <1>1, Zenon DEF OpToRel
  <1>4. \A j \in S : i <= j
    <2> TAKE j \in S
    <2>1. ~(j < i) BY <1>2, <1>3, Zenon
    <2> QED BY <1>1, <2>1
  <1> QED BY <1>4, Zenon DEF Least

\* The entries of a list.
LEMMA EntryFacts ==
    ASSUME NEW list \in Seq(Entry)
    PROVE  /\ Len(list) \in Nat
           /\ \A i \in 1 .. Len(list) :
                list[i] \in Entry /\ list[i].id \in Command /\ list[i].at \in Times
  <1>1. Len(list) \in Nat /\ \A i \in 1 .. Len(list) : list[i] \in Entry OBVIOUS
  <1> QED BY <1>1, Zenon DEF Entry

\* Erasing the first k entries removes just their commands, and what is left
\* still agrees.
LEMMA DropFront ==
    ASSUME NEW map \in MapType, NEW list \in Seq(Entry), Agree(map, list),
           NEW k \in 0 .. Len(list)
    PROVE  /\ Dropped(map, list, k) \in MapType
           /\ After(list, k) \in Seq(Entry) /\ Len(After(list, k)) = Len(list) - k
           /\ \A i \in 1 .. Len(list) - k : After(list, k)[i] = list[i + k]
           /\ \A c \in Command : Dropped(map, list, k)[c] =
                IF \E i \in 1 .. k : list[i].id = c THEN NotSeen ELSE map[c]
           /\ Agree(Dropped(map, list, k), After(list, k))
  <1> DEFINE m == Dropped(map, list, k)
             l == After(list, k)
  <1>1. Len(list) \in Nat /\ \A i \in 1 .. Len(list) :
            list[i] \in Entry /\ list[i].id \in Command /\ list[i].at \in Times
       BY EntryFacts, Zenon
  <1>2. m \in MapType BY Zenon DEF MapType, Dropped, Without
  <1>3. l \in Seq(Entry) /\ Len(l) = Len(list) - k
        /\ \A i \in 1 .. Len(list) - k : l[i] = list[i + k]
       BY <1>1 DEF After
  <1>4. \A c \in Command : c \in Erased(map, list, k) <=> \E i \in 1 .. k : list[i].id = c
    <2> TAKE c \in Command
    <2>1. ASSUME NEW i \in 1 .. k, list[i].id = c PROVE list[i] = [id |-> c, at |-> map[c]]
      <3>1. list[i].at = map[c] /\ list[i] \in Entry BY <1>1, <2>1 DEF Agree
      <3> QED BY <2>1, <3>1, Zenon DEF Entry
    <2> QED BY <2>1 DEF Erased
  <1>5. \A c \in Command : m[c] = IF \E i \in 1 .. k : list[i].id = c THEN NotSeen ELSE map[c]
       BY <1>4, Zenon DEF Dropped, Without
  <1>6. \A i \in 1 .. Len(l) : m[l[i].id] = l[i].at
    <2> TAKE i \in 1 .. Len(l)
    <2>1. l[i] = list[i + k] /\ i + k \in 1 .. Len(list) BY <1>1, <1>3
    <2>2. ~\E j \in 1 .. k : list[j].id = l[i].id BY <1>1, <2>1 DEF Agree
    <2> QED BY <1>1, <1>5, <2>1, <2>2, SMTT(60) DEF Agree
  <1>7. \A c \in Command : m[c] # NotSeen => \E i \in 1 .. Len(l) : l[i].id = c
    <2> SUFFICES ASSUME NEW c \in Command, m[c] # NotSeen
                 PROVE  \E i \in 1 .. Len(l) : l[i].id = c
        BY Zenon
    <2>1. m[c] = map[c] /\ ~\E i \in 1 .. k : list[i].id = c BY <1>5, Zenon
    <2>2. PICK i \in 1 .. Len(list) : list[i].id = c BY <2>1, Zenon DEF Agree
    <2>3. i - k \in 1 .. Len(l) /\ (i - k) + k = i BY <1>1, <1>3, <2>1, <2>2
    <2> QED BY <1>3, <2>2, <2>3, Zenon
  <1>8. \A i, j \in 1 .. Len(l) : l[i].id = l[j].id => i = j
    <2> TAKE i, j \in 1 .. Len(l)
    <2>1. /\ l[i] = list[i + k] /\ i + k \in 1 .. Len(list)
          /\ l[j] = list[j + k] /\ j + k \in 1 .. Len(list) BY <1>1, <1>3
    <2> QED BY <1>1, <1>3, <2>1 DEF Agree
  <1> QED BY <1>2, <1>3, <1>5, <1>6, <1>7, <1>8, Zenon DEF Agree

\* A map is as large as the list it agrees with.
LEMMA SizeIsLength ==
    ASSUME NEW map \in MapType, NEW list \in Seq(Entry), Agree(map, list)
    PROVE  Size(map) = Len(list)
  <1> DEFINE S == {c \in Command : map[c] # NotSeen}
             f == [i \in 1 .. Len(list) |-> list[i].id]
  <1>1. Len(list) \in Nat /\ \A i \in 1 .. Len(list) : list[i].id \in Command /\ list[i].at \in Times
       BY EntryFacts, Zenon
  <1>2. f \in [1 .. Len(list) -> S]
    <2>1. \A i \in 1 .. Len(list) : map[list[i].id] # NotSeen
         BY <1>1 DEF Agree, Times, NotSeen
    <2> QED BY <1>1, <2>1, Zenon
  <1>3. f \in Bijection(1 .. Len(list), S)
    <2>1. \A i, j \in 1 .. Len(list) : f[i] = f[j] => i = j BY Zenon DEF Agree
    <2>2. \A c \in S : \E i \in 1 .. Len(list) : f[i] = c BY Zenon DEF Agree
    <2> QED BY <1>2, <2>1, <2>2, Zenon DEF Bijection, Injection, Surjection, IsInjective
  <1>4. IsFiniteSet(1 .. Len(list)) /\ Cardinality(1 .. Len(list)) = Len(list)
    <2> DEFINE n == Len(list)
    <2>1. n \in Nat BY <1>1, Zenon
    <2> HIDE DEF n
    <2>2. /\ IsFiniteSet(1 .. n)
          /\ Cardinality(1 .. n) = IF 1 > n THEN 0 ELSE n - 1 + 1
         BY <2>1, FS_Interval
    <2>3. (IF 1 > n THEN 0 ELSE n - 1 + 1) = n BY <2>1
    <2> QED BY <2>2, <2>3 DEF n
  <1>5. ExistsBijection(1 .. Len(list), S) BY <1>3, Zenon DEF ExistsBijection
  <1>6. Cardinality(S) = Len(list) BY <1>4, <1>5, FS_Bijection, Zenon
  <1> QED BY <1>6, Zenon DEF Size

\* One entry too many makes just the oldest leave.
LEMMA EvictsOne ==
    ASSUME NEW map \in MapType, NEW list \in Seq(Entry), Agree(map, list), Len(list) <= MaxSeen + 1
    PROVE  Evictable(map, list) = IF Len(list) <= MaxSeen THEN 0 ELSE 1
  <1> DEFINE S == {k \in 0 .. Len(list) : \/ k = Len(list)
                                          \/ Size(Without(map, Erased(map, list, k))) <= MaxSeen}
  <1>1. Len(list) \in Nat /\ MaxSeen \in Nat \ {0} BY ExecutionAssumption
  <1>2. \A k \in 0 .. Len(list) : Size(Without(map, Erased(map, list, k))) = Len(list) - k
    <2> TAKE k \in 0 .. Len(list)
    <2> HIDE DEF S
    <2>1. /\ Dropped(map, list, k) \in MapType /\ After(list, k) \in Seq(Entry)
          /\ Agree(Dropped(map, list, k), After(list, k)) /\ Len(After(list, k)) = Len(list) - k
         BY DropFront
    <2>2. Size(Dropped(map, list, k)) = Len(list) - k BY <2>1, SizeIsLength, Zenon
    <2> QED BY <2>2, Zenon DEF Dropped
  <1>3. \A k \in 0 .. Len(list) : k \in S <=> k = Len(list) \/ Len(list) - k <= MaxSeen
       BY <1>2, Zenon
  <1>4. Len(list) \in S /\ S \in SUBSET (0 .. Len(list)) BY <1>1
  <1> HIDE DEF S
  <1>5. Least(S) \in S /\ \A j \in S : Least(S) <= j BY <1>1, <1>4, LeastIsLeast, Zenon
  <1>6. Least(S) = IF Len(list) <= MaxSeen THEN 0 ELSE 1
    <2> DEFINE n == Len(list)
               k == Least(S)
    <2>1. n \in Nat /\ n <= MaxSeen + 1 /\ MaxSeen \in Nat \ {0} BY <1>1, Zenon
    <2>2. k \in 0 .. n /\ (k = n \/ n - k <= MaxSeen) BY <1>3, <1>4, <1>5, Zenon
    <2>3. \A j \in 0 .. n : n - j <= MaxSeen => k <= j BY <1>3, <1>5, Zenon
    <2> HIDE DEF n, k
    <2>4. CASE n <= MaxSeen
      <3>1. k <= 0 BY <2>1, <2>3, <2>4
      <3> QED BY <2>1, <2>2, <2>4, <3>1 DEF n, k
    <2>5. CASE ~(n <= MaxSeen)
      <3>1. n = MaxSeen + 1 BY <2>1, <2>5
      <3>2. 1 \in 0 .. n /\ n - 1 <= MaxSeen BY <2>1, <3>1
      <3>3. k <= 1 BY <2>3, <3>2, Zenon
      <3>4. k = 1 BY <2>1, <2>2, <3>1, <3>3
      <3> QED BY <2>5, <3>4, Zenon DEF n, k
    <2> QED BY <2>4, <2>5, Zenon
  <1> QED BY <1>6, Zenon DEF S, Evictable

-----------------------------------------------------------------------------
(* The invariant.                                                          *)

\* Without a running worker there is nothing to run; stop() goes on to the
\* worker only when the dispatcher is idle.
Quiet ==
    /\ phase \in {"off", "stopping"} => DispatcherIdle
    /\ phase \in {"off", "opened", "cleared"} => queue = <<>> /\ job = Idle

\* A cached command beyond its ttl has lapsed.
Lapse == \A c \in Command : seen[c] # NotSeen /\ now - seen[c] >= Ttl => lapsed[c]

\* Every entry behind a command was marked after it.
Ahead == \A i \in 1 .. Len(order) : others[order[i].id] >= Len(order) - i

\* A command is forgotten for one of two reasons.
Forgotten ==
    \A c \in Command : seen[c] = NotSeen /\ marks[c] > 0 => lapsed[c] \/ others[c] >= MaxSeen

CacheInv == CacheAgrees /\ Lapse /\ Ahead /\ Forgotten
IInv == TypeOK /\ Quiet /\ CacheInv

\* The entries that pruning takes from the front have lapsed.
LEMMA PruneFacts ==
    ASSUME TypeOK, CacheAgrees
    PROVE  /\ Prunable \in 0 .. Len(order)
           /\ \A i \in 1 .. Prunable : now - order[i].at >= Ttl
           /\ PrunedSeen \in MapType /\ PrunedOrder \in Seq(Entry)
           /\ Len(PrunedOrder) = Len(order) - Prunable
           /\ \A i \in 1 .. Len(order) - Prunable : PrunedOrder[i] = order[i + Prunable]
           /\ \A c \in Command : PrunedSeen[c] =
                IF \E i \in 1 .. Prunable : order[i].id = c THEN NotSeen ELSE seen[c]
           /\ Agree(PrunedSeen, PrunedOrder)
  <1> DEFINE S == {k \in 0 .. Len(order) : k = Len(order) \/ ~Outdated(order[k + 1])}
  <1>1. Len(order) \in Nat /\ seen \in MapType /\ order \in Seq(Entry) /\ Agree(seen, order)
       BY DEF TypeOK, MapType, CacheAgrees, Agree
  <1>2. S \in SUBSET (0 .. Len(order)) /\ Len(order) \in S BY <1>1
  <1>3. Prunable \in S /\ \A j \in S : Prunable <= j
    <2>1. Least(S) \in S /\ \A j \in S : Least(S) <= j
      <3> HIDE DEF S
      <3> QED BY <1>1, <1>2, LeastIsLeast, Zenon
    <2> QED BY <2>1, Zenon DEF Prunable
  <1>4. Prunable \in 0 .. Len(order) BY <1>2, <1>3, Zenon
  <1>5. \A i \in 1 .. Prunable : now - order[i].at >= Ttl
    <2> TAKE i \in 1 .. Prunable
    <2>1. i - 1 \in 0 .. Len(order) /\ i - 1 # Len(order) /\ (i - 1) + 1 = i /\ ~(Prunable <= i - 1)
         BY <1>1, <1>4
    <2>2. i - 1 \notin S BY <1>3, <2>1, Zenon
    <2>3. Outdated(order[i]) BY <2>1, <2>2, Zenon
    <2>4. seen[order[i].id] = order[i].at BY <1>1, <1>4 DEF Agree
    <2> QED BY <2>3, <2>4, Zenon DEF Outdated
  <1> HIDE DEF S
  <1>6. /\ Dropped(seen, order, Prunable) \in MapType
        /\ After(order, Prunable) \in Seq(Entry) /\ Len(After(order, Prunable)) = Len(order) - Prunable
        /\ \A i \in 1 .. Len(order) - Prunable : After(order, Prunable)[i] = order[i + Prunable]
        /\ \A c \in Command : Dropped(seen, order, Prunable)[c] =
             IF \E i \in 1 .. Prunable : order[i].id = c THEN NotSeen ELSE seen[c]
        /\ Agree(Dropped(seen, order, Prunable), After(order, Prunable))
       BY <1>1, <1>4, DropFront, Zenon
  <1>7. PrunedSeen = Dropped(seen, order, Prunable) /\ PrunedOrder = After(order, Prunable)
       BY Zenon DEF PrunedSeen, PrunedOrder, Dropped
  <1> HIDE DEF Prunable, PrunedSeen, PrunedOrder
  <1> QED BY <1>4, <1>5, <1>6, <1>7, Zenon

\* What pruning forgets has lapsed, and the rest keeps its place.
LEMMA PruneKeeps ==
    ASSUME TypeOK, CacheInv
    PROVE  /\ \A c \in Command : PrunedSeen[c] # NotSeen => PrunedSeen[c] = seen[c]
           /\ \A i \in 1 .. Len(PrunedOrder) : others[PrunedOrder[i].id] >= Len(PrunedOrder) - i
           /\ \A c \in Command : PrunedSeen[c] = NotSeen /\ marks[c] > 0 =>
                lapsed[c] \/ others[c] >= MaxSeen
           /\ Len(PrunedOrder) <= MaxSeen
  <1> USE PruneFacts DEF CacheInv
  <1>1. Len(order) \in Nat /\ Len(order) <= MaxSeen /\ MaxSeen \in Nat /\ order \in Seq(Entry)
       BY ExecutionAssumption, SMTT(60), Zenon DEF TypeOK, CacheAgrees
  <1>2. \A c \in Command : PrunedSeen[c] # NotSeen => PrunedSeen[c] = seen[c] BY Zenon
  <1>3. ASSUME NEW i \in 1 .. Len(PrunedOrder)
        PROVE  others[PrunedOrder[i].id] >= Len(PrunedOrder) - i
    <2>1. i + Prunable \in 1 .. Len(order) /\ PrunedOrder[i] = order[i + Prunable] BY <1>1
    <2>2. others[order[i + Prunable].id] >= Len(order) - (i + Prunable) BY <2>1, Zenon DEF Ahead
    <2>3. Len(order) - (i + Prunable) = Len(PrunedOrder) - i
      <3> DEFINE n == Len(order)
                 k == Prunable
      <3>1. Len(PrunedOrder) = n - k /\ n \in Nat /\ k \in 0 .. n /\ i \in Nat BY <1>1
      <3> HIDE DEF n, k
      <3>2. n - (i + k) = (n - k) - i BY <3>1
      <3> QED BY <3>1, <3>2, Zenon DEF n, k
    <2> QED BY <2>1, <2>2, <2>3, Zenon
  <1>4. ASSUME NEW c \in Command, PrunedSeen[c] = NotSeen, marks[c] > 0
        PROVE  lapsed[c] \/ others[c] >= MaxSeen
    <2>1. CASE seen[c] = NotSeen BY <1>4, <2>1, Zenon DEF Forgotten
    <2>2. CASE seen[c] # NotSeen
      <3>1. PICK i \in 1 .. Prunable : order[i].id = c BY <1>4, <2>2, Zenon
      <3>2. i \in 1 .. Len(order) /\ now - order[i].at >= Ttl BY <1>1
      <3>3. seen[c] = order[i].at BY <3>1, <3>2, Zenon DEF CacheAgrees
      <3> QED BY <2>2, <3>2, <3>3, Zenon DEF Lapse
    <2> QED BY <2>1, <2>2, Zenon
  <1>5. Len(PrunedOrder) <= MaxSeen BY <1>1
  <1> QED BY <1>2, <1>3, <1>4, <1>5, Zenon

\* The cache with one more command, before it is cut.
LEMMA AddFacts ==
    ASSUME TypeOK, CacheInv, NEW c \in Command, PrunedSeen[c] = NotSeen
    PROVE  /\ Added(c) \in MapType /\ Listed(c) \in Seq(Entry) /\ Agree(Added(c), Listed(c))
           /\ Len(Listed(c)) = Len(PrunedOrder) + 1
           /\ \A i \in 1 .. Len(PrunedOrder) : Listed(c)[i] = PrunedOrder[i] /\ PrunedOrder[i].id # c
           /\ Listed(c)[Len(PrunedOrder) + 1] = [id |-> c, at |-> now]
  <1>1. PrunedSeen \in MapType /\ PrunedOrder \in Seq(Entry) /\ Agree(PrunedSeen, PrunedOrder)
       BY PruneFacts, Zenon DEF CacheInv
  <1> HIDE DEF PrunedSeen, PrunedOrder
  <1>2. now \in Times /\ [id |-> c, at |-> now] \in Entry /\ Len(PrunedOrder) \in Nat
       BY <1>1 DEF TypeOK, Entry
  <1>3. Added(c) \in MapType /\ \A d \in Command : Added(c)[d] = IF d = c THEN now ELSE PrunedSeen[d]
       BY <1>1, <1>2, Zenon DEF MapType, Added
  <1>4. /\ Listed(c) \in Seq(Entry) /\ Len(Listed(c)) = Len(PrunedOrder) + 1
        /\ \A i \in 1 .. Len(PrunedOrder) : Listed(c)[i] = PrunedOrder[i]
        /\ Listed(c)[Len(PrunedOrder) + 1] = [id |-> c, at |-> now]
       BY <1>1, <1>2 DEF Listed
  <1>5. \A i \in 1 .. Len(PrunedOrder) : PrunedOrder[i].id \in Command /\ PrunedOrder[i].id # c
    <2> TAKE i \in 1 .. Len(PrunedOrder)
    <2>1. PrunedOrder[i] \in Entry BY <1>1
    <2>2. PrunedOrder[i].id \in Command /\ PrunedOrder[i].at \in Times BY <2>1, Zenon DEF Entry
    <2>3. PrunedSeen[PrunedOrder[i].id] # NotSeen BY <1>1, <2>2 DEF Agree, Times, NotSeen
    <2> QED BY <2>2, <2>3, Zenon
  <1> DEFINE n == Len(PrunedOrder)
             l == Listed(c)
             m == Added(c)
  <1>6. \A i \in 1 .. Len(l) : m[l[i].id] = l[i].at
    <2> TAKE i \in 1 .. Len(l)
    <2>1. CASE i = n + 1 BY <1>3, <1>4, <2>1
    <2>2. CASE i \in 1 .. n BY <1>1, <1>3, <1>4, <1>5, <2>2 DEF Agree
    <2> QED BY <1>2, <1>4, <2>1, <2>2
  <1>7. ASSUME NEW d \in Command, m[d] # NotSeen PROVE \E i \in 1 .. Len(l) : l[i].id = d
    <2>1. CASE d = c
      <3>1. n + 1 \in 1 .. Len(l) /\ l[n + 1].id = c BY <1>2, <1>4
      <3> QED BY <2>1, <3>1, Zenon
    <2>2. CASE d # c
      <3>1. PICK i \in 1 .. n : PrunedOrder[i].id = d BY <1>1, <1>3, <1>7, <2>2, Zenon DEF Agree
      <3> QED BY <1>2, <1>4, <3>1
    <2> QED BY <2>1, <2>2, Zenon
  <1>8. \A i, j \in 1 .. Len(l) : l[i].id = l[j].id => i = j
    <2> TAKE i, j \in 1 .. Len(l)
    <2>1. (i = n + 1 \/ i \in 1 .. n) /\ (j = n + 1 \/ j \in 1 .. n) BY <1>2, <1>4
    <2>2. l[n + 1].id = c BY <1>4
    <2> QED BY <1>1, <1>4, <1>5, <2>1, <2>2 DEF Agree
  <1>9. Agree(m, l)
    <2> HIDE DEF l, m
    <2> QED BY <1>6, <1>7, <1>8, Zenon DEF Agree
  <1> QED BY <1>3, <1>4, <1>5, <1>9, Zenon

-----------------------------------------------------------------------------
(* mark_command_seen keeps the cache in order.                             *)

\* A duplicate leaves the pruned cache.
LEMMA DuplicateStep ==
    ASSUME TypeOK, CacheInv, seen' = PrunedSeen, order' = PrunedOrder, UNCHANGED <<history, now>>
    PROVE  CacheInv' /\ seen' \in MapType /\ order' \in Seq(Entry)
  <1>1. PrunedSeen \in MapType /\ PrunedOrder \in Seq(Entry) /\ Agree(PrunedSeen, PrunedOrder)
       BY PruneFacts, Zenon DEF CacheInv
  <1>2. /\ \A c \in Command : PrunedSeen[c] # NotSeen => PrunedSeen[c] = seen[c]
        /\ \A i \in 1 .. Len(PrunedOrder) : others[PrunedOrder[i].id] >= Len(PrunedOrder) - i
        /\ \A c \in Command : PrunedSeen[c] = NotSeen /\ marks[c] > 0 => lapsed[c] \/ others[c] >= MaxSeen
        /\ Len(PrunedOrder) <= MaxSeen
       BY PruneKeeps, Zenon
  <1> HIDE DEF PrunedSeen, PrunedOrder
  <1>3. CacheAgrees' BY <1>1, <1>2, Zenon DEF Agree, CacheAgrees
  <1>4. Lapse' BY <1>2, Zenon DEF CacheInv, Lapse, history
  <1>5. Ahead' BY <1>2, Zenon DEF Ahead, history
  <1>6. Forgotten' BY <1>2, Zenon DEF Forgotten, history
  <1> QED BY <1>1, <1>3, <1>4, <1>5, <1>6, Zenon DEF CacheInv

\* A new command goes to the end, and the oldest leaves a full cache.
LEMMA FreshStep ==
    ASSUME TypeOK, CacheInv, NEW c \in Command, PrunedSeen[c] = NotSeen, now' = now, Mark(c),
           seen' = Dropped(Added(c), Listed(c), Evictable(Added(c), Listed(c))),
           order' = After(Listed(c), Evictable(Added(c), Listed(c)))
    PROVE  CacheInv' /\ seen' \in MapType /\ order' \in Seq(Entry)
  <1> DEFINE m == Added(c)
             l == Listed(c)
             k == Evictable(m, l)
             n == Len(PrunedOrder)
  <1>1. /\ m \in MapType /\ l \in Seq(Entry) /\ Agree(m, l) /\ Len(l) = n + 1
        /\ \A i \in 1 .. n : l[i] = PrunedOrder[i] /\ PrunedOrder[i].id # c
        /\ l[n + 1] = [id |-> c, at |-> now]
       BY AddFacts, Zenon
  <1>2. /\ \A d \in Command : PrunedSeen[d] # NotSeen => PrunedSeen[d] = seen[d]
        /\ \A i \in 1 .. n : others[PrunedOrder[i].id] >= n - i
        /\ \A d \in Command : PrunedSeen[d] = NotSeen /\ marks[d] > 0 => lapsed[d] \/ others[d] >= MaxSeen
        /\ n <= MaxSeen
       BY PruneKeeps, Zenon
  <1>3. PrunedSeen \in MapType /\ PrunedOrder \in Seq(Entry) BY PruneFacts, Zenon DEF CacheInv
  <1>4. n \in Nat /\ MaxSeen \in Nat \ {0} /\ Ttl \in Nat \ {0} BY <1>3, ExecutionAssumption
  <1>5. \A d \in Command : m[d] = IF d = c THEN now ELSE PrunedSeen[d]
       BY <1>3, Zenon DEF Added, MapType
  <1> HIDE DEF PrunedSeen, PrunedOrder, m, l, n
  <1>6. k = (IF n + 1 <= MaxSeen THEN 0 ELSE 1) /\ k \in 0 .. Len(l)
    <2>1. Len(l) <= MaxSeen + 1 BY <1>1, <1>2, <1>4
    <2>2. k = IF Len(l) <= MaxSeen THEN 0 ELSE 1 BY <1>1, <2>1, EvictsOne, Zenon
    <2> HIDE DEF k
    <2> QED BY <1>1, <1>4, <2>2
  <1>7. seen' = Dropped(m, l, k) /\ order' = After(l, k) BY Zenon DEF m, l
  <1> HIDE DEF k
  <1>8. /\ seen' \in MapType /\ order' \in Seq(Entry) /\ Len(order') = n + 1 - k
        /\ \A i \in 1 .. n + 1 - k : order'[i] = l[i + k]
        /\ \A d \in Command : seen'[d] = IF \E i \in 1 .. k : l[i].id = d THEN NotSeen ELSE m[d]
        /\ Agree(seen', order')
    <2>1. m \in MapType /\ l \in Seq(Entry) /\ Agree(m, l) /\ k \in 0 .. Len(l) BY <1>1, <1>6,
                                                                                   Zenon
    <2>2. /\ Dropped(m, l, k) \in MapType
          /\ After(l, k) \in Seq(Entry) /\ Len(After(l, k)) = Len(l) - k
          /\ \A i \in 1 .. Len(l) - k : After(l, k)[i] = l[i + k]
          /\ \A d \in Command : Dropped(m, l, k)[d] =
               IF \E i \in 1 .. k : l[i].id = d THEN NotSeen ELSE m[d]
          /\ Agree(Dropped(m, l, k), After(l, k))
         BY <2>1, DropFront, Zenon
    <2>3. Len(l) - k = n + 1 - k BY <1>1, <1>4, <1>6
    <2>4. Len(order') = n + 1 - k /\ \A i \in 1 .. n + 1 - k : order'[i] = l[i + k]
         BY <1>7, <2>2, <2>3, Zenon
    <2> QED BY <1>7, <2>2, <2>4, Zenon
  <1>9. /\ marks' = [marks EXCEPT ![c] = @ + 1] /\ lapsed' = [lapsed EXCEPT ![c] = FALSE]
        /\ \A d \in Command : others'[d] = IF d = c THEN 0 ELSE IF others[d] < MaxSeen THEN others[d] + 1
                                                        ELSE MaxSeen
        /\ \A d \in Command : others[d] \in 0 .. MaxSeen
        /\ marks \in [Command -> Nat] /\ lapsed \in [Command -> BOOLEAN] /\ now \in Nat
       BY DEF Mark, TypeOK, Times
  <1>10. \A i \in 1 .. n : PrunedOrder[i].id \in Command BY <1>3, EntryFacts, Zenon DEF n
  <1>11. CacheAgrees'
    <2>1. n + 1 - k <= MaxSeen BY <1>2, <1>4, <1>6
    <2> QED BY <1>8, <2>1, Zenon DEF Agree, CacheAgrees
  <1>12. seen'[c] = now
    <2>1. \A i \in 1 .. k : i \in 1 .. n BY <1>4, <1>6
    <2> QED BY <1>1, <1>5, <1>8, <2>1
  <1>13. Lapse'
    <2> SUFFICES ASSUME NEW d \in Command, seen'[d] # NotSeen, now - seen'[d] >= Ttl PROVE lapsed'[d]
        BY Zenon DEF Lapse
    <2>1. d # c BY <1>4, <1>9, <1>12
    <2>2. seen'[d] = seen[d] BY <1>2, <1>5, <1>8, <2>1, Zenon
    <2> QED BY <1>9, <2>1, <2>2, Zenon DEF CacheInv, Lapse
  <1>14. \A i \in 1 .. n : others'[PrunedOrder[i].id] >= n + 1 - i
    <2> TAKE i \in 1 .. n
    <2>1. PrunedOrder[i].id # c /\ others[PrunedOrder[i].id] >= n - i BY <1>1, <1>2, Zenon
    <2>2. n + 1 - i <= MaxSeen BY <1>2, <1>4
    <2> DEFINE o == others[PrunedOrder[i].id]
    <2>3. o \in 0 .. MaxSeen /\ others'[PrunedOrder[i].id] = IF o < MaxSeen THEN o + 1 ELSE MaxSeen
         BY <1>9, <1>10, <2>1, Zenon
    <2>4. o >= n - i BY <2>1, Zenon
    <2> HIDE DEF o
    <2>5. CASE o < MaxSeen
      <3>1. o + 1 >= n + 1 - i BY <1>4, <2>3, <2>4
      <3> QED BY <2>3, <2>5, <3>1, Zenon
    <2>6. CASE ~(o < MaxSeen)
      <3>1. MaxSeen >= n + 1 - i BY <1>4, <2>2, Zenon
      <3> QED BY <2>3, <2>6, <3>1, Zenon
    <2> QED BY <2>5, <2>6, Zenon
  <1>15. Ahead'
    <2>1. Len(order') = n + 1 - k BY <1>8, Zenon
    <2> SUFFICES \A i \in 1 .. n + 1 - k : others'[order'[i].id] >= n + 1 - k - i
      <3>1. \A i \in Nat : (n + 1 - k) - i = n + 1 - k - i BY <1>4, <1>6
      <3>2. \A i \in 1 .. n + 1 - k : i \in Nat OBVIOUS
      <3> QED BY <2>1, <3>1, <3>2, Zenon DEF Ahead
    <2> TAKE i \in 1 .. n + 1 - k
    <2>2. order'[i] = l[i + k] BY <1>8, Zenon
    <2>3. CASE i + k = n + 1
      <3>1. order'[i] = [id |-> c, at |-> now] BY <1>1, <2>2, <2>3, Zenon
      <3>2. order'[i].id = c /\ others'[c] = 0 BY <1>9, <3>1
      <3> QED BY <1>4, <1>6, <2>3, <3>2
    <2>4. CASE i + k \in 1 .. n
      <3>1. others'[order'[i].id] >= n + 1 - (i + k) BY <1>1, <1>14, <2>2, <2>4, Zenon
      <3>2. n + 1 - (i + k) = n + 1 - k - i BY <1>4, <1>6
      <3> QED BY <3>1, <3>2, Zenon
    <2> QED BY <1>4, <1>6, <2>3, <2>4
  <1>16. Forgotten'
    <2> SUFFICES ASSUME NEW d \in Command, seen'[d] = NotSeen, marks'[d] > 0
                 PROVE  lapsed'[d] \/ others'[d] >= MaxSeen
        BY Zenon DEF Forgotten
    <2>1. d # c BY <1>9, <1>12 DEF NotSeen
    <2>2. CASE PrunedSeen[d] = NotSeen
      <3>1. lapsed[d] \/ others[d] >= MaxSeen BY <1>2, <1>9, <2>1, <2>2, Zenon
      <3> QED BY <1>4, <1>9, <2>1, <3>1
    <2>3. CASE PrunedSeen[d] # NotSeen
      <3>1. PICK i \in 1 .. k : l[i].id = d BY <1>5, <1>8, <2>1, <2>3, Zenon
      <3>2. i = 1 /\ 1 \in 1 .. n /\ n = MaxSeen BY <1>2, <1>4, <1>6
      <3>3. PrunedOrder[1].id = d BY <1>1, <3>1, <3>2, Zenon
      <3> QED BY <1>4, <1>14, <3>2, <3>3
    <2> QED BY <2>2, <2>3, Zenon
  <1> QED BY <1>8, <1>11, <1>13, <1>15, <1>16, Zenon DEF CacheInv

\* mark_command_seen is one of the two.
LEMMA MarkStep ==
    ASSUME TypeOK, CacheInv, NEW w \in Worker, mark_command_seen(w)
    PROVE  CacheInv' /\ seen' \in MapType /\ order' \in Seq(Entry)
  <1>1. hand[w] \in Command /\ now' = now BY Zenon DEF TypeOK, mark_command_seen
  <1>2. CASE PrunedSeen[hand[w]] # NotSeen
    <2>1. seen' = PrunedSeen /\ order' = PrunedOrder /\ UNCHANGED <<history, now>>
         BY <1>1, <1>2, Zenon DEF mark_command_seen
    <2> QED BY <2>1, DuplicateStep, Zenon
  <1>3. CASE PrunedSeen[hand[w]] = NotSeen
    <2>1. /\ seen' = Dropped(Added(hand[w]), Listed(hand[w]), Evictable(Added(hand[w]), Listed(hand[w])))
          /\ order' = After(Listed(hand[w]), Evictable(Added(hand[w]), Listed(hand[w])))
          /\ Mark(hand[w])
         BY <1>3, Zenon DEF mark_command_seen, Added, Listed, Dropped
    <2> QED BY <1>1, <1>3, <2>1, FreshStep, Zenon
  <1> QED BY <1>2, <1>3, Zenon

-----------------------------------------------------------------------------
(* Induction.                                                              *)

\* The cache starts empty.
LEMMA InitIInv == Init => IInv
  <1> SUFFICES ASSUME Init PROVE IInv BY Zenon
  <1> USE ExecutionAssumption
  <1>1. TypeOK BY DEF Init, TypeOK, Times, Entry, NotSeen
  <1>2. Quiet BY Zenon DEF Init, Quiet, DispatcherIdle
  <1>3. CacheInv BY DEF Init, CacheInv, CacheAgrees, Lapse, Ahead, Forgotten
  <1> QED BY <1>1, <1>2, <1>3, Zenon DEF IInv

\* The types, part by part.
RunType ==
    /\ phase \in {"off", "opened", "cleared", "up", "closing", "stopping"}
    /\ starts \in 0 .. MaxStarts /\ now \in Times /\ copies \in [Command -> 0 .. MaxCopies]
WorkType == queue \in Seq(Command) /\ job \in Command \cup {Idle}
InboxType == inbox \in [Worker -> Seq(Command)] /\ \A w \in Worker : Len(inbox[w]) <= Capacity
HandType == hand \in [Worker -> Command \cup {Idle}] /\ step \in [Worker -> {"ack", "mark", "enqueue"}]
CacheType == seen \in MapType /\ order \in Seq(Entry)
HistoryType ==
    /\ marks \in [Command -> Nat] /\ lapsed \in [Command -> BOOLEAN]
    /\ others \in [Command -> 0 .. MaxSeen]

\* Together they are the type invariant.
LEMMA TypeParts ==
    TypeOK <=> RunType /\ WorkType /\ InboxType /\ HandType /\ CacheType /\ HistoryType
  BY Zenon DEF TypeOK, RunType, WorkType, InboxType, HandType, CacheType, HistoryType, MapType

\* Every step keeps the types of the runtime, ...
LEMMA RunTypeStep == ASSUME RunType, [Next]_vars PROVE RunType'
  <1> USE ExecutionAssumption DEF RunType
  <1>1. CASE StartChannel \/ StartWorker \/ StopChannel \/ StopDispatcher \/ StopWorker \/ ClearSeen
       BY <1>1 DEF StartChannel, StartWorker, StopChannel, StopDispatcher, StopWorker, ClearSeen
  <1>2. ASSUME NEW c \in Command, on_message(c) PROVE RunType'
    <2>1. copies[c] + 1 \in 0 .. MaxCopies BY <1>2 DEF on_message
    <2>2. copies' = [copies EXCEPT ![c] = copies[c] + 1] BY <1>2, Zenon DEF on_message
    <2>3. copies' \in [Command -> 0 .. MaxCopies] BY <2>1, <2>2, Zenon
    <2> QED BY <1>2, <2>3, Zenon DEF on_message
  <1>3. ASSUME NEW w \in Worker, Take(w) \/ send_command_ack(w) \/ mark_command_seen(w) \/ enqueue(w)
        PROVE  RunType'
       BY <1>3, Zenon DEF Take, send_command_ack, mark_command_seen, enqueue
  <1>4. CASE TakeJob \/ FinishJob \/ Clock \/ UNCHANGED vars
       BY <1>4, Zenon DEF TakeJob, FinishJob, Clock, vars
  <1> QED BY <1>1, <1>2, <1>3, <1>4, Zenon DEF Next

\* ... the execution worker, ...
LEMMA WorkTypeStep == ASSUME WorkType, HandType, [Next]_vars PROVE WorkType'
  <1> USE DEF WorkType, worker
  <1>1. CASE StartChannel \/ StartWorker \/ StopChannel \/ StopDispatcher \/ StopWorker \/ ClearSeen
    <2>1. queue' \in {queue, <<>>} /\ job' = job
         BY <1>1, Zenon DEF StartChannel, StartWorker, StopChannel, StopDispatcher, StopWorker,
            ClearSeen
    <2>2. <<>> \in Seq(Command) OBVIOUS
    <2> QED BY <2>1, <2>2, Zenon
  <1>2. ASSUME NEW c \in Command, on_message(c) PROVE WorkType' BY <1>2, Zenon DEF on_message
  <1>3. ASSUME NEW w \in Worker, Take(w) \/ send_command_ack(w) \/ mark_command_seen(w)
        PROVE  WorkType'
       BY <1>3, Zenon DEF Take, send_command_ack, mark_command_seen
  <1>4. ASSUME NEW w \in Worker, enqueue(w) PROVE WorkType'
    <2>1. hand[w] \in Command BY <1>4, Zenon DEF HandType, enqueue
    <2> QED BY <1>4, <2>1 DEF enqueue
  <1>5. CASE TakeJob
    <2>1. Head(queue) \in Command /\ Tail(queue) \in Seq(Command) BY <1>5 DEF TakeJob
    <2> QED BY <1>5, <2>1, Zenon DEF TakeJob
  <1>6. CASE FinishJob \/ Clock \/ UNCHANGED vars BY <1>6, Zenon DEF FinishJob, Clock, vars
  <1> QED BY <1>1, <1>2, <1>3, <1>4, <1>5, <1>6, Zenon DEF Next

\* ... the dispatcher's queues, ...
LEMMA InboxTypeStep == ASSUME InboxType, [Next]_vars PROVE InboxType'
  <1> USE ExecutionAssumption
  <1>1. ASSUME NEW c \in Command, on_message(c) PROVE InboxType'
    <2> DEFINE w == PickWorker[c]
    <2>1. w \in Worker /\ inbox[w] \in Seq(Command) BY Zenon DEF InboxType
    <2>2. /\ Append(inbox[w], c) \in Seq(Command) /\ Len(inbox[w]) \in Nat
          /\ Len(Append(inbox[w], c)) = Len(inbox[w]) + 1
         BY <2>1
    <2>3. \/ inbox' = inbox
          \/ Len(inbox[w]) < Capacity /\ inbox' = [inbox EXCEPT ![w] = Append(inbox[w], c)]
         BY <1>1, Zenon DEF on_message
    <2>4. Len(inbox[w]) < Capacity => Len(Append(inbox[w], c)) <= Capacity BY <2>2
    <2> HIDE DEF w
    <2>5. CASE inbox' = inbox BY <2>5, Zenon DEF InboxType
    <2>6. CASE Len(inbox[w]) < Capacity /\ inbox' = [inbox EXCEPT ![w] = Append(inbox[w], c)]
      <3> DEFINE s == Append(inbox[w], c)
      <3>1. s \in Seq(Command) /\ Len(s) <= Capacity /\ inbox' = [inbox EXCEPT ![w] = s]
           BY <2>2, <2>4, <2>6, Zenon
      <3> HIDE DEF s
      <3> QED BY <2>1, <3>1, Zenon DEF InboxType
    <2> QED BY <2>3, <2>5, <2>6, Zenon
  <1>2. ASSUME NEW w \in Worker, Take(w) PROVE InboxType'
    <2>1. inbox[w] \in Seq(Command) /\ inbox[w] # <<>> /\ Len(inbox[w]) <= Capacity
         BY <1>2, Zenon DEF InboxType, Take
    <2>2. /\ Tail(inbox[w]) \in Seq(Command) /\ Len(inbox[w]) \in Nat
          /\ Len(Tail(inbox[w])) = Len(inbox[w]) - 1
         BY <2>1
    <2>3. Len(Tail(inbox[w])) <= Capacity BY <2>1, <2>2
    <2>4. inbox' = [inbox EXCEPT ![w] = Tail(inbox[w])] BY <1>2, Zenon DEF Take
    <2> QED BY <2>2, <2>3, <2>4, Zenon DEF InboxType
  <1>3. ASSUME inbox' = inbox PROVE InboxType' BY <1>3, Zenon DEF InboxType
  <1>4. ASSUME NEW w \in Worker, send_command_ack(w) \/ mark_command_seen(w) \/ enqueue(w)
        PROVE  inbox' = inbox
       BY <1>4, Zenon DEF send_command_ack, mark_command_seen, enqueue, Done, Proceed
  <1>5. ASSUME \/ StartChannel \/ StartWorker \/ StopChannel \/ StopDispatcher \/ StopWorker \/ ClearSeen
               \/ TakeJob \/ FinishJob \/ Clock \/ UNCHANGED vars
        PROVE  inbox' = inbox
       BY <1>5, Zenon DEF StartChannel, StartWorker, StopChannel, StopDispatcher, StopWorker,
          ClearSeen, TakeJob, FinishJob, Clock, vars, dispatcher
  <1> QED BY <1>1, <1>2, <1>3, <1>4, <1>5, Zenon DEF Next

\* ... its workers, ...
LEMMA HandTypeStep == ASSUME InboxType, HandType, [Next]_vars PROVE HandType'
  <1> USE DEF dispatcher
  <1>1. ASSUME NEW w \in Worker, Take(w) PROVE HandType'
    <2>1. inbox[w] \in Seq(Command) /\ inbox[w] # <<>> BY <1>1, Zenon DEF InboxType, Take
    <2>2. Head(inbox[w]) \in Command BY <2>1
    <2> QED BY <1>1, <2>2, Zenon DEF HandType, Take
  <1>2. ASSUME NEW w \in Worker, send_command_ack(w) \/ mark_command_seen(w) \/ enqueue(w) PROVE HandType'
    <2>1. Done(w) \/ \E s \in {"mark", "enqueue"} : Proceed(w, s)
         BY <1>2, Zenon DEF send_command_ack, mark_command_seen, enqueue
    <2> QED BY <2>1, Zenon DEF HandType, Done, Proceed
  <1>3. ASSUME NEW c \in Command, on_message(c) PROVE HandType' BY <1>3, Zenon DEF HandType,
                                                                   on_message
  <1>4. CASE \/ StartChannel \/ StartWorker \/ StopChannel \/ StopDispatcher \/ StopWorker \/ ClearSeen
             \/ TakeJob \/ FinishJob \/ Clock \/ UNCHANGED vars
       BY <1>4, Zenon DEF HandType, StartChannel, StartWorker, StopChannel, StopDispatcher,
          StopWorker, ClearSeen, TakeJob, FinishJob, Clock, vars
  <1> QED BY <1>1, <1>2, <1>3, <1>4, Zenon DEF Next

\* ... and of the cache and its history.
LEMMA CacheTypeStep == ASSUME TypeOK, CacheInv, [Next]_vars PROVE CacheType' /\ HistoryType'
  <1> USE ExecutionAssumption DEF cache, history
  <1>1. HandType /\ CacheType /\ HistoryType BY TypeParts, Zenon
  <1>2. ASSUME NEW w \in Worker, mark_command_seen(w) PROVE CacheType' /\ HistoryType'
    <2>1. CacheType' BY <1>2, MarkStep, Zenon DEF CacheType
    <2>2. hand[w] \in Command BY <1>1, <1>2, Zenon DEF HandType, mark_command_seen
    <2>3. Mark(hand[w]) \/ UNCHANGED history BY <1>2, Zenon DEF mark_command_seen
    <2>4. CASE UNCHANGED history BY <1>1, <2>1, <2>4, Zenon DEF HistoryType
    <2>5. CASE Mark(hand[w])
      <3>1. marks' \in [Command -> Nat] BY <1>1, <2>2, <2>5 DEF HistoryType, Mark
      <3>2. lapsed' \in [Command -> BOOLEAN] BY <1>1, <2>2, <2>5, Zenon DEF HistoryType, Mark
      <3>3. others' \in [Command -> 0 .. MaxSeen] BY <1>1, <2>2, <2>5 DEF HistoryType, Mark
      <3> QED BY <2>1, <3>1, <3>2, <3>3, Zenon DEF HistoryType
    <2> QED BY <2>3, <2>4, <2>5, Zenon
  <1>3. CASE ClearSeen
    <2>1. CacheType' BY <1>3 DEF CacheType, MapType, ClearSeen
    <2>2. HistoryType' BY <1>3 DEF HistoryType, ClearSeen
    <2> QED BY <2>1, <2>2, Zenon
  <1>4. CASE Clock
    <2>1. \A c \in Command : (lapsed[c] \/ (seen[c] # NotSeen /\ now' - seen[c] >= Ttl)) \in BOOLEAN
         BY Zenon
    <2>2. lapsed' \in [Command -> BOOLEAN] BY <1>4, <2>1, Zenon DEF Clock
    <2> QED BY <1>1, <1>4, <2>2, Zenon DEF CacheType, HistoryType, Clock
  <1>5. CASE \/ StartChannel \/ StartWorker \/ StopChannel \/ StopDispatcher \/ StopWorker
             \/ TakeJob \/ FinishJob \/ UNCHANGED vars
       BY <1>1, <1>5, Zenon DEF CacheType, HistoryType, StartChannel, StartWorker, StopChannel,
          StopDispatcher, StopWorker, TakeJob, FinishJob, vars
  <1>6. ASSUME NEW c \in Command, on_message(c) PROVE CacheType' /\ HistoryType'
       BY <1>1, <1>6, Zenon DEF CacheType, HistoryType, on_message
  <1>7. ASSUME NEW w \in Worker, Take(w) \/ send_command_ack(w) \/ enqueue(w)
        PROVE  CacheType' /\ HistoryType'
       BY <1>1, <1>7, Zenon DEF CacheType, HistoryType, Take, send_command_ack, enqueue
  <1> QED BY <1>2, <1>3, <1>4, <1>5, <1>6, <1>7, Zenon DEF Next

\* Every step keeps the types.
LEMMA TypeStep == ASSUME TypeOK, CacheInv, [Next]_vars PROVE TypeOK'
  <1>1. RunType /\ WorkType /\ InboxType /\ HandType BY TypeParts, Zenon
  <1>2. RunType' /\ WorkType' /\ InboxType' /\ HandType' /\ CacheType' /\ HistoryType'
       BY <1>1, RunTypeStep, WorkTypeStep, InboxTypeStep, HandTypeStep, CacheTypeStep, Zenon
  <1>3. TypeOK' <=> (RunType /\ WorkType /\ InboxType /\ HandType /\ CacheType /\ HistoryType)'
       BY Zenon DEF TypeOK, RunType, WorkType, InboxType, HandType, CacheType, HistoryType, MapType
  <1> QED BY <1>2, <1>3, Zenon

\* Only what stop() has joined is over, and it stays over.
LEMMA QuietStep == ASSUME TypeOK, Quiet, [Next]_vars PROVE Quiet'
  <1> USE ExecutionAssumption DEF dispatcher, cache, worker, history, Quiet, DispatcherIdle
  <1>1. CASE StartChannel \/ StartWorker \/ StopChannel \/ StopDispatcher \/ StopWorker \/ ClearSeen
       BY <1>1, Zenon DEF StartChannel, StartWorker, StopChannel, StopDispatcher, StopWorker,
          ClearSeen
  <1>2. ASSUME NEW c \in Command, on_message(c) PROVE Quiet'
       BY <1>2, Zenon DEF on_message, ChannelUp
  <1>3. ASSUME NEW w \in Worker, Take(w) \/ send_command_ack(w) \/ mark_command_seen(w) \/ enqueue(w)
        PROVE  Quiet'
    <2>1. phase' = phase /\ job' = job /\ ~DispatcherIdle
         BY <1>3, Zenon DEF Take, send_command_ack, mark_command_seen, enqueue
    <2>2. phase \in {"opened", "cleared"} => queue' = queue
         BY <1>3, Zenon DEF Take, send_command_ack, mark_command_seen, enqueue
    <2> QED BY <2>1, <2>2, Zenon
  <1>4. CASE TakeJob \/ FinishJob BY <1>4, Zenon DEF TakeJob, FinishJob, WorkerRuns
  <1>5. CASE Clock \/ UNCHANGED vars BY <1>5, Zenon DEF Clock, vars
  <1> QED BY <1>1, <1>2, <1>3, <1>4, <1>5, Zenon DEF Next

\* Only mark_command_seen, the clock and start() touch the cache's facts.
LEMMA CacheStep == ASSUME TypeOK, CacheInv, [Next]_vars PROVE CacheInv'
  <1>1. CASE ClearSeen
    <2>1. CacheAgrees' /\ Lapse' /\ Ahead' /\ Forgotten'
         BY <1>1, ExecutionAssumption DEF ClearSeen, CacheAgrees, Lapse, Ahead, Forgotten
    <2> QED BY <2>1, Zenon DEF CacheInv
  <1>2. ASSUME NEW w \in Worker, mark_command_seen(w) PROVE CacheInv'
       BY <1>2, MarkStep, Zenon
  <1>3. CASE Clock
    <2>1. UNCHANGED <<seen, order, marks, others>>
          /\ \A c \in Command : lapsed'[c] = (lapsed[c] \/ (seen[c] # NotSeen /\ now' - seen[c] >= Ttl))
         BY <1>3, Zenon DEF Clock, cache
    <2>2. CacheAgrees' /\ Ahead' BY <2>1, Zenon DEF CacheInv, CacheAgrees, Ahead
    <2>3. Lapse' BY <2>1, Zenon DEF Lapse
    <2>4. Forgotten' BY <2>1, Zenon DEF CacheInv, Forgotten
    <2> QED BY <2>2, <2>3, <2>4, Zenon DEF CacheInv
  <1>4. ASSUME UNCHANGED <<seen, order, now, marks, lapsed, others>> PROVE CacheInv'
       BY <1>4, Zenon DEF CacheInv, CacheAgrees, Lapse, Ahead, Forgotten
  <1> USE DEF cache, history
  <1>5. CASE \/ StartChannel \/ StartWorker \/ StopChannel \/ StopDispatcher \/ StopWorker
             \/ TakeJob \/ FinishJob \/ UNCHANGED vars
       BY <1>4, <1>5, Zenon DEF StartChannel, StartWorker, StopChannel, StopDispatcher,
          StopWorker, TakeJob, FinishJob, vars
  <1>6. ASSUME NEW c \in Command, on_message(c) PROVE CacheInv' BY <1>4, <1>6, Zenon
                                                                   DEF on_message
  <1>7. ASSUME NEW w \in Worker, Take(w) \/ send_command_ack(w) \/ enqueue(w) PROVE CacheInv'
       BY <1>4, <1>7, Zenon DEF Take, send_command_ack, enqueue
  <1> QED BY <1>1, <1>2, <1>3, <1>5, <1>6, <1>7, Zenon DEF Next

\* The inductive invariant holds throughout.
THEOREM Inductive == Spec => []IInv
  <1>1. IInv /\ [Next]_vars => IInv' BY TypeStep, QuietStep, CacheStep, Zenon DEF IInv
  <1> QED BY <1>1, InitIInv, PTL DEF Spec

\* Every variable keeps its type, and a dispatcher queue its capacity.
THEOREM TypeCorrect == Spec => []TypeOK
  <1>1. IInv => TypeOK BY Zenon DEF IInv
  <1> QED BY <1>1, Inductive, PTL

\* The map and the list of the cache agree after any history of duplicates,
\* expiries, clock jumps and evictions, and stay within the cache's size.
THEOREM CacheAgreesHolds == Spec => []CacheAgrees
  <1>1. IInv => CacheAgrees BY Zenon DEF IInv, CacheInv
  <1> QED BY <1>1, Inductive, PTL

\* When stop() has returned nothing of the old life is left to run.
THEOREM QuietWhenOffHolds == Spec => []QuietWhenOff
  <1>1. IInv => QuietWhenOff BY Zenon DEF IInv, Quiet, QuietWhenOff
  <1> QED BY <1>1, Inductive, PTL

\* A redelivered command is taken for new only when its ttl has lapsed or
\* MaxSeen other commands were marked since.
THEOREM RerunNeedsEvictionHolds == Spec => RerunNeedsEviction
  <1> DEFINE Rerun == \A c \in Command : marks[c] > 0 /\ marks'[c] > marks[c] =>
                          lapsed[c] \/ others[c] >= MaxSeen
  <1>1. ASSUME IInv, [Next]_vars PROVE Rerun
    <2>1. TypeOK /\ CacheInv BY <1>1, Zenon DEF IInv
    <2> SUFFICES ASSUME NEW c \in Command, marks[c] > 0, marks'[c] > marks[c]
                 PROVE  lapsed[c] \/ others[c] >= MaxSeen
        BY Zenon
    <2> USE DEF history
    <2>2. marks \in [Command -> Nat] BY <2>1, Zenon DEF TypeOK
    <2>3. marks' # marks BY <2>2
    <2>4. ~ClearSeen BY <2>2 DEF ClearSeen
    <2>5. PICK w \in Worker : mark_command_seen(w)
         BY <1>1, <2>3, <2>4 DEF Next, vars, StartChannel, StartWorker, StopChannel, StopDispatcher, StopWorker,
            on_message, Take, send_command_ack, enqueue, TakeJob, FinishJob, Clock
    <2>6. PrunedSeen[hand[w]] = NotSeen /\ Mark(hand[w])
         BY <2>3, <2>5, Zenon DEF mark_command_seen
    <2>7. hand[w] = c BY <2>2, <2>6 DEF Mark
    <2>8. \A d \in Command : PrunedSeen[d] = NotSeen /\ marks[d] > 0 => lapsed[d] \/ others[d] >= MaxSeen
         BY <2>1, PruneKeeps, Zenon
    <2> QED BY <2>6, <2>7, <2>8, Zenon
  <1> QED BY <1>1, Inductive, PTL DEF Spec, RerunNeedsEviction
=============================================================================
