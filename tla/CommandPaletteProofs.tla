----------------------- MODULE CommandPaletteProofs ------------------------
(***************************************************************************)
(* Proofs about CommandPalette for any queries, aliases, numbers of        *)
(* matches and size of the history: types, matches that are those of the   *)
(* input, a selection in range, a sound history, and browsing that keeps   *)
(* the text the user typed.                                                *)
(***************************************************************************)
EXTENDS CommandPalette, FoldLemmas

USE DEF Empty

----------------------------------------------------------------------------
(* The history without a query, as the last of the partial results of its  *)
(* fold.                                                                   *)

\* part is what Without has kept after each number of entries.
PartsOf(part, h, q) ==
  /\ part[0] = <<>>
  /\ \A k \in 0..(Len(h) - 1) : part[k + 1] = Keep(q, part[k], h[k + 1])
  /\ Without(h, q) = part[Len(h)]

\* There are such partial results.
LEMMA WithoutParts ==
  ASSUME NEW S, NEW h \in Seq(S), NEW q
  PROVE  \E part \in [0..Len(h) -> Seq(S)] : PartsOf(part, h, q)
<1> DEFINE A == Seq(S)
           Fold(f) == f = [s \in SUBSET (DOMAIN h) |->
                             IF s = {} THEN <<>> ELSE Keep(q, f[s \ {Max(s)}], h[Max(s)])]
           G == [z \in A \X S |-> Keep(q, z[1], z[2])]
<1>1. DOMAIN h = 1..Len(h) /\ Len(h) \in Nat
  OBVIOUS
<1>2. <<>> \in A /\ \A acc \in A, e \in S : Keep(q, acc, e) \in A
  BY DEF Keep
<1> HIDE DEF A
<1>3. G \in [A \X S -> A]
  BY <1>2
<1>4. PICK f \in [SUBSET (DOMAIN h) -> A] : FoldsWith(f, <<>>, h, G)
  <2> HIDE DEF G
  <2> QED BY <1>2, <1>3, FoldExists
<1>5. \A s \in SUBSET (DOMAIN h) : s # {} => h[Max(s)] \in S
  BY MaxElement, <1>1
<1>6. \A s \in SUBSET (DOMAIN h) : s # {} => <<f[s \ {Max(s)}], h[Max(s)]>> \in A \X S
  BY <1>5
<1>7. \A s \in SUBSET (DOMAIN h) : s # {} => f[s] = Keep(q, f[s \ {Max(s)}], h[Max(s)])
  BY <1>4, <1>6 DEF FoldsWith
<1>8. Fold(f)
  BY <1>4, <1>7 DEF FoldsWith
<1>9. Fold(CHOOSE g : Fold(g))
  <2> HIDE DEF Fold
  <2> QED BY <1>8
<1> DEFINE g == CHOOSE ff : Fold(ff)
<1>10. Without(h, q) = g[DOMAIN h]
  BY DEF Without, FoldLeft, MapThenFoldSet
<1> HIDE DEF g
<1>11. g = [s \in SUBSET (DOMAIN h) |->
              IF s = {} THEN <<>> ELSE Keep(q, g[s \ {Max(s)}], h[Max(s)])]
  BY <1>9 DEF g
<1> HIDE DEF Fold
<1>12. FoldsIn(g, A, <<>>, h, G)
  BY <1>5, <1>11 DEF FoldsIn
<1>13. PICK part \in [0..Len(h) -> A] :
         Partial(part, <<>>, h, G) /\ g[DOMAIN h] = part[Len(h)]
  <2> HIDE DEF G
  <2>1. <<>> \in A
    BY <1>2
  <2>2. HasParts(g, A, <<>>, h, G)
    BY <1>3, <1>12, <2>1, FoldParts
  <2>3. QED BY <2>2 DEF HasParts
<1>14. ASSUME NEW k \in 0..(Len(h) - 1) PROVE part[k + 1] = Keep(q, part[k], h[k + 1])
  <2>1. k \in 0..Len(h) /\ h[k + 1] \in S
    BY <1>1
  <2>2. <<part[k], h[k + 1]>> \in A \X S
    BY <2>1
  <2>3. QED BY <1>13, <2>2 DEF Partial
<1>15. PartsOf(part, h, q)
  BY <1>10, <1>13, <1>14 DEF Partial, PartsOf
<1>16. QED BY <1>15 DEF A

\* What is kept of a history without repetition: its other entries, each once.
LEMMA WithoutSound ==
  ASSUME NEW S, NEW h \in Seq(S), NEW q, IsInjective(h)
  PROVE  /\ Without(h, q) \in Seq(S) /\ IsInjective(Without(h, q))
         /\ Len(Without(h, q)) <= Len(h)
         /\ \A i \in 1..Len(Without(h, q)) :
              Without(h, q)[i] # q /\ Without(h, q)[i] \in Range(h)
<1>1. PICK part \in [0..Len(h) -> Seq(S)] : PartsOf(part, h, q)
  BY WithoutParts
<1>2. Len(h) \in Nat /\ DOMAIN h = 1..Len(h)
  OBVIOUS
<1> DEFINE Sound(k) ==
             /\ Len(part[k]) <= k
             /\ \A i \in 1..Len(part[k]) :
                  part[k][i] # q /\ \E j \in 1..k : part[k][i] = h[j]
             /\ \A i, j \in 1..Len(part[k]) : part[k][i] = part[k][j] => i = j
           T == {k \in 0..Len(h) : Sound(k)}
<1>3. 0 \in T
  BY <1>1, <1>2 DEF PartsOf
<1>4. ASSUME NEW k \in 0..(Len(h) - 1), k \in T PROVE k + 1 \in T
  <2>1. /\ k \in 0..Len(h) /\ k + 1 \in 0..Len(h) /\ k + 1 \in 1..Len(h)
        /\ part[k] \in Seq(S) /\ h[k + 1] \in S /\ k \in Nat
    BY <1>1, <1>2
  <2>2. part[k + 1] = Keep(q, part[k], h[k + 1])
    BY <1>1 DEF PartsOf
  <2>3. Sound(k)
    BY <1>4
  <2>4. \A j \in 1..k : j \in 1..(k + 1) /\ j \in 1..Len(h) /\ j # k + 1
    BY <1>2, <2>1
  <2>5. CASE h[k + 1] = q
    <3>1. part[k + 1] = part[k]
      BY <2>2, <2>5 DEF Keep
    <3>2. Len(part[k + 1]) <= k + 1
      BY <2>1, <2>3, <3>1
    <3>3. QED BY <2>1, <2>3, <2>4, <3>1, <3>2
  <2>6. CASE h[k + 1] # q
    <3>1. part[k + 1] = Append(part[k], h[k + 1])
      BY <2>2, <2>6 DEF Keep
    <3>2. Len(part[k + 1]) = Len(part[k]) + 1 /\ Len(part[k]) \in Nat
      BY <2>1, <3>1
    <3>3. \A i \in 1..Len(part[k]) : h[k + 1] # part[k][i]
      <4>1. \A j \in 1..k : h[j] # h[k + 1]
        BY <1>2, <2>1, <2>4 DEF IsInjective
      <4>2. QED BY <2>3, <4>1
    <3>4. \A i \in 1..Len(part[k + 1]) :
            \/ i \in 1..Len(part[k]) /\ part[k + 1][i] = part[k][i]
            \/ i = Len(part[k]) + 1 /\ part[k + 1][i] = h[k + 1]
      BY <2>1, <3>1, <3>2
    <3>5. Len(part[k + 1]) <= k + 1
      BY <2>1, <2>3, <3>2
    <3>6. ASSUME NEW i \in 1..Len(part[k + 1])
          PROVE  part[k + 1][i] # q /\ \E j \in 1..(k + 1) : part[k + 1][i] = h[j]
      <4>1. k + 1 \in 1..(k + 1)
        BY <2>1
      <4>2. QED BY <2>3, <2>4, <2>6, <3>4, <4>1
    <3>7. \A i, j \in 1..Len(part[k + 1]) : part[k + 1][i] = part[k + 1][j] => i = j
      BY <2>3, <3>3, <3>4
    <3>8. QED BY <2>1, <3>5, <3>6, <3>7
  <2>7. QED BY <2>5, <2>6
<1> HIDE DEF T
<1>5. Len(h) \in T
  BY <1>2, <1>3, <1>4, BoundedInduction
<1>6. Sound(Len(h)) /\ Without(h, q) = part[Len(h)] /\ Without(h, q) \in Seq(S)
  BY <1>1, <1>2, <1>5 DEF T, PartsOf
<1> DEFINE w == Without(h, q)
<1>7. /\ w \in Seq(S) /\ Len(w) <= Len(h)
      /\ \A i \in 1..Len(w) : w[i] # q /\ \E j \in 1..Len(h) : w[i] = h[j]
      /\ \A i, j \in 1..Len(w) : w[i] = w[j] => i = j
  BY <1>6
<1> HIDE DEF w
<1>8. DOMAIN w = 1..Len(w)
  BY <1>7
<1>9. IsInjective(w)
  BY <1>7, <1>8 DEF IsInjective
<1>10. \A i \in 1..Len(w) : w[i] \in Range(h)
  BY <1>2, <1>7 DEF Range
<1>11. QED BY <1>7, <1>9, <1>10 DEF w

\* A history that is sound: what HistorySound says of each.
SoundHistory(h) == IsInjective(h) /\ Len(h) <= MaxHistory /\ Empty \notin Range(h)

\* Every entry of a sequence is at a position.
LEMMA RangeAt ==
  ASSUME NEW S, NEW h \in Seq(S), NEW e
  PROVE  e \in Range(h) <=> \E i \in 1..Len(h) : h[i] = e
  BY DEF Range

\* The tail of a sound history is sound.
LEMMA TailSound ==
  ASSUME NEW S, NEW h \in Seq(S), h # <<>>, IsInjective(h), Empty \notin Range(h)
  PROVE  /\ Tail(h) \in Seq(S) /\ IsInjective(Tail(h)) /\ Empty \notin Range(Tail(h))
         /\ Len(Tail(h)) = Len(h) - 1
<1>1. /\ Tail(h) \in Seq(S) /\ Len(Tail(h)) = Len(h) - 1 /\ Len(h) \in Nat
      /\ DOMAIN h = 1..Len(h) /\ DOMAIN Tail(h) = 1..Len(Tail(h))
  OBVIOUS
<1>2. \A i \in 1..Len(Tail(h)) : i + 1 \in 1..Len(h) /\ Tail(h)[i] = h[i + 1] /\ i \in Nat
  BY <1>1
<1>3. IsInjective(Tail(h))
  <2>1. SUFFICES ASSUME NEW a \in 1..Len(Tail(h)), NEW b \in 1..Len(Tail(h)),
                        Tail(h)[a] = Tail(h)[b]
                 PROVE  a = b
    BY <1>1 DEF IsInjective
  <2>2. h[a + 1] = h[b + 1]
    BY <1>2, <2>1
  <2>3. a + 1 = b + 1
    BY <1>1, <1>2, <2>2 DEF IsInjective
  <2>4. QED BY <1>2, <2>3
<1>4. Empty \notin Range(Tail(h))
  <2>1. \A i \in 1..Len(h) : h[i] # Empty
    BY RangeAt
  <2>2. \A i \in 1..Len(Tail(h)) : Tail(h)[i] # Empty
    BY <1>2, <2>1
  <2>3. QED BY <1>1, <2>2, RangeAt
<1>5. QED BY <1>1, <1>3, <1>4

\* Remembering a query keeps a history sound.
LEMMA RememberSound ==
  ASSUME NEW h \in Seq(Queries), SoundHistory(h), NEW q \in Queries, q # Empty
  PROVE  Remember(h, q) \in Seq(Queries) /\ SoundHistory(Remember(h, q))
<1> DEFINE w == Without(h, q)
           kept == Append(w, q)
<1>1. /\ w \in Seq(Queries) /\ IsInjective(w) /\ Len(w) <= Len(h)
      /\ \A i \in 1..Len(w) : w[i] # q /\ w[i] \in Range(h)
  BY WithoutSound DEF SoundHistory
<1>2. Remember(h, q) = IF Len(kept) > MaxHistory THEN Tail(kept) ELSE kept
  BY DEF Remember
<1>3. MaxHistory \in Nat /\ Len(h) \in Nat /\ Len(h) <= MaxHistory
  BY PaletteAssumption DEF SoundHistory
<1> HIDE DEF w
<1>4. kept \in Seq(Queries) /\ Len(kept) = Len(w) + 1 /\ Len(w) \in Nat /\ kept # <<>>
  BY <1>1
<1>5. \A i \in 1..Len(kept) : \/ i \in 1..Len(w) /\ kept[i] = w[i]
                              \/ i = Len(w) + 1 /\ kept[i] = q
  BY <1>1
<1> HIDE DEF kept
<1>6. IsInjective(kept)
  <2>1. DOMAIN kept = 1..Len(kept) /\ DOMAIN w = 1..Len(w)
    BY <1>1, <1>4
  <2>2. \A a, b \in 1..Len(w) : w[a] = w[b] => a = b
    BY <1>1, <2>1 DEF IsInjective
  <2>3. \A a, b \in 1..Len(kept) : kept[a] = kept[b] => a = b
    BY <1>1, <1>5, <2>2
  <2>4. QED BY <2>1, <2>3 DEF IsInjective
<1>7. Empty \notin Range(kept)
  <2>1. \A i \in 1..Len(w) : w[i] # Empty
    BY <1>1 DEF SoundHistory
  <2>2. QED BY <1>4, <1>5, <2>1, RangeAt
<1>8. CASE Len(kept) > MaxHistory
  <2>1. /\ Tail(kept) \in Seq(Queries) /\ IsInjective(Tail(kept))
        /\ Empty \notin Range(Tail(kept)) /\ Len(Tail(kept)) = Len(kept) - 1
    BY <1>4, <1>6, <1>7, TailSound
  <2>2. Len(Tail(kept)) <= MaxHistory
    BY <1>1, <1>3, <1>4, <2>1
  <2>3. QED BY <1>2, <1>8, <2>1, <2>2 DEF SoundHistory
<1>9. CASE ~ (Len(kept) > MaxHistory)
  <2>1. Len(kept) <= MaxHistory
    BY <1>3, <1>4, <1>9
  <2>2. QED BY <1>2, <1>4, <1>6, <1>7, <1>9, <2>1 DEF SoundHistory
<1>10. QED BY <1>8, <1>9

\* A sound history is loaded as it is.
LEMMA LoadSound ==
  ASSUME NEW h \in Seq(Queries), SoundHistory(h)
  PROVE  load_state(h) = h
<1>1. MaxHistory \in Nat /\ Len(h) \in Nat /\ Len(h) <= MaxHistory
  BY PaletteAssumption DEF SoundHistory
<1>2. QED BY <1>1 DEF load_state

----------------------------------------------------------------------------
(* QueryHistory                                                            *)

\* A recall as the code keeps it: at most one entry, of its own history.
WellFormed(r) ==
  /\ r \in [history : Seq(Queries), cursor : SUBSET Nat, prefix : SUBSET Queries]
  /\ r.cursor \subseteq 0..(Len(r.history) - 1)
  /\ \A a, b \in r.cursor : a = b

\* validate_cursor would give up the recalled entry.
Stale(r, q) == \E pos \in r.cursor : r.history[pos + 1] # q

\* What validate_cursor returns.
LEMMA Validated ==
  ASSUME NEW r, WellFormed(r), NEW q
  PROVE  /\ WellFormed(validate_cursor(r, q))
         /\ validate_cursor(r, q).history = r.history
         /\ Stale(r, q) => /\ validate_cursor(r, q).cursor = {}
                           /\ validate_cursor(r, q).prefix = {}
         /\ ~ Stale(r, q) => validate_cursor(r, q) = r
  BY DEF WellFormed, Stale, validate_cursor, reset_cursor

\* The entry that previous or next finds is one of the history that starts with the
\* prefix, and becomes the recalled one; if there is none, the recall stays.
Found(c, r) ==
  /\ WellFormed(c.state) /\ c.state.history = r.history /\ c.state.prefix = r.prefix
  /\ \A e \in c.query : \E pos \in c.state.cursor :
       r.history[pos + 1] = e /\ IsPrefix(PrefixOf(r), e)
  /\ c.query = {} => c.state = r

\* A step to one of the entries that are left, none of which is another one.
LEMMA FoundOne ==
  ASSUME NEW r, WellFormed(r), NEW found,
         found \subseteq Entries(r, 0, Len(r.history) - 1), \A a, b \in found : a = b
  PROVE  Found([state |-> IF found = {} THEN r ELSE [r EXCEPT !.cursor = found],
                query |-> {r.history[i + 1] : i \in found}], r)
<1> DEFINE c == [state |-> IF found = {} THEN r ELSE [r EXCEPT !.cursor = found],
                 query |-> {r.history[i + 1] : i \in found}]
<1>1. r \in [history : Seq(Queries), cursor : SUBSET Nat, prefix : SUBSET Queries]
  BY DEF WellFormed
<1>2. /\ found \subseteq 0..(Len(r.history) - 1)
      /\ \A i \in found : IsPrefix(PrefixOf(r), r.history[i + 1])
  BY DEF Entries
<1>3. found \in SUBSET Nat
  BY <1>2
<1>4. CASE found = {}
  BY <1>4 DEF Found
<1>5. CASE found # {}
  <2>1. c.state = [r EXCEPT !.cursor = found] /\ c.query = {r.history[i + 1] : i \in found}
    BY <1>5
  <2>2. c.query # {}
    <3>1. PICK i \in found : TRUE
      BY <1>5
    <3>2. r.history[i + 1] \in c.query
      BY <2>1
    <3>3. QED BY <3>2
  <2>3. WellFormed([r EXCEPT !.cursor = found])
    BY <1>1, <1>2, <1>3 DEF WellFormed
  <2>4. /\ c.state.cursor = found /\ c.state.history = r.history
        /\ c.state.prefix = r.prefix
    BY <1>1, <2>1
  <2>5. ASSUME NEW e \in c.query
        PROVE  \E pos \in c.state.cursor :
                 r.history[pos + 1] = e /\ IsPrefix(PrefixOf(r), e)
    <3>1. PICK i \in found : r.history[i + 1] = e
      BY <2>1
    <3>2. IsPrefix(PrefixOf(r), r.history[i + 1])
      BY <1>2
    <3> HIDE DEF c
    <3>3. QED BY <2>4, <3>1, <3>2
  <2> HIDE DEF c
  <2>51. WellFormed(c.state)
    BY <2>1, <2>3
  <2>6. Found(c, r)
    BY <2>2, <2>4, <2>5, <2>51 DEF Found
  <2>7. QED BY <2>6 DEF c
<1>6. QED BY <1>4, <1>5

\* previous starts with the text in the input, unless it goes on from a recalled entry.
LEMMA PreviousFinds ==
  ASSUME NEW r, WellFormed(r), NEW q \in Queries
  PROVE  \E v : /\ WellFormed(v) /\ v.history = r.history /\ Found(previous(r, q), v)
                /\ IF Stale(r, q) \/ r.cursor = {} THEN v.cursor = {} /\ v.prefix = {q}
                   ELSE v = r
<1> DEFINE u == validate_cursor(r, q)
           v == IF u.cursor = {} THEN [u EXCEPT !.prefix = {q}] ELSE u
           older == {i \in Entries(v, 0, Len(v.history) - 1) : \A pos \in v.cursor : i < pos}
           found == {i \in older : \A j \in older : j <= i}
<1>1. /\ WellFormed(u) /\ u.history = r.history
      /\ Stale(r, q) => u.cursor = {}
      /\ ~ Stale(r, q) => u = r
  BY Validated
<1>2. previous(r, q) = [state |-> IF found = {} THEN v ELSE [v EXCEPT !.cursor = found],
                        query |-> {v.history[i + 1] : i \in found}]
  BY DEF previous
<1> HIDE DEF u
<1>3. WellFormed(v) /\ v.history = r.history
  BY <1>1 DEF WellFormed
<1>4. IF Stale(r, q) \/ r.cursor = {} THEN v.cursor = {} /\ v.prefix = {q} ELSE v = r
  BY <1>1 DEF WellFormed
<1> HIDE DEF v
<1>5. found \subseteq Entries(v, 0, Len(v.history) - 1)
  OBVIOUS
<1>6. ASSUME NEW a \in found, NEW b \in found PROVE a = b
  <2>1. a \in Nat /\ b \in Nat
    BY DEF Entries
  <2>2. a <= b /\ b <= a
    OBVIOUS
  <2>3. QED BY <2>1, <2>2
<1> HIDE DEF found
<1>7. Found(previous(r, q), v)
  BY <1>2, <1>3, <1>5, <1>6, FoundOne
<1>8. QED BY <1>3, <1>4, <1>7

\* next goes on from a recalled entry.
LEMMA NextFinds ==
  ASSUME NEW r, WellFormed(r), NEW q
  PROVE  /\ Found(next(r, q), validate_cursor(r, q))
         /\ Stale(r, q) => next(r, q).query = {}
<1> DEFINE v == validate_cursor(r, q)
           newer == {i \in Entries(v, 0, Len(v.history) - 1) : \A pos \in v.cursor : i > pos}
           found == IF v.cursor = {} THEN {} ELSE {i \in newer : \A j \in newer : j >= i}
<1>1. WellFormed(v) /\ (Stale(r, q) => v.cursor = {})
  BY Validated
<1>2. next(r, q) = [state |-> IF found = {} THEN v ELSE [v EXCEPT !.cursor = found],
                    query |-> {v.history[i + 1] : i \in found}]
  BY DEF next
<1> HIDE DEF v
<1>3. found \subseteq Entries(v, 0, Len(v.history) - 1) /\ (v.cursor = {} => found = {})
  OBVIOUS
<1>4. ASSUME NEW a \in found, NEW b \in found PROVE a = b
  <2>1. a \in Nat /\ b \in Nat
    BY DEF Entries
  <2>2. a <= b /\ b <= a
    OBVIOUS
  <2>3. QED BY <2>1, <2>2
<1> HIDE DEF found
<1>5. Found(next(r, q), v)
  BY <1>1, <1>2, <1>3, <1>4, FoundOne
<1>6. Stale(r, q) => next(r, q).query = {}
  BY <1>1, <1>2, <1>3
<1>7. QED BY <1>5, <1>6 DEF v

----------------------------------------------------------------------------
(* The inductive invariant.                                                *)

IInv == TypeOK /\ HistorySound /\ UpdateInv /\ SelectedInRange /\ RecallInv

\* What a palette starts with is well typed.
LEMMA FreshTypes ==
  /\ NewSession \in [generation : 0..MaxUpdates + 2, latest_query : Queries,
                     match_count : Nat, selected_index : Nat]
  /\ NewRecall(<<>>) \in [history : Seq(Queries), cursor : SUBSET Nat,
                          prefix : SUBSET Queries]
  /\ NewRecall(<<>>).cursor = {} /\ <<>> \in Seq(Queries) /\ Empty \in Queries
<1>1. <<>> \in Seq(Queries) /\ MaxUpdates \in Nat /\ Empty \in Queries
  BY PaletteAssumption
<1>2. 0 \in 0..MaxUpdates + 2
  BY <1>1
<1>3. QED BY <1>1, <1>2 DEF NewSession, NewRecall

\* It holds initially.
LEMMA InitIInv == Init => IInv
<1> SUFFICES ASSUME Init PROVE IInv
  OBVIOUS
<1>1. <<>> \in Seq(Queries) /\ Len(<<>>) = 0 /\ MaxHistory \in Nat /\ MaxUpdates \in Nat
  BY PaletteAssumption
<1>2. TypeOK
  BY FreshTypes DEF Init, TypeOK
<1>3. HistorySound
  BY <1>1 DEF Init, HistorySound, NewRecall, IsInjective, Range
<1>4. UpdateInv /\ SelectedInRange
  BY DEF Init, UpdateInv, TasksCurrent, ShownIsCurrent, SelectedInRange, NewSession, Pred
<1>5. RecallInv
  BY DEF Init, RecallInv, NewRecall
<1>6. QED BY <1>2, <1>3, <1>4, <1>5 DEF IInv

\* A closed palette says nothing.
LEMMA ClosedInv ==
  ASSUME IInv, Closed,
         /\ history' \in Seq(Queries) /\ SoundHistory(history)'
         /\ saved' \in Seq(Queries) /\ SoundHistory(saved)'
  PROVE  IInv'
<1>1. <<>> \in Seq(Queries) /\ Len(<<>>) = 0 /\ MaxHistory \in Nat /\ MaxUpdates \in Nat
  BY PaletteAssumption
<1>2. TypeOK'
  BY FreshTypes DEF Closed, TypeOK
<1>3. HistorySound'
  BY <1>1 DEF Closed, HistorySound, SoundHistory, NewRecall, IsInjective, Range
<1>4. UpdateInv' /\ SelectedInRange'
  BY DEF Closed, UpdateInv, TasksCurrent, ShownIsCurrent, SelectedInRange, NewSession, Pred
<1>5. RecallInv'
  BY DEF Closed, RecallInv, NewRecall
<1>6. QED BY <1>2, <1>3, <1>4, <1>5 DEF IInv

\* The histories of a state that satisfies the invariant.
LEMMA Histories ==
  ASSUME IInv
  PROVE  /\ history \in Seq(Queries) /\ SoundHistory(history)
         /\ saved \in Seq(Queries) /\ SoundHistory(saved)
         /\ recall.history \in Seq(Queries) /\ SoundHistory(recall.history)
  BY DEF IInv, TypeOK, HistorySound, SoundHistory

\* The palette is closed.
LEMMA StepClosed ==
  ASSUME IInv, Dismiss \/ confirm \/ Restart
  PROVE  IInv'
<1>1. /\ history \in Seq(Queries) /\ SoundHistory(history)
      /\ saved \in Seq(Queries) /\ SoundHistory(saved)
  BY Histories
<1>2. CASE Dismiss
  BY <1>1, <1>2, ClosedInv DEF Dismiss
<1>3. CASE confirm
  <2>1. session.latest_query \in Queries
    BY DEF IInv, TypeOK
  <2>2. history' \in Seq(Queries) /\ SoundHistory(history')
    BY <1>1, <1>3, <2>1, RememberSound DEF confirm
  <2>3. <<>> \in Seq(Queries) /\ SoundHistory(<<>>)
    BY PaletteAssumption DEF SoundHistory, IsInjective, Range
  <2>4. saved' \in Seq(Queries) /\ SoundHistory(saved')
    BY <1>1, <1>3, <2>2, <2>3 DEF confirm
  <2>5. QED BY <1>3, <2>2, <2>4, ClosedInv DEF confirm
<1>4. CASE Restart
  <2>1. history' = saved /\ saved' = saved
    BY <1>1, <1>4, LoadSound DEF Restart
  <2>2. QED BY <1>1, <1>4, <2>1, ClosedInv DEF Restart
<1>5. QED BY <1>2, <1>3, <1>4

\* The palette is opened: the tasks of the initial query are the only ones.
LEMMA StepOpen ==
  ASSUME IInv, NEW q \in Queries, Open(q)
  PROVE  IInv'
<1> DEFINE n == IF q = Empty THEN 1 ELSE 2
<1>1. /\ history \in Seq(Queries) /\ SoundHistory(history)
      /\ saved \in Seq(Queries) /\ SoundHistory(saved)
  BY Histories
<1>2. /\ open' = TRUE /\ input' = q /\ typed' = q /\ recall' = NewRecall(history)
      /\ session' = [NewSession EXCEPT !.generation = n]
      /\ inflight' = {[generation |-> i, query |-> Alias[q]] : i \in 1..n}
      /\ loading' = TRUE /\ history' = history /\ saved' = saved
  BY DEF Open
<1>3. MaxUpdates \in Nat /\ MaxHistory \in Nat /\ n \in 1..2 /\ Alias[q] \in Queries
  BY PaletteAssumption
<1>4. session' = [generation |-> n, latest_query |-> Empty, match_count |-> 0,
                  selected_index |-> 0]
  BY <1>2 DEF NewSession
<1> HIDE DEF n
<1>5. TypeOK'
  <2>1. \A i \in 1..n : i \in 1..(MaxUpdates + 2)
    BY <1>3
  <2>2. inflight' \subseteq [generation : 1..(MaxUpdates + 2), query : Queries]
    BY <1>2, <1>3, <2>1
  <2>3. n \in 0..(MaxUpdates + 2) /\ Empty \in Queries
    BY <1>3, PaletteAssumption
  <2>4. session' \in [generation : 0..(MaxUpdates + 2), latest_query : Queries,
                      match_count : Nat, selected_index : Nat]
    BY <1>4, <2>3
  <2>5. QED BY <1>1, <1>2, <2>2, <2>4 DEF TypeOK, NewRecall
<1>6. HistorySound'
  BY <1>1, <1>2 DEF HistorySound, SoundHistory, NewRecall
<1>7. UpdateInv'
  BY <1>2, <1>3, <1>4 DEF UpdateInv, TasksCurrent, ShownIsCurrent
<1>8. SelectedInRange'
  BY <1>4 DEF SelectedInRange, Pred
<1>9. RecallInv'
  BY <1>2 DEF RecallInv, NewRecall
<1>10. QED BY <1>5, <1>6, <1>7, <1>8, <1>9 DEF IInv

\* An update begins: the new task is the only one of the new generation.
LEMMA BeginUpdate ==
  ASSUME IInv, NEW q \in Queries, CanUpdate, update_matches(session, q), input' = q
  PROVE  /\ session' \in [generation : 0..(MaxUpdates + 2), latest_query : Queries,
                          match_count : Nat, selected_index : Nat]
         /\ inflight' \subseteq [generation : 1..(MaxUpdates + 2), query : Queries]
         /\ loading' = TRUE /\ UpdateInv' /\ SelectedInRange'
<1>1. /\ session \in [generation : 0..(MaxUpdates + 2), latest_query : Queries,
                      match_count : Nat, selected_index : Nat]
      /\ inflight \subseteq [generation : 1..(MaxUpdates + 2), query : Queries]
  BY DEF IInv, TypeOK
<1>2. MaxUpdates \in Nat /\ session.generation < MaxUpdates /\ Alias[q] \in Queries
  BY PaletteAssumption DEF CanUpdate
<1>3. /\ session' = [session EXCEPT !.generation = session.generation + 1]
      /\ inflight' = inflight \cup {[generation |-> session.generation + 1,
                                     query |-> Alias[q]]}
      /\ loading' = TRUE
  BY DEF update_matches
<1>4. /\ session.generation + 1 \in 1..(MaxUpdates + 2)
      /\ session.generation + 1 \in 0..(MaxUpdates + 2)
  BY <1>1, <1>2
<1>5. session'.generation = session.generation + 1
  BY <1>1, <1>3
<1>6. ASSUME NEW u \in inflight'
      PROVE  /\ u.generation <= session'.generation
             /\ u.generation = session'.generation => u.query = Alias[q]
  <2>1. CASE u \in inflight
    <3>1. u.generation \in Nat /\ session.generation \in Nat
      BY <1>1, <2>1
    <3>2. u.generation <= session.generation
      BY <2>1 DEF IInv, UpdateInv, TasksCurrent
    <3>3. QED BY <1>5, <3>1, <3>2
  <2>2. CASE u = [generation |-> session.generation + 1, query |-> Alias[q]]
    BY <1>4, <1>5, <2>2
  <2>3. QED BY <1>3, <2>1, <2>2
<1>7. UpdateInv'
  BY <1>3, <1>6 DEF UpdateInv, TasksCurrent, ShownIsCurrent
<1>8. SelectedInRange'
  BY <1>1, <1>3 DEF IInv, SelectedInRange
<1>9. QED BY <1>1, <1>2, <1>3, <1>4, <1>7, <1>8

\* The user types.
LEMMA StepType ==
  ASSUME IInv, NEW q \in Queries, Type(q)
  PROVE  IInv'
<1>1. /\ session' \in [generation : 0..(MaxUpdates + 2), latest_query : Queries,
                       match_count : Nat, selected_index : Nat]
      /\ inflight' \subseteq [generation : 1..(MaxUpdates + 2), query : Queries]
      /\ loading' = TRUE /\ UpdateInv' /\ SelectedInRange'
  BY BeginUpdate DEF Type
<1>2. TypeOK' /\ HistorySound' /\ RecallInv'
  BY <1>1 DEF Type, IInv, TypeOK, HistorySound, RecallInv
<1>3. QED BY <1>1, <1>2 DEF IInv

\* A task ends.
LEMMA StepComplete ==
  ASSUME IInv, NEW u \in inflight, apply_update(u)
  PROVE  IInv'
<1> DEFINE m == MatchCount[u.query]
<1>1. /\ session \in [generation : 0..(MaxUpdates + 2), latest_query : Queries,
                      match_count : Nat, selected_index : Nat]
      /\ inflight \subseteq [generation : 1..(MaxUpdates + 2), query : Queries]
  BY DEF IInv, TypeOK
<1>2. u.query \in Queries /\ m \in Nat
  BY <1>1, PaletteAssumption
<1>3. /\ UNCHANGED <<open, input, recall, history, saved, typed>>
      /\ inflight' = inflight \ {u}
  BY DEF apply_update
<1>4. HistorySound' /\ RecallInv'
  BY <1>3 DEF IInv, HistorySound, RecallInv
<1>5. CASE u.generation = session.generation
  <2> DEFINE sel == AtMost(session.selected_index, Pred(m))
  <2>1. /\ session' = [session EXCEPT !.latest_query = u.query, !.match_count = m,
                                      !.selected_index = sel]
        /\ loading' = FALSE
    BY <1>5 DEF apply_update
  <2>2. sel \in Nat /\ sel <= Pred(m)
    BY <1>1, <1>2 DEF AtMost, Pred
  <2> HIDE DEF m, sel
  <2>3. TypeOK'
    BY <1>1, <1>2, <1>3, <2>1, <2>2 DEF IInv, TypeOK
  <2>4. UpdateInv'
    BY <1>1, <1>3, <1>5, <2>1 DEF IInv, UpdateInv, TasksCurrent, ShownIsCurrent
  <2>5. SelectedInRange'
    BY <1>1, <2>1, <2>2 DEF SelectedInRange
  <2>6. QED BY <1>4, <2>3, <2>4, <2>5 DEF IInv
<1>6. CASE u.generation # session.generation
  <2>1. session' = session /\ loading' = loading
    BY <1>6 DEF apply_update
  <2>2. QED
    BY <1>3, <1>4, <2>1
       DEF IInv, TypeOK, UpdateInv, TasksCurrent, ShownIsCurrent, SelectedInRange
<1>7. QED BY <1>5, <1>6

\* What up and down recall: the state keeps its history, the query to put into the
\* input is one; and with the text that the user typed, unless that is an entry:
\* an entry found has it as the prefix, a recalled entry that is given up gives it back,
\* or clears an edited one.
Recalls(c) ==
  /\ WellFormed(c.state) /\ c.state.history = recall.history /\ c.query \subseteq Queries
  /\ \A e \in c.query :
       \/ typed \in Range(recall.history)
       \/ e = typed
       \/ Edited /\ e = Empty
       \/ /\ c.state.prefix = {typed} /\ IsPrefix(typed, e) /\ e \in Range(recall.history)
          /\ \E pos \in c.state.cursor : recall.history[pos + 1] = e
  /\ c.query = {} /\ input # typed /\ typed \notin Range(recall.history)
       => c.state = recall

\* The state of the palette, as the lemmas about the recall take it.
LEMMA RecallFacts ==
  ASSUME IInv, open
  PROVE  /\ WellFormed(recall) /\ input \in Queries /\ typed \in Queries
         /\ Stale(recall, input) <=> Edited
         /\ typed \notin Range(recall.history) /\ input # typed
              => recall.cursor # {} /\ ~ Edited /\ recall.prefix = {typed}
         /\ typed \notin Range(recall.history) /\ recall.cursor # {} /\ ~ Edited
              => recall.prefix = {typed}
         /\ \A pos \in recall.cursor :
              /\ recall.history[pos + 1] \in Range(recall.history)
              /\ recall.history[pos + 1] \in Queries
<1>1. WellFormed(recall) /\ input \in Queries /\ typed \in Queries
  BY DEF IInv, TypeOK, RecallInv, WellFormed
<1>2. ASSUME NEW pos \in recall.cursor
      PROVE  pos + 1 \in 1..Len(recall.history) /\ recall.history \in Seq(Queries)
  <2>1. recall.history \in Seq(Queries) /\ pos \in 0..(Len(recall.history) - 1)
    BY <1>1 DEF WellFormed
  <2>2. Len(recall.history) \in Nat
    BY <2>1
  <2>3. QED BY <2>1, <2>2
<1>3. \A pos \in recall.cursor : /\ recall.history[pos + 1] \in Range(recall.history)
                                 /\ recall.history[pos + 1] \in Queries
  BY <1>2, RangeAt
<1>4. typed \notin Range(recall.history) /\ input # typed
        => recall.cursor # {} /\ ~ Edited /\ recall.prefix = {typed}
  BY DEF IInv, RecallInv, Edited
<1>5. typed \notin Range(recall.history) /\ recall.cursor # {} /\ ~ Edited
        => recall.prefix = {typed}
  <2>1. SUFFICES ASSUME typed \notin Range(recall.history), recall.cursor # {}, ~ Edited
                 PROVE  input # typed
    BY <1>4
  <2>2. PICK pos \in recall.cursor : recall.history[pos + 1] = input
    BY <2>1 DEF Edited
  <2>3. QED BY <1>3, <2>1, <2>2
<1>6. QED BY <1>1, <1>3, <1>4, <1>5 DEF Stale, Edited

\* The entries of a recall with the same history.
LEMMA CursorEntries ==
  ASSUME NEW r, WellFormed(r), NEW pos \in r.cursor
  PROVE  r.history[pos + 1] \in Range(r.history) /\ r.history[pos + 1] \in Queries
<1>1. r.history \in Seq(Queries) /\ pos \in 0..(Len(r.history) - 1)
  BY DEF WellFormed
<1>2. Len(r.history) \in Nat
  BY <1>1
<1>3. pos + 1 \in 1..Len(r.history)
  BY <1>1, <1>2
<1>4. QED BY <1>1, <1>3, RangeAt

\* The prefix of a recall that has one.
LEMMA PrefixIs == ASSUME NEW r, NEW p, r.prefix = {p} PROVE PrefixOf(r) = p
  BY DEF PrefixOf

\* What a search finds from v is what up or down may recall, if v is the recall itself
\* or starts with the text in the input.
LEMMA FoundRecalls ==
  ASSUME IInv, open, NEW c, NEW v, Found(c, v), WellFormed(v), v.history = recall.history,
         \/ v = recall /\ ~ Edited /\ recall.cursor # {}
         \/ v.prefix = {input} /\ (Edited \/ recall.cursor = {})
         \/ v = recall /\ c.query = {}
  PROVE  Recalls(c)
<1>1. /\ WellFormed(recall) /\ input \in Queries /\ typed \in Queries
      /\ typed \notin Range(recall.history) /\ input # typed
           => recall.cursor # {} /\ ~ Edited /\ recall.prefix = {typed}
      /\ typed \notin Range(recall.history) /\ recall.cursor # {} /\ ~ Edited
           => recall.prefix = {typed}
  BY RecallFacts
<1>2. /\ WellFormed(c.state) /\ c.state.history = recall.history
      /\ c.state.prefix = v.prefix
      /\ c.query = {} => c.state = v
  BY DEF Found
<1>3. ASSUME NEW e \in c.query
      PROVE  /\ e \in Queries /\ e \in Range(recall.history) /\ IsPrefix(PrefixOf(v), e)
             /\ \E pos \in c.state.cursor : recall.history[pos + 1] = e
  <2>1. PICK pos \in c.state.cursor : v.history[pos + 1] = e /\ IsPrefix(PrefixOf(v), e)
    BY DEF Found
  <2>2. QED BY <1>2, <2>1, CursorEntries
<1>4. c.query # {} /\ typed \notin Range(recall.history) => v.prefix = {typed}
  BY <1>1
<1>5. ASSUME NEW e \in c.query, typed \notin Range(recall.history)
      PROVE  c.state.prefix = {typed} /\ IsPrefix(typed, e)
  <2>1. v.prefix = {typed}
    BY <1>4, <1>5
  <2>2. QED BY <1>2, <1>3, <2>1, PrefixIs
<1>6. c.query = {} /\ input # typed /\ typed \notin Range(recall.history)
        => c.state = recall
  BY <1>1, <1>2
<1>7. QED BY <1>2, <1>3, <1>5, <1>6 DEF Recalls

\* Up recalls.
LEMMA UpRecalls == ASSUME IInv, open PROVE Recalls(SelectPrevious)
<1>1. WellFormed(recall) /\ input \in Queries /\ (Stale(recall, input) <=> Edited)
  BY RecallFacts
<1>2. CASE session.selected_index = 0 \/ is_navigating(recall)
  <2>1. SelectPrevious = previous(recall, input)
    BY <1>2 DEF SelectPrevious
  <2>2. PICK v : /\ WellFormed(v) /\ v.history = recall.history
                 /\ Found(previous(recall, input), v)
                 /\ IF Stale(recall, input) \/ recall.cursor = {}
                    THEN v.cursor = {} /\ v.prefix = {input} ELSE v = recall
    BY <1>1, PreviousFinds
  <2>3. QED BY <1>1, <2>1, <2>2, FoundRecalls
<1>3. CASE ~ (session.selected_index = 0 \/ is_navigating(recall))
  BY <1>1, <1>3 DEF SelectPrevious, Recalls
<1>4. QED BY <1>2, <1>3

\* Down recalls.
LEMMA DownRecalls == ASSUME IInv, open PROVE Recalls(SelectNext)
<1> DEFINE n == next(recall, input)
           v == validate_cursor(recall, input)
<1>1. /\ WellFormed(recall) /\ input \in Queries /\ typed \in Queries
      /\ Stale(recall, input) <=> Edited
      /\ typed \notin Range(recall.history) /\ recall.cursor # {} /\ ~ Edited
           => recall.prefix = {typed}
  BY RecallFacts
<1>2. /\ WellFormed(v) /\ v.history = recall.history
      /\ Edited => v.cursor = {} /\ v.prefix = {}
      /\ ~ Edited => v = recall
  BY <1>1, Validated
<1>3. Found(n, v) /\ (Edited => n.query = {})
  BY <1>1, NextFinds
<1>4. SelectNext = IF ~ is_navigating(recall) THEN [state |-> recall, query |-> {}]
                   ELSE IF n.query # {} THEN n
                   ELSE [state |-> reset_cursor(n.state), query |-> {PrefixOf(n.state)}]
  BY DEF SelectNext
<1> HIDE DEF n, v
<1>5. CASE ~ is_navigating(recall)
  BY <1>1, <1>4, <1>5 DEF Recalls
<1>6. CASE is_navigating(recall) /\ n.query # {}
  <2>1. recall.cursor # {} /\ ~ Edited /\ v = recall
    BY <1>2, <1>3, <1>6 DEF is_navigating
  <2>2. QED BY <1>1, <1>3, <1>4, <1>6, <2>1, FoundRecalls
<1>7. CASE is_navigating(recall) /\ n.query = {}
  <2> DEFINE c == [state |-> reset_cursor(v), query |-> {PrefixOf(v)}]
  <2>1. n.state = v
    BY <1>3, <1>7 DEF Found
  <2>2. SelectNext = c
    BY <1>4, <1>7, <2>1
  <2>3. WellFormed(reset_cursor(v)) /\ reset_cursor(v).history = recall.history
    BY <1>2 DEF WellFormed, reset_cursor
  <2>4. PrefixOf(v) \in Queries
    BY <1>2, FreshTypes DEF WellFormed, PrefixOf
  <2>5. \/ typed \in Range(recall.history) \/ PrefixOf(v) = typed
        \/ Edited /\ PrefixOf(v) = Empty
    <3>1. CASE Edited
      BY <1>2, <3>1 DEF PrefixOf
    <3>2. CASE ~ Edited /\ typed \notin Range(recall.history)
      <4>1. v.prefix = {typed}
        BY <1>1, <1>2, <1>7, <3>2 DEF is_navigating
      <4>2. QED BY <4>1, PrefixIs
    <3>3. QED BY <3>1, <3>2
  <2>6. c.state = reset_cursor(v) /\ c.query = {PrefixOf(v)}
    OBVIOUS
  <2> HIDE DEF c
  <2>7. QED BY <2>2, <2>3, <2>4, <2>5, <2>6 DEF Recalls
<1>8. QED BY <1>5, <1>6, <1>7

\* Up and down keep the invariant.
LEMMA RecallKeeps ==
  ASSUME IInv, NEW c, Recalls(c), NEW index \in Nat, index <= Pred(session.match_count),
         Recall(c, index)
  PROVE  IInv'
<1>1. /\ open /\ recall' = c.state
      /\ typed' = IF input' = Empty THEN Empty ELSE typed
      /\ open' = open /\ history' = history /\ saved' = saved
  BY DEF Recall
<1>2. /\ WellFormed(recall') /\ recall'.history = recall.history /\ c.query \subseteq Queries
      /\ \A e \in c.query :
           \/ typed \in Range(recall.history)
           \/ e = typed
           \/ Edited /\ e = Empty
           \/ /\ recall'.prefix = {typed}
              /\ \E pos \in recall'.cursor : recall.history[pos + 1] = e
      /\ c.query = {} /\ input # typed /\ typed \notin Range(recall.history)
           => recall' = recall
  BY <1>1 DEF Recalls
<1>3. HistorySound'
  BY <1>1, <1>2 DEF IInv, HistorySound
<1>4. /\ recall' \in [history : Seq(Queries), cursor : SUBSET Nat, prefix : SUBSET Queries]
      /\ recall'.cursor \subseteq 0..(Len(recall'.history) - 1)
      /\ \A a, b \in recall'.cursor : a = b
  BY <1>2 DEF WellFormed
<1>5. /\ Empty \in Queries /\ typed \in Queries /\ input \in Queries
      /\ history \in Seq(Queries) /\ saved \in Seq(Queries)
      /\ open \in BOOLEAN /\ loading \in BOOLEAN
      /\ session \in [generation : 0..MaxUpdates + 2, latest_query : Queries,
                      match_count : Nat, selected_index : Nat]
      /\ inflight \subseteq [generation : 1..MaxUpdates + 2, query : Queries]
  BY FreshTypes DEF IInv, TypeOK
<1>6. typed' \in Queries
  BY <1>1, <1>5
<1>7. CASE c.query # {}
  <2>1. CanUpdate /\ input' \in c.query /\ update_matches(session, input')
    BY <1>7 DEF Recall
  <2>2. input' \in Queries
    BY <1>2, <2>1
  <2>3. /\ session' \in [generation : 0..MaxUpdates + 2, latest_query : Queries,
                         match_count : Nat, selected_index : Nat]
        /\ inflight' \subseteq [generation : 1..MaxUpdates + 2, query : Queries]
        /\ loading' = TRUE /\ UpdateInv' /\ SelectedInRange'
    BY <2>1, <2>2, BeginUpdate
  <2>4. TypeOK'
    BY <1>1, <1>4, <1>5, <1>6, <2>2, <2>3 DEF TypeOK
  <2>5. RecallInv'
    BY <1>1, <1>2, <1>4, <2>1 DEF RecallInv
  <2>6. QED BY <1>3, <2>3, <2>4, <2>5 DEF IInv
<1>8. CASE c.query = {}
  <2>1. /\ session' = [session EXCEPT !.selected_index = index]
        /\ input' = input /\ inflight' = inflight /\ loading' = loading
    BY <1>8 DEF Recall
  <2>2. /\ session' \in [generation : 0..MaxUpdates + 2, latest_query : Queries,
                         match_count : Nat, selected_index : Nat]
        /\ session'.generation = session.generation
        /\ session'.latest_query = session.latest_query
        /\ session'.match_count = session.match_count /\ session'.selected_index = index
    BY <1>5, <2>1
  <2>3. TypeOK'
    BY <1>1, <1>4, <1>5, <1>6, <2>1, <2>2 DEF TypeOK
  <2>4. UpdateInv'
    BY <1>1, <2>1, <2>2 DEF IInv, UpdateInv, TasksCurrent, ShownIsCurrent
  <2>5. SelectedInRange'
    BY <2>2 DEF SelectedInRange
  <2>6. RecallInv'
    BY <1>1, <1>2, <1>4, <1>8, <2>1 DEF IInv, RecallInv
  <2>7. QED BY <1>3, <2>3, <2>4, <2>5, <2>6 DEF IInv
<1>9. QED BY <1>7, <1>8

\* The selection that up and down move to.
LEMMA StepMove ==
  ASSUME IInv, move_up \/ move_down
  PROVE  IInv'
<1>1. /\ session.selected_index \in Nat /\ session.match_count \in Nat
      /\ session.selected_index <= Pred(session.match_count)
  BY DEF IInv, TypeOK, SelectedInRange
<1>2. CASE move_up
  <2>1. /\ Pred(session.selected_index) \in Nat
        /\ Pred(session.selected_index) <= Pred(session.match_count)
    BY <1>1 DEF Pred
  <2>2. open
    BY <1>2 DEF move_up, Recall
  <2>3. QED BY <1>2, <2>1, <2>2, UpRecalls, RecallKeeps DEF move_up
<1>3. CASE move_down
  <2> DEFINE index == IF session.match_count = 0 THEN session.selected_index
                      ELSE AtMost(session.selected_index + 1, session.match_count - 1)
  <2>1. index \in Nat /\ index <= Pred(session.match_count)
    BY <1>1 DEF AtMost, Pred
  <2>2. open /\ Recall(SelectNext, index)
    BY <1>3 DEF move_down, Recall
  <2> HIDE DEF index
  <2>3. QED BY <2>1, <2>2, DownRecalls, RecallKeeps
<1>4. QED BY <1>2, <1>3

\* Every step keeps the invariant.
LEMMA StepIInv == IInv /\ [Next]_vars => IInv'
<1> SUFFICES ASSUME IInv, [Next]_vars PROVE IInv'
  OBVIOUS
<1>1. CASE UNCHANGED vars
  BY <1>1 DEF vars, IInv, TypeOK, HistorySound, UpdateInv, TasksCurrent, ShownIsCurrent,
              SelectedInRange, RecallInv
<1>2. CASE Next
  BY <1>2, StepOpen, StepType, StepClosed, StepMove, StepComplete DEF Next, Complete
<1>3. QED BY <1>1, <1>2

\* So it holds in every state.
LEMMA InvariantIInv == Spec => []IInv
<1>1. QED BY InitIInv, StepIInv, PTL DEF Spec

\* The palette is always well typed: the cursor of the recall is an entry of its history.
THEOREM PaletteTypes == Spec => []TypeOK
<1>1. IInv => TypeOK
  BY DEF IInv
<1>2. QED BY <1>1, InvariantIInv, PTL

\* The matches of a palette that is not loading are those of the text in its input, for
\* any order of the tasks.
THEOREM MatchesAreCurrent == Spec => []ShownIsCurrent
<1>1. IInv => ShownIsCurrent
  BY DEF IInv, UpdateInv
<1>2. QED BY <1>1, InvariantIInv, PTL

\* The selection is one of the matches, if there are any.
THEOREM SelectionInRange == Spec => []SelectedInRange
<1>1. IInv => SelectedInRange
  BY DEF IInv
<1>2. QED BY <1>1, InvariantIInv, PTL

\* The history of queries has no repetition, no empty query and at most its limit, in
\* memory, in the file and in the palette.
THEOREM HistoryStaysSound == Spec => []HistorySound
<1>1. IInv => HistorySound
  BY DEF IInv
<1>2. QED BY <1>1, InvariantIInv, PTL

\* Browsing the history keeps the text that the user typed.
THEOREM TypedTextSurvives == Spec => BrowseKeepsText
<1> DEFINE A == open /\ open' /\ recall' # recall /\ input' # input
                => \/ input' = typed
                   \/ IsPrefix(typed, input') /\ input' \in Range(recall.history)
                   \/ Edited /\ input' = Empty
                   \/ typed \in Range(recall.history)
<1>1. ASSUME IInv, NEW c, NEW index, Recalls(c), Recall(c, index) PROVE A
  BY <1>1 DEF Recall, Recalls
<1>2. ASSUME IInv, [Next]_vars PROVE A
  <2>1. CASE UNCHANGED vars
    BY <2>1 DEF vars
  <2>2. CASE move_up
    <3>1. open
      BY <2>2 DEF move_up, Recall
    <3>2. Recall(SelectPrevious, Pred(session.selected_index))
      BY <2>2 DEF move_up
    <3> HIDE DEF A
    <3>3. QED BY <1>1, <1>2, <3>1, <3>2, UpRecalls
  <2>3. CASE move_down
    <3>1. open
      BY <2>3 DEF move_down, Recall
    <3>2. Recall(SelectNext,
                 IF session.match_count = 0 THEN session.selected_index
                 ELSE AtMost(session.selected_index + 1, session.match_count - 1))
      BY <2>3 DEF move_down
    <3> HIDE DEF A
    <3>3. QED BY <1>1, <1>2, <3>1, <3>2, DownRecalls
  <2>4. CASE Dismiss \/ confirm \/ Restart
    BY <2>4 DEF Dismiss, confirm, Restart, Closed
  <2>5. CASE Complete
    BY <2>5 DEF Complete, apply_update
  <2>6. ASSUME NEW q \in Queries, Open(q) \/ Type(q) PROVE A
    BY <2>6 DEF Open, Type
  <2>7. QED BY <1>2, <2>1, <2>2, <2>3, <2>4, <2>5, <2>6 DEF Next
<1>3. IInv /\ [Next]_vars => [A]_vars
  <2> HIDE DEF A
  <2> QED BY <1>2
<1>4. QED BY <1>3, InvariantIInv, PTL DEF Spec, BrowseKeepsText
============================================================================
