-------------------------- MODULE TranscriptProofs --------------------------
(***************************************************************************)
(* Proofs about TranscriptModel and TranscriptSession, for every number of *)
(* messages, items, texts, words, inputs and notifications: the index of   *)
(* the cards is sound, a batch updates the cards in place, what completed  *)
(* is shown, a load merges the saved cards back in their places, and a     *)
(* read-only thread is watched.                                            *)
(***************************************************************************)
EXTENDS TranscriptSession, FoldLemmas, TLAPS

-----------------------------------------------------------------------------
(* What a transcript is made of.                                           *)

Word      == Texts \cup (Items \X Nat) \cup ({NoKey} \X Nat)
Content   == Seq(Seq(Word))

ItemKinds == {"user", "agent", "reasoning"}
Kinds     == ItemKinds \cup {"plan", "error"}
Statuses  == {"sending", "sent", "failed", "streaming", "running", "completed", "none"}

\* A card has the key of its item, or it is the card of the reasoning of a turn, with the
\* protocol id of one of its items, or it is made here and has no protocol id.  A plan has the
\* key of a generated card.
SoundCard ==
  {c \in [key : Keys, pid : Keys \cup {NoKey}, kind : Kinds, status : Statuses,
          content : Content] :
     /\ \/ c.key[1] = "item" /\ c.pid = c.key
        \/ c.key[1] = "turn-reasoning" /\ \E r \in Reasonings : c.pid = ItemKey(r)
        \/ c.key[1] \in Generated \cup {"local-user"} /\ c.pid = NoKey
     /\ c.kind \in ItemKinds \/ c.key[1] \in Generated}

Index == UNION {[D -> Nat] : D \in SUBSET Keys}

\* The entry of a key is a card with that key or protocol id, or the card of the turn of a
\* reasoning item; al is the set of reasoning items with their turns.
Stands(al, k, card) ==
  k \in KeysOf(card) \/ \E z \in al : k = ItemKey(z[1]) /\ card.key = ReasoningKey(z[2])

\* A transcript as the operations keep it: what is in the index is a card, and every card
\* but a message typed here is in the index.
SoundModel(al) ==
  {m \in [items : Seq(SoundCard), index : Index, local : Nat] :
     /\ \A k \in DOMAIN m.index :
          m.index[k] \in DOMAIN m.items /\ Stands(al, k, m.items[m.index[k]])
     /\ \A p \in DOMAIN m.items :
          m.items[p].key[1] # "local-user" => m.items[p].key \in DOMAIN m.index}

\* What the server sends.
SoundItem(al) ==
  {i \in [id : Items, kind : ItemKinds, turn : Users, text : Content] :
     i.kind = KindOf(i.id) /\ (i.kind = "reasoning" => <<i.id, i.turn>> \in al)}

SoundEvent(al) ==
       [type : {"item"}, item : SoundItem(al), completed : BOOLEAN]
  \cup [type : {"delta"}, id : Items, kind : ItemKinds, word : Word]
  \cup [type : {"part"}, id : Items]
  \cup [type : {"plan"}, turn : Users, text : Content]
  \cup [type : {"turn"}, turn : Users, items : Seq(SoundItem(al)), failed : BOOLEAN]

-----------------------------------------------------------------------------
(* The inductive invariant.                                                *)

\* The reasoning items of the thread, with their turns.
AliasesOf(items) == {<<r, TurnIn(items, r)>> : r \in Reasonings \cap ToSet(items)}

aliases == AliasesOf(log)

\* A log has no item twice and begins with a message.
WellLog(items) ==
  /\ items \in Seq(Items)
  /\ \A p, q \in DOMAIN items : items[p] = items[q] => p = q
  /\ items # <<>> => items[1] \in Users

\* A place of the log, and the message that opened its turn.
TurnFrom(items, p, u) ==
  u \in 1..p /\ items[u] \in Users /\ \A q \in 1..p : q > u => items[q] \notin Users

\* The running turn is the last message.
ServerInv ==
  /\ turn \in Users \cup {NoTurn}
  /\ WellLog(log)
  /\ words \in [Items -> 0..(Words + 1)]
  /\ said \in [Users -> Texts]
  /\ plans \in Nat
  /\ turn # NoTurn => \E u \in DOMAIN log : log[u] = turn /\ TurnFrom(log, Len(log), u)

\* The thread in an answer has the agent messages of its version, in full.
Shows(at, thread) ==
  \A i \in Agents : i \in ToSet(at.log) /\ at.words[i] = Words + 1 =>
    \E p \in DOMAIN thread : thread[p].id = i /\ thread[p].text = FullText(i)

SoundReply(al, r) ==
  /\ r.none = FALSE
  /\ r.thread \in Seq(SoundItem(al))
  /\ \A p, q \in DOMAIN r.thread : r.thread[p].id = r.thread[q].id => p = q
  /\ r.readOnly \in BOOLEAN /\ r.active \in BOOLEAN
  /\ r.readOnly => Shows(r.updatedAt, r.thread)

ReplyInv ==
  reply # NoReply => SoundReply(aliases, reply) /\ (reply.readOnly => ~subscribed)

\* The cards have the agent messages of the version that was loaded.
CardsShow(at, items) ==
  \A i \in Agents : i \in ToSet(at.log) /\ at.words[i] = Words + 1 =>
    \E p \in DOMAIN items : items[p].pid = ItemKey(i) /\ items[p].content = FullText(i)

AppInv ==
  /\ model \in SoundModel(aliases)
  /\ disk \in Seq(SoundCard)
  /\ wire \in Seq(SoundEvent(aliases))
  /\ calls \subseteq [key : Keys, text : Texts, phase : {"asked", "sent", "failed"}]
  /\ wire # <<>> => subscribed
  /\ view \in {"closed", "loading", "open", "unloaded"}
  /\ readOnly \in BOOLEAN
  /\ view = "loading" => ~readOnly
  /\ refresher \in [at : {"off", "timer", "list", "read"}, active : BOOLEAN]
  /\ refresher.at # "off" <=> readOnly /\ view = "open"
  /\ readOnly /\ view = "open" => ~subscribed /\ CardsShow(loadedAt, model.items)

SessionInv == ServerInv /\ ReplyInv /\ AppInv
-----------------------------------------------------------------------------
(* Keys and cards.                                                         *)

LEMMA KeyFacts ==
  /\ NoKey \notin Keys
  /\ \A i \in Items : ItemKey(i) \in Keys /\ ItemKey(i)[1] = "item"
  /\ \A t \in Users : ReasoningKey(t) \in Keys /\ ReasoningKey(t)[1] = "turn-reasoning"
  /\ \A n \in Nat : LocalKey(n) \in Keys /\ LocalKey(n)[1] = "local-user"
  /\ \A g \in Generated, t \in Users : <<g, t>> \in Keys /\ <<g, t>>[1] = g
  /\ \A i, j : ItemKey(i) = ItemKey(j) => i = j
  /\ \A t, u : ReasoningKey(t) = ReasoningKey(u) => t = u
  /\ \A i, t : ItemKey(i) # ReasoningKey(t)
  /\ Users \subseteq Items /\ Agents \subseteq Items /\ Reasonings \subseteq Items
  BY SessionAssumption DEF Keys, Generated, ItemKey, ReasoningKey, LocalKey, Items

\* What a card of the sound kind is called.
LEMMA CardKeys ==
  ASSUME NEW c \in SoundCard
  PROVE  /\ c.key \in Keys /\ c.key \in KeysOf(c)
         /\ KeysOf(c) \subseteq Keys
         /\ c.key[1] = "item" => KeysOf(c) = {c.key}
         /\ c.key[1] = "local-user" => KeysOf(c) = {c.key}
         /\ \A t \in Users : ReasoningKey(t) \in KeysOf(c) => c.key = ReasoningKey(t)
         /\ \A i \in Items : ItemKey(i) \in KeysOf(c) /\ i \notin Reasonings => c.key = ItemKey(i)
         /\ \A g \in Generated, t \in Users : <<g, t>> \in KeysOf(c) => c.key = <<g, t>>
<1>1. /\ c.key \in Keys /\ c.pid \in Keys \cup {NoKey}
      /\ \/ c.key[1] = "item" /\ c.pid = c.key
         \/ c.key[1] = "turn-reasoning" /\ \E r \in Reasonings : c.pid = ItemKey(r)
         \/ c.key[1] \in Generated \cup {"local-user"} /\ c.pid = NoKey
  BY DEF SoundCard
<1>2. QED BY <1>1, KeyFacts DEF KeysOf, Generated

\* x is index with an entry more.
Entered(index, key, p, x) ==
  /\ x \in Index
  /\ DOMAIN x = DOMAIN index \cup {key}
  /\ x[key] = p
  /\ \A k \in DOMAIN index : k # key => x[k] = index[k]

LEMMA PutFacts ==
  ASSUME NEW index \in Index, NEW key \in Keys, NEW p \in Nat
  PROVE  Entered(index, key, p, Put(index, key, p))
<1>1. PICK D \in SUBSET Keys : index \in [D -> Nat]
  BY DEF Index
<1>2. Put(index, key, p) \in [D \cup {key} -> Nat]
  BY <1>1 DEF Put
<1>3. D \cup {key} \in SUBSET Keys
  OBVIOUS
<1>4. Put(index, key, p) \in Index
  BY <1>2, <1>3 DEF Index
<1>5. QED BY <1>4 DEF Put, Entered

LEMMA IndexFacts ==
  ASSUME NEW index \in Index
  PROVE  DOMAIN index \subseteq Keys /\ \A k \in DOMAIN index : index[k] \in Nat
  BY DEF Index

\* The parts of a sound transcript, and a transcript from such parts.
LEMMA ModelFacts ==
  ASSUME NEW al, NEW m \in SoundModel(al)
  PROVE  /\ m.items \in Seq(SoundCard) /\ m.index \in Index /\ m.local \in Nat
         /\ \A k \in DOMAIN m.index :
              /\ k \in Keys /\ m.index[k] \in DOMAIN m.items /\ m.index[k] \in 1..Len(m.items)
              /\ m.items[m.index[k]] \in SoundCard
              /\ Stands(al, k, m.items[m.index[k]])
         /\ DOMAIN m.items = 1..Len(m.items)
         /\ \A p \in DOMAIN m.items :
              m.items[p] \in SoundCard
              /\ (m.items[p].key[1] # "local-user" => m.items[p].key \in DOMAIN m.index)
<1>1. m.items \in Seq(SoundCard) /\ m.index \in Index /\ m.local \in Nat
  BY DEF SoundModel
<1>2. DOMAIN m.items = 1..Len(m.items) /\ \A p \in DOMAIN m.items : m.items[p] \in SoundCard
  BY <1>1
<1>3. QED BY <1>1, <1>2, IndexFacts DEF SoundModel

-----------------------------------------------------------------------------
(* One change of a transcript.                                             *)

SameKeys(m, n) ==
  /\ Len(n.items) = Len(m.items)
  /\ \A p \in 1..Len(m.items) :
       n.items[p].key = m.items[p].key /\ n.items[p].pid = m.items[p].pid

\* A card with a new key at the end.
NewCard(m, n) ==
  /\ Len(n.items) = Len(m.items) + 1
  /\ \A p \in 1..Len(m.items) :
       n.items[p].key = m.items[p].key /\ n.items[p].pid = m.items[p].pid
  /\ n.items[Len(n.items)].key \notin DOMAIN m.index
  /\ n.items[Len(n.items)].key[1] # "local-user"

\* A message typed here gets the key of an item that has no card.
Echoed(m, n) ==
  /\ Len(n.items) = Len(m.items)
  /\ \E e \in 1..Len(m.items) :
       /\ m.items[e].key[1] = "local-user"
       /\ n.items[e].key \notin DOMAIN m.index
       /\ n.items[e].key[1] = "item"
       /\ \A p \in 1..Len(m.items) : p # e =>
            n.items[p].key = m.items[p].key /\ n.items[p].pid = m.items[p].pid

KeyStep(m, n) == SameKeys(m, n) \/ NewCard(m, n) \/ Echoed(m, n)

LEMMA NewParts ==
  ASSUME NEW A, NEW B, NEW C, NEW m \in [items : A, index : B, local : C], NEW s, NEW x
  PROVE  [m EXCEPT !.items = s, !.index = x] = [items |-> s, index |-> x, local |-> m.local]
<1> DEFINE l == m.local
           n == [m EXCEPT !.items = s]
<1>1. n = [items |-> s, index |-> m.index, local |-> l]
  OBVIOUS
<1> HIDE DEF n
<1>2. [n EXCEPT !.index = x] = [items |-> s, index |-> x, local |-> l]
  <2> HIDE DEF l
  <2> QED BY <1>1
<1>3. QED BY <1>2 DEF n

\* A card is changed and keeps its name.
LEMMA EditSound ==
  ASSUME NEW al, NEW m \in SoundModel(al), NEW p \in DOMAIN m.items, NEW c \in SoundCard,
         c.key = m.items[p].key, c.pid = m.items[p].pid
  PROVE  LET n == [m EXCEPT !.items = [@ EXCEPT ![p] = c]]
         IN  n \in SoundModel(al) /\ SameKeys(m, n)
<1> DEFINE n == [m EXCEPT !.items = [@ EXCEPT ![p] = c]]
           s == [m.items EXCEPT ![p] = c]
<1>1. /\ m.items \in Seq(SoundCard) /\ m.index \in Index /\ m.local \in Nat
      /\ m \in [items : Seq(SoundCard), index : Index, local : Nat]
  BY DEF SoundModel
<1>2. s \in Seq(SoundCard) /\ Len(s) = Len(m.items) /\ DOMAIN s = DOMAIN m.items
  BY <1>1
<1>3. \A q \in DOMAIN s : /\ s[q].key = m.items[q].key /\ s[q].pid = m.items[q].pid
                          /\ KeysOf(s[q]) = KeysOf(m.items[q])
  BY <1>1 DEF KeysOf
<1>4. n = [items |-> s, index |-> m.index, local |-> m.local]
  BY <1>1
<1> HIDE DEF n, s
<1>5. \A k \in DOMAIN m.index : m.index[k] \in DOMAIN s /\ Stands(al, k, s[m.index[k]])
  BY <1>2, <1>3, ModelFacts DEF Stands
<1>6. \A q \in DOMAIN s : s[q].key[1] # "local-user" => s[q].key \in DOMAIN m.index
  BY <1>2, <1>3, ModelFacts
<1>7. n \in SoundModel(al)
  BY <1>1, <1>2, <1>4, <1>5, <1>6 DEF SoundModel
<1>8. SameKeys(m, n)
  BY <1>1, <1>2, <1>3, <1>4 DEF SameKeys
<1>9. QED BY <1>7, <1>8 DEF n

LEMMA PushSound ==
  ASSUME NEW al, NEW m \in SoundModel(al), NEW c \in SoundCard
  PROVE  /\ push_without_splice(m, c) \in SoundModel(al)
         /\ push_without_splice(m, c).items = Append(m.items, c)
         /\ push_without_splice(m, c).index = Put(m.index, c.key, Len(m.items) + 1)
         /\ c.key \notin DOMAIN m.index /\ c.key[1] # "local-user"
              => NewCard(m, push_without_splice(m, c))
<1> DEFINE n == push_without_splice(m, c)
           s == Append(m.items, c)
           x == Put(m.index, c.key, Len(m.items) + 1)
<1>1. /\ m.items \in Seq(SoundCard) /\ m.index \in Index /\ m.local \in Nat
      /\ m \in [items : Seq(SoundCard), index : Index, local : Nat]
  BY DEF SoundModel
<1>2. n = [items |-> s, index |-> x, local |-> m.local]
  <2>1. n = [m EXCEPT !.items = s, !.index = x]
    BY DEF push_without_splice
  <2> HIDE DEF n, s, x
  <2>2. QED BY <1>1, <2>1, NewParts
<1>3. /\ s \in Seq(SoundCard) /\ Len(s) = Len(m.items) + 1 /\ Len(m.items) \in Nat
      /\ DOMAIN s = 1..(Len(m.items) + 1) /\ DOMAIN m.items = 1..Len(m.items)
      /\ s[Len(m.items) + 1] = c
      /\ \A p \in DOMAIN m.items : p \in DOMAIN s /\ s[p] = m.items[p]
  BY <1>1
<1>4. /\ x \in Index /\ DOMAIN x = DOMAIN m.index \cup {c.key} /\ x[c.key] = Len(m.items) + 1
      /\ \A k \in DOMAIN m.index : k # c.key => x[k] = m.index[k]
  <2>1. c.key \in Keys /\ Len(m.items) + 1 \in Nat
    BY <1>3, CardKeys
  <2>2. Entered(m.index, c.key, Len(m.items) + 1, x)
    BY <1>1, <2>1, PutFacts
  <2>3. QED BY <2>2 DEF Entered
<1> HIDE DEF n, s, x
<1>5. ASSUME NEW k \in DOMAIN x PROVE x[k] \in DOMAIN s /\ Stands(al, k, s[x[k]])
  <2>1. CASE k = c.key
    BY <1>3, <1>4, <2>1, CardKeys DEF Stands
  <2>2. CASE k # c.key
    <3>1. k \in DOMAIN m.index /\ x[k] = m.index[k]
      BY <1>4, <2>2
    <3>2. m.index[k] \in DOMAIN m.items /\ Stands(al, k, m.items[m.index[k]])
      BY <3>1, ModelFacts
    <3>3. QED BY <1>3, <3>1, <3>2
  <2>3. QED BY <2>1, <2>2
<1>6. ASSUME NEW p \in DOMAIN s, s[p].key[1] # "local-user" PROVE s[p].key \in DOMAIN x
  <2>1. CASE p = Len(m.items) + 1
    BY <1>3, <1>4, <2>1
  <2>2. CASE p \in DOMAIN m.items
    <3>1. s[p] = m.items[p]
      BY <1>3, <2>2
    <3>2. QED BY <1>4, <1>6, <2>2, <3>1, ModelFacts
  <2>3. QED BY <1>3, <2>1, <2>2
<1>7. n \in SoundModel(al)
  BY <1>1, <1>2, <1>3, <1>4, <1>5, <1>6 DEF SoundModel
<1>8. c.key \notin DOMAIN m.index /\ c.key[1] # "local-user" => NewCard(m, n)
  BY <1>2, <1>3 DEF NewCard
<1>9. n.items = s /\ n.index = x
  BY <1>2
<1>10. QED BY <1>7, <1>8, <1>9 DEF n, s, x

\* An item of a turn gets an entry of its own for the reasoning card of the turn.
LEMMA AliasSound ==
  ASSUME NEW al, NEW m \in SoundModel(al), NEW r \in Items, NEW t \in Users, <<r, t>> \in al,
         ReasoningKey(t) \in DOMAIN m.index
  PROVE  LET n == [m EXCEPT !.index = Put(@, ItemKey(r), m.index[ReasoningKey(t)])]
         IN  n \in SoundModel(al) /\ n.items = m.items
<1> DEFINE n == [m EXCEPT !.index = Put(@, ItemKey(r), m.index[ReasoningKey(t)])]
           p == m.index[ReasoningKey(t)]
           x == Put(m.index, ItemKey(r), p)
<1>1. /\ m.items \in Seq(SoundCard) /\ m.index \in Index /\ m.local \in Nat
      /\ m \in [items : Seq(SoundCard), index : Index, local : Nat]
  BY DEF SoundModel
<1>2. n = [items |-> m.items, index |-> x, local |-> m.local]
  BY <1>1
<1>3. /\ p \in DOMAIN m.items /\ p \in Nat /\ m.items[p] \in SoundCard
      /\ Stands(al, ReasoningKey(t), m.items[p])
  BY <1>1, ModelFacts
<1>4. m.items[p].key = ReasoningKey(t)
  BY <1>3, KeyFacts, CardKeys DEF Stands
<1>5. ItemKey(r) \in Keys
  BY KeyFacts
<1> HIDE DEF n, p
<1>6. /\ x \in Index /\ DOMAIN x = DOMAIN m.index \cup {ItemKey(r)} /\ x[ItemKey(r)] = p
      /\ \A k \in DOMAIN m.index : k # ItemKey(r) => x[k] = m.index[k]
  <2>1. Entered(m.index, ItemKey(r), p, x)
    BY <1>1, <1>3, <1>5, PutFacts
  <2> HIDE DEF x
  <2>2. QED BY <2>1 DEF Entered
<1> HIDE DEF x
<1>7. ASSUME NEW k \in DOMAIN x PROVE x[k] \in DOMAIN m.items /\ Stands(al, k, m.items[x[k]])
  <2>1. CASE k = ItemKey(r)
    <3>1. <<r, t>>[1] = r /\ <<r, t>>[2] = t
      OBVIOUS
    <3>2. QED BY <1>3, <1>4, <1>6, <2>1, <3>1 DEF Stands
  <2>2. CASE k # ItemKey(r)
    <3>1. k \in DOMAIN m.index /\ x[k] = m.index[k]
      BY <1>6, <2>2
    <3>2. QED BY <3>1, ModelFacts
  <2>3. QED BY <2>1, <2>2
<1>8. \A q \in DOMAIN m.items : m.items[q].key[1] # "local-user" => m.items[q].key \in DOMAIN x
  BY <1>6, ModelFacts
<1>9. n \in SoundModel(al) /\ n.items = m.items
  BY <1>1, <1>2, <1>6, <1>7, <1>8 DEF SoundModel
<1>10. QED BY <1>9 DEF n

\* The echo of a message takes its place.
LEMMA EchoSound ==
  ASSUME NEW al, NEW m \in SoundModel(al), NEW p \in DOMAIN m.items, NEW c \in SoundCard,
         m.items[p].key[1] = "local-user", c.key[1] = "item", c.key \notin DOMAIN m.index
  PROVE  LET n == TakePlace(m, p, c)
         IN  n \in SoundModel(al) /\ Echoed(m, n) /\ n.items = [m.items EXCEPT ![p] = c]
<1> DEFINE y == [k \in DOMAIN m.index \ {m.items[p].key} |-> m.index[k]]
           x == Put(y, c.key, p)
           s == [m.items EXCEPT ![p] = c]
           n == [m EXCEPT !.items = s, !.index = x]
<1>1. /\ m.items \in Seq(SoundCard) /\ m.index \in Index /\ m.local \in Nat
      /\ m \in [items : Seq(SoundCard), index : Index, local : Nat]
      /\ p \in Nat /\ p \in 1..Len(m.items) /\ m.items[p] \in SoundCard
  BY DEF SoundModel
<1>2. n = [items |-> s, index |-> x, local |-> m.local]
  <2> HIDE DEF s, x
  <2>1. n = [m EXCEPT !.items = s, !.index = x]
    OBVIOUS
  <2> HIDE DEF n
  <2>2. QED BY <1>1, <2>1, NewParts
<1>3. s \in Seq(SoundCard) /\ Len(s) = Len(m.items) /\ DOMAIN s = DOMAIN m.items /\ s[p] = c
      /\ \A q \in DOMAIN s : q # p => s[q] = m.items[q]
  BY <1>1
<1>4. y \in Index
  <2>1. PICK D \in SUBSET Keys : m.index \in [D -> Nat]
    BY <1>1 DEF Index
  <2>2. y \in [D \ {m.items[p].key} -> Nat]
    BY <2>1
  <2>3. QED BY <2>2 DEF Index
<1>5. c.key \in Keys
  BY CardKeys
<1>6. /\ x \in Index /\ DOMAIN x = DOMAIN y \cup {c.key} /\ x[c.key] = p
      /\ \A k \in DOMAIN y : k # c.key => x[k] = y[k]
  <2>1. Entered(y, c.key, p, x)
    <3> HIDE DEF y
    <3> QED BY <1>1, <1>4, <1>5, PutFacts
  <2> HIDE DEF x, y
  <2>2. QED BY <2>1 DEF Entered
<1>7. /\ DOMAIN y = DOMAIN m.index \ {m.items[p].key}
      /\ \A k \in DOMAIN y : y[k] = m.index[k]
  OBVIOUS
<1>8. TakePlace(m, p, c) = n
  BY DEF TakePlace
<1> HIDE DEF n, s, x, y
<1>9. ASSUME NEW k \in DOMAIN x PROVE x[k] \in DOMAIN s /\ Stands(al, k, s[x[k]])
  <2>1. CASE k = c.key
    BY <1>1, <1>3, <1>6, <2>1, CardKeys DEF Stands
  <2>2. CASE k # c.key
    <3>1. k \in DOMAIN m.index /\ k # m.items[p].key /\ x[k] = m.index[k]
      BY <1>6, <1>7, <2>2
    <3>2. m.index[k] \in DOMAIN m.items /\ Stands(al, k, m.items[m.index[k]])
      BY <3>1, ModelFacts
    <3>3. m.index[k] # p
      <4>1. KeysOf(m.items[p]) = {m.items[p].key}
        BY <1>1, CardKeys
      <4>2. \A t : m.items[p].key # ReasoningKey(t)
        BY DEF ReasoningKey
      <4>3. ~ Stands(al, k, m.items[p])
        BY <3>1, <4>1, <4>2 DEF Stands
      <4>4. QED BY <3>2, <4>3
    <3>4. QED BY <1>3, <3>1, <3>2, <3>3
  <2>3. QED BY <2>1, <2>2
<1>10. ASSUME NEW q \in DOMAIN s, s[q].key[1] # "local-user" PROVE s[q].key \in DOMAIN x
  <2>1. CASE q = p
    BY <1>3, <1>6, <2>1
  <2>2. CASE q # p
    <3>1. s[q] = m.items[q] /\ q \in DOMAIN m.items
      BY <1>3, <2>2
    <3>2. m.items[q].key \in DOMAIN m.index /\ m.items[q].key # m.items[p].key
      BY <1>10, <3>1, ModelFacts
    <3>3. QED BY <1>6, <1>7, <3>1, <3>2
  <2>3. QED BY <2>1, <2>2
<1>11. n \in SoundModel(al)
  BY <1>1, <1>2, <1>3, <1>6, <1>9, <1>10 DEF SoundModel
<1>12. n.items = s
  BY <1>2
<1>13. Echoed(m, n)
  BY <1>1, <1>3, <1>12 DEF Echoed
<1>14. QED BY <1>8, <1>11, <1>12, <1>13 DEF s

-----------------------------------------------------------------------------
(* Folds.                                                                  *)

\* The partial results of merge_unique_reasoning.
UniquePartsOf(part, seq) ==
  /\ part[0] = <<>>
  /\ \A k \in 0..(Len(seq) - 1) : part[k + 1] = unique_section(part[k], seq[k + 1])
  /\ FoldLeft(unique_section, <<>>, seq) = part[Len(seq)]

\* It has results after each section, in every set that is closed under its step.
LEMMA UniqueParts ==
  ASSUME NEW A, NEW E, NEW seq \in Seq(E), <<>> \in A,
         \A acc \in A, e \in E : unique_section(acc, e) \in A
  PROVE  \E part \in [0..Len(seq) -> A] : UniquePartsOf(part, seq)
<1> DEFINE MapFolds(f) == f = [s \in SUBSET (DOMAIN seq) |->
                           IF s = {} THEN <<>>
                           ELSE unique_section(f[s \ {Max(s)}], seq[Max(s)])]
           G == [z \in A \X E |-> unique_section(z[1], z[2])]
           g == CHOOSE f : MapFolds(f)
<1>1. DOMAIN seq = 1..Len(seq) /\ Len(seq) \in Nat
  OBVIOUS
<1>2. FoldLeft(unique_section, <<>>, seq) = g[DOMAIN seq]
  BY DEF FoldLeft, MapThenFoldSet
<1>3. G \in [A \X E -> A]
  OBVIOUS
<1> HIDE DEF g
<1>4. PICK f \in [SUBSET (DOMAIN seq) -> A] : FoldsWith(f, <<>>, seq, G)
  <2> HIDE DEF G
  <2> QED BY <1>3, FoldExists
<1>5. \A s \in SUBSET (DOMAIN seq) : s # {} => seq[Max(s)] \in E
  BY MaxElement, <1>1
<1>6. \A s \in SUBSET (DOMAIN seq) : s # {}
        => <<f[s \ {Max(s)}], seq[Max(s)]>> \in A \X E
  BY <1>5
<1>7. \A s \in SUBSET (DOMAIN seq) : s # {}
        => f[s] = unique_section(f[s \ {Max(s)}], seq[Max(s)])
  BY <1>4, <1>6 DEF FoldsWith
<1>8. MapFolds(f)
  BY <1>4, <1>7 DEF FoldsWith
<1>9. MapFolds(g)
  <2> HIDE DEF MapFolds
  <2> QED BY <1>8 DEF g
<1>10. FoldsIn(g, A, <<>>, seq, G)
  BY <1>5, <1>9 DEF FoldsIn
<1> HIDE DEF MapFolds
<1>11. HasParts(g, A, <<>>, seq, G)
  <2> HIDE DEF G
  <2> QED BY <1>3, <1>10, FoldParts
<1>12. PICK part \in [0..Len(seq) -> A] :
         Partial(part, <<>>, seq, G) /\ g[DOMAIN seq] = part[Len(seq)]
  <2> HIDE DEF G
  <2> QED BY <1>11 DEF HasParts
<1>13. ASSUME NEW k \in 0..(Len(seq) - 1)
       PROVE  part[k + 1] = unique_section(part[k], seq[k + 1])
  <2>1. k \in 0..Len(seq) /\ seq[k + 1] \in E
    BY <1>1
  <2>2. <<part[k], seq[k + 1]>> \in A \X E
    BY <2>1
  <2>3. QED BY <1>12, <2>2 DEF Partial
<1>14. QED BY <1>2, <1>12, <1>13 DEF Partial, UniquePartsOf

\* The partial results of the merge with the cards that were saved.
MergePartsOf(part, fresh, base, seq) ==
  /\ part[0] = base
  /\ \A k \in 0..(Len(seq) - 1) : part[k + 1] = MergeSaved(fresh, part[k], seq[k + 1])
  /\ SavedMerged(fresh, base, seq) = part[Len(seq)]

\* A merge has results after each saved card, in every set that is closed under a step of it.
LEMMA MergeParts ==
  ASSUME NEW A, NEW E, NEW fresh, NEW base \in A, NEW seq \in Seq(E),
         \A acc \in A, e \in E : MergeSaved(fresh, acc, e) \in A
  PROVE  \E part \in [0..Len(seq) -> A] : MergePartsOf(part, fresh, base, seq)
<1> DEFINE MapFolds(f) == f = [s \in SUBSET (DOMAIN seq) |->
                           IF s = {} THEN base
                           ELSE MergeSaved(fresh, f[s \ {Max(s)}], seq[Max(s)])]
           G == [z \in A \X E |-> MergeSaved(fresh, z[1], z[2])]
           g == CHOOSE f : MapFolds(f)
<1>1. DOMAIN seq = 1..Len(seq) /\ Len(seq) \in Nat
  OBVIOUS
<1>2. SavedMerged(fresh, base, seq) = g[DOMAIN seq]
  BY DEF SavedMerged, FoldLeft, MapThenFoldSet
<1>3. G \in [A \X E -> A]
  OBVIOUS
<1> HIDE DEF g
<1>4. PICK f \in [SUBSET (DOMAIN seq) -> A] : FoldsWith(f, base, seq, G)
  <2> HIDE DEF G
  <2> QED BY <1>3, FoldExists
<1>5. \A s \in SUBSET (DOMAIN seq) : s # {} => seq[Max(s)] \in E
  BY MaxElement, <1>1
<1>6. \A s \in SUBSET (DOMAIN seq) : s # {}
        => <<f[s \ {Max(s)}], seq[Max(s)]>> \in A \X E
  BY <1>5
<1>7. \A s \in SUBSET (DOMAIN seq) : s # {}
        => f[s] = MergeSaved(fresh, f[s \ {Max(s)}], seq[Max(s)])
  BY <1>4, <1>6 DEF FoldsWith
<1>8. MapFolds(f)
  BY <1>4, <1>7 DEF FoldsWith
<1>9. MapFolds(g)
  <2> HIDE DEF MapFolds
  <2> QED BY <1>8 DEF g
<1>10. FoldsIn(g, A, base, seq, G)
  BY <1>5, <1>9 DEF FoldsIn
<1> HIDE DEF MapFolds
<1>11. HasParts(g, A, base, seq, G)
  <2> HIDE DEF G
  <2> QED BY <1>3, <1>10, FoldParts
<1>12. PICK part \in [0..Len(seq) -> A] :
         Partial(part, base, seq, G) /\ g[DOMAIN seq] = part[Len(seq)]
  <2> HIDE DEF G
  <2> QED BY <1>11 DEF HasParts
<1>13. ASSUME NEW k \in 0..(Len(seq) - 1)
       PROVE  part[k + 1] = MergeSaved(fresh, part[k], seq[k + 1])
  <2>1. k \in 0..Len(seq) /\ seq[k + 1] \in E
    BY <1>1
  <2>2. <<part[k], seq[k + 1]>> \in A \X E
    BY <2>1
  <2>3. QED BY <1>12, <2>2 DEF Partial
<1>14. QED BY <1>2, <1>12, <1>13 DEF Partial, MergePartsOf

\* The partial results of a batch.
BatchPartsOf(part, m, seq) ==
  /\ part[0] = m
  /\ \A k \in 0..(Len(seq) - 1) : part[k + 1] = apply_event(part[k], seq[k + 1])
  /\ apply_batch(m, seq) = part[Len(seq)]

\* The same for the notifications of a batch.
LEMMA BatchParts ==
  ASSUME NEW A, NEW E, NEW m \in A, NEW seq \in Seq(E),
         \A acc \in A, e \in E : apply_event(acc, e) \in A
  PROVE  \E part \in [0..Len(seq) -> A] : BatchPartsOf(part, m, seq)
<1> DEFINE MapFolds(f) == f = [s \in SUBSET (DOMAIN seq) |->
                           IF s = {} THEN m
                           ELSE apply_event(f[s \ {Max(s)}], seq[Max(s)])]
           G == [z \in A \X E |-> apply_event(z[1], z[2])]
           g == CHOOSE f : MapFolds(f)
<1>1. DOMAIN seq = 1..Len(seq) /\ Len(seq) \in Nat
  OBVIOUS
<1>2. apply_batch(m, seq) = g[DOMAIN seq]
  BY DEF apply_batch, FoldLeft, MapThenFoldSet
<1>3. G \in [A \X E -> A]
  OBVIOUS
<1> HIDE DEF g
<1>4. PICK f \in [SUBSET (DOMAIN seq) -> A] : FoldsWith(f, m, seq, G)
  <2> HIDE DEF G
  <2> QED BY <1>3, FoldExists
<1>5. \A s \in SUBSET (DOMAIN seq) : s # {} => seq[Max(s)] \in E
  BY MaxElement, <1>1
<1>6. \A s \in SUBSET (DOMAIN seq) : s # {}
        => <<f[s \ {Max(s)}], seq[Max(s)]>> \in A \X E
  BY <1>5
<1>7. \A s \in SUBSET (DOMAIN seq) : s # {}
        => f[s] = apply_event(f[s \ {Max(s)}], seq[Max(s)])
  BY <1>4, <1>6 DEF FoldsWith
<1>8. MapFolds(f)
  BY <1>4, <1>7 DEF FoldsWith
<1>9. MapFolds(g)
  <2> HIDE DEF MapFolds
  <2> QED BY <1>8 DEF g
<1>10. FoldsIn(g, A, m, seq, G)
  BY <1>5, <1>9 DEF FoldsIn
<1> HIDE DEF MapFolds
<1>11. HasParts(g, A, m, seq, G)
  <2> HIDE DEF G
  <2> QED BY <1>3, <1>10, FoldParts
<1>12. PICK part \in [0..Len(seq) -> A] :
         Partial(part, m, seq, G) /\ g[DOMAIN seq] = part[Len(seq)]
  <2> HIDE DEF G
  <2> QED BY <1>11 DEF HasParts
<1>13. ASSUME NEW k \in 0..(Len(seq) - 1)
       PROVE  part[k + 1] = apply_event(part[k], seq[k + 1])
  <2>1. k \in 0..Len(seq) /\ seq[k + 1] \in E
    BY <1>1
  <2>2. <<part[k], seq[k + 1]>> \in A \X E
    BY <2>1
  <2>3. QED BY <1>12, <2>2 DEF Partial
<1>14. QED BY <1>2, <1>12, <1>13 DEF Partial, BatchPartsOf

\* The partial results of UpsertAll.
UpsertPartsOf(part, m, seq) ==
  /\ part[0] = m
  /\ \A k \in 0..(Len(seq) - 1) : part[k + 1] = upsert_protocol_item(part[k], seq[k + 1], TRUE)
  /\ UpsertAll(m, seq) = part[Len(seq)]

\* UpsertAll has results after each item, in every set that is closed under an upsert.
LEMMA UpsertParts ==
  ASSUME NEW A, NEW E, NEW m \in A, NEW seq \in Seq(E),
         \A acc \in A, e \in E : upsert_protocol_item(acc, e, TRUE) \in A
  PROVE  \E part \in [0..Len(seq) -> A] : UpsertPartsOf(part, m, seq)
<1> DEFINE MapFolds(f) == f = [s \in SUBSET (DOMAIN seq) |->
                           IF s = {} THEN m
                           ELSE upsert_protocol_item(f[s \ {Max(s)}], seq[Max(s)], TRUE)]
           G == [z \in A \X E |-> upsert_protocol_item(z[1], z[2], TRUE)]
           g == CHOOSE f : MapFolds(f)
<1>1. DOMAIN seq = 1..Len(seq) /\ Len(seq) \in Nat
  OBVIOUS
<1>2. UpsertAll(m, seq) = g[DOMAIN seq]
  BY DEF UpsertAll, FoldLeft, MapThenFoldSet
<1>3. G \in [A \X E -> A]
  OBVIOUS
<1> HIDE DEF g
<1>4. PICK f \in [SUBSET (DOMAIN seq) -> A] : FoldsWith(f, m, seq, G)
  <2> HIDE DEF G
  <2> QED BY <1>3, FoldExists
<1>5. \A s \in SUBSET (DOMAIN seq) : s # {} => seq[Max(s)] \in E
  BY MaxElement, <1>1
<1>6. \A s \in SUBSET (DOMAIN seq) : s # {}
        => <<f[s \ {Max(s)}], seq[Max(s)]>> \in A \X E
  BY <1>5
<1>7. \A s \in SUBSET (DOMAIN seq) : s # {}
        => f[s] = upsert_protocol_item(f[s \ {Max(s)}], seq[Max(s)], TRUE)
  BY <1>4, <1>6 DEF FoldsWith
<1>8. MapFolds(f)
  BY <1>4, <1>7 DEF FoldsWith
<1>9. MapFolds(g)
  <2> HIDE DEF MapFolds
  <2> QED BY <1>8 DEF g
<1>10. FoldsIn(g, A, m, seq, G)
  BY <1>5, <1>9 DEF FoldsIn
<1> HIDE DEF MapFolds
<1>11. HasParts(g, A, m, seq, G)
  <2> HIDE DEF G
  <2> QED BY <1>3, <1>10, FoldParts
<1>12. PICK part \in [0..Len(seq) -> A] :
         Partial(part, m, seq, G) /\ g[DOMAIN seq] = part[Len(seq)]
  <2> HIDE DEF G
  <2> QED BY <1>11 DEF HasParts
<1>13. ASSUME NEW k \in 0..(Len(seq) - 1)
       PROVE  part[k + 1] = upsert_protocol_item(part[k], seq[k + 1], TRUE)
  <2>1. k \in 0..Len(seq) /\ seq[k + 1] \in E
    BY <1>1
  <2>2. <<part[k], seq[k + 1]>> \in A \X E
    BY <2>1
  <2>3. QED BY <1>12, <2>2 DEF Partial
<1>14. QED BY <1>2, <1>12, <1>13 DEF Partial, UpsertPartsOf

-----------------------------------------------------------------------------
(* The operations keep a transcript sound.                                 *)

\* The entries stay, but that of a message typed here, and the protocol id of a new card has one.
Listed(m, n) ==
  /\ \A k \in DOMAIN m.index : k[1] # "local-user" => k \in DOMAIN n.index
  /\ \A p \in 1..Len(n.items) : p \notin 1..Len(m.items) /\ n.items[p].pid # NoKey =>
       n.items[p].pid \in DOMAIN n.index

\* The card of the reasoning of a turn has the protocol id of an item of the turn.
Tied(al, card) ==
  card.key[1] = "turn-reasoning" =>
    \E z \in al : card.pid = ItemKey(z[1]) /\ card.key = ReasoningKey(z[2])

NewTied(al, m, n) == \A p \in 1..Len(n.items) : p \notin 1..Len(m.items) => Tied(al, n.items[p])

Step(al, m, n) == n \in SoundModel(al) /\ KeyStep(m, n) /\ Listed(m, n) /\ NewTied(al, m, n)

LEMMA TextSound ==
  ASSUME NEW c \in Content, NEW w \in Word
  PROVE  /\ PushWord(c, w) \in Content /\ PushBreak(c) \in Content
         /\ <<>> \in Content
<1>1. c \in Seq(Seq(Word)) /\ <<w>> \in Seq(Word) /\ <<>> \in Seq(Word)
  BY DEF Content
<1>2. PushBreak(c) \in Content /\ <<>> \in Content
  BY <1>1 DEF PushBreak, Content
<1>3. CASE c = <<>>
  BY <1>1, <1>2, <1>3 DEF PushWord, Content
<1>4. CASE c # <<>>
  <2>1. Len(c) \in 1..Len(c) /\ c[Len(c)] \in Seq(Word)
    BY <1>1, <1>4
  <2>2. Append(c[Len(c)], w) \in Seq(Word)
    BY <2>1
  <2>3. [c EXCEPT ![Len(c)] = Append(c[Len(c)], w)] \in Seq(Seq(Word))
    BY <1>1, <2>1, <2>2
  <2>4. QED BY <1>2, <1>4, <2>3 DEF PushWord, Content
<1>5. QED BY <1>3, <1>4

LEMMA ReasoningSound ==
  ASSUME NEW c \in Content, NEW d \in Content
  PROVE  merge_unique_reasoning(c, d) \in Content
<1> DEFINE E == Seq(Word)
           s == c \o d
<1>1. s \in Seq(E)
  BY DEF Content
<1>2. \A acc \in Content, e \in E : unique_section(acc, e) \in Content
  BY DEF unique_section, Content
<1>3. <<>> \in Content
  BY DEF Content
<1> HIDE DEF E, s
<1>4. PICK part \in [0..Len(s) -> Content] : UniquePartsOf(part, s)
  BY <1>1, <1>2, <1>3, UniqueParts
<1>5. Len(s) \in 0..Len(s)
  BY <1>1
<1>6. QED BY <1>4, <1>5 DEF UniquePartsOf, merge_unique_reasoning, s

\* A section of the text has s in it, and d says what c says.
Says(content, s) == \E section \in ToSet(content) : s \in SubSeqs(section)

SaysStill(c, d) == \A s \in Seq(Word) : s # <<>> /\ Says(c, s) => Says(d, s)

LEMMA SubSeqsFacts ==
  ASSUME NEW q \in Seq(Word)
  PROVE  /\ q \in SubSeqs(q)
         /\ \A w \in Word : SubSeqs(q) \subseteq SubSeqs(Append(q, w))
         /\ q = <<>> => \A s \in SubSeqs(q) : s = <<>>
<1>1. Len(q) \in Nat /\ DOMAIN q = 1..Len(q)
  OBVIOUS
<1>2. q \in SubSeqs(q)
  <2>1. SubSeq(q, 0 + 1, Len(q)) = q
    OBVIOUS
  <2>2. 0 \in 0..Len(q) /\ Len(q) \in 0..Len(q)
    BY <1>1
  <2>3. QED BY <2>1, <2>2 DEF SubSeqs
<1>3. ASSUME NEW w \in Word, NEW s \in SubSeqs(q) PROVE s \in SubSeqs(Append(q, w))
  <2> DEFINE r == Append(q, w)
  <2>1. PICK i \in 0..Len(q), j \in 0..Len(q) : s = SubSeq(q, i + 1, j)
    BY DEF SubSeqs
  <2>2. i \in Nat /\ j \in Nat /\ i \in 0..Len(r) /\ j \in 0..Len(r) /\ Len(r) = Len(q) + 1
    BY <1>1, <2>1
  <2>3. SubSeq(q, i + 1, j) = SubSeq(r, i + 1, j)
    BY <1>1, <2>1, <2>2
  <2> HIDE DEF r
  <2>4. s \in SubSeqs(r)
    BY <2>1, <2>2, <2>3 DEF SubSeqs
  <2>5. QED BY <2>4 DEF r
<1>4. ASSUME q = <<>>, NEW s \in SubSeqs(q) PROVE s = <<>>
  BY <1>4 DEF SubSeqs
<1>5. QED BY <1>2, <1>3, <1>4

\* A delta and a paragraph break only add to a text.
LEMMA PushSays ==
  ASSUME NEW c \in Content, NEW w \in Word
  PROVE  SaysStill(c, PushWord(c, w)) /\ SaysStill(c, PushBreak(c))
<1>1. c \in Seq(Seq(Word)) /\ Len(c) \in Nat /\ DOMAIN c = 1..Len(c)
  BY DEF Content
<1>2. ASSUME NEW s \in Seq(Word), Says(c, s) PROVE Says(PushWord(c, w), s)
  <2>1. PICK n \in DOMAIN c : s \in SubSeqs(c[n])
    BY <1>2 DEF Says, ToSet
  <2>2. c # <<>> /\ Len(c) \in 1..Len(c)
    BY <1>1, <2>1
  <2> DEFINE d == [c EXCEPT ![Len(c)] = Append(@, w)]
  <2>3. PushWord(c, w) = d
    BY <2>2 DEF PushWord
  <2>4. n \in DOMAIN d /\ d[n] = IF n = Len(c) THEN Append(c[n], w) ELSE c[n]
    BY <1>1, <2>1, <2>2
  <2>5. c[n] \in Seq(Word)
    BY <1>1, <2>1
  <2>6. s \in SubSeqs(d[n])
    BY <2>1, <2>4, <2>5, SubSeqsFacts
  <2> HIDE DEF d
  <2>7. QED BY <2>3, <2>4, <2>6 DEF Says, ToSet
<1>3. ASSUME NEW s \in Seq(Word), Says(c, s) PROVE Says(PushBreak(c), s)
  <2>1. PICK n \in DOMAIN c : s \in SubSeqs(c[n])
    BY <1>3 DEF Says, ToSet
  <2>2. n \in DOMAIN PushBreak(c) /\ PushBreak(c)[n] = c[n]
    BY <1>1, <2>1 DEF PushBreak
  <2>3. QED BY <2>1, <2>2 DEF Says, ToSet
<1>4. QED BY <1>2, <1>3 DEF SaysStill

\* The sections of both texts are in what merge_unique_reasoning makes of them.
LEMMA MergeSays ==
  ASSUME NEW c \in Content, NEW d \in Content
  PROVE  /\ SaysStill(c, merge_unique_reasoning(c, d))
         /\ SaysStill(d, merge_unique_reasoning(c, d))
<1> DEFINE E == Seq(Word)
           q == c \o d
           n == Len(q)
<1>1. /\ q \in Seq(E) /\ n \in Nat /\ DOMAIN q = 1..n
      /\ \A p \in DOMAIN c : p \in DOMAIN q /\ q[p] = c[p]
      /\ \A p \in DOMAIN d : Len(c) + p \in DOMAIN q /\ q[Len(c) + p] = d[p]
  BY DEF Content
<1>2. \A acc \in Content, e \in E : unique_section(acc, e) \in Content
  BY DEF unique_section, Content
<1>3. <<>> \in Content
  BY DEF Content
<1> HIDE DEF E, q
<1>4. PICK part \in [0..n -> Content] : UniquePartsOf(part, q)
  BY <1>1, <1>2, <1>3, UniqueParts
<1> DEFINE Has(k) == \A p \in 1..k : q[p] # <<>> => q[p] \in ToSet(part[k])
           T == {k \in 0..n : Has(k)}
<1>5. 0 \in T
  BY <1>1
<1>6. ASSUME NEW k \in 0..(n - 1), k \in T PROVE k + 1 \in T
  <2>1. k \in 0..n /\ k + 1 \in 0..n /\ k + 1 \in 1..(k + 1)
    BY <1>1
  <2>2. part[k + 1] = unique_section(part[k], q[k + 1]) /\ part[k] \in Seq(Seq(Word))
    BY <1>4, <2>1 DEF UniquePartsOf, Content
  <2>3. ToSet(part[k]) \subseteq ToSet(part[k + 1])
    <3>1. CASE part[k + 1] = part[k]
      BY <3>1
    <3>2. CASE part[k + 1] = Append(part[k], q[k + 1])
      <4>1. \A i \in DOMAIN part[k] : i \in DOMAIN part[k + 1] /\ part[k + 1][i] = part[k][i]
        BY <2>2, <3>2
      <4>2. QED BY <4>1 DEF ToSet
    <3>3. QED BY <2>2, <3>1, <3>2 DEF unique_section
  <2>4. q[k + 1] # <<>> => q[k + 1] \in ToSet(part[k + 1])
    <3>1. CASE q[k + 1] \in ToSet(part[k])
      BY <2>3, <3>1
    <3>2. CASE q[k + 1] \notin ToSet(part[k]) /\ q[k + 1] # <<>>
      <4>1. part[k + 1] = Append(part[k], q[k + 1])
        BY <2>2, <3>2 DEF unique_section
      <4>2. Len(part[k + 1]) \in DOMAIN part[k + 1] /\ part[k + 1][Len(part[k + 1])] = q[k + 1]
        BY <2>2, <4>1
      <4>3. QED BY <4>2 DEF ToSet
    <3>3. QED BY <3>1, <3>2
  <2>5. ASSUME NEW p \in 1..(k + 1), q[p] # <<>> PROVE q[p] \in ToSet(part[k + 1])
    <3>1. p = k + 1 \/ p \in 1..k
      BY <2>1
    <3>2. QED BY <1>6, <2>3, <2>4, <2>5, <3>1
  <2>6. QED BY <2>1, <2>5
<1> HIDE DEF T
<1>7. n \in T
  BY <1>1, <1>5, <1>6, BoundedInduction
<1>8. ASSUME NEW p \in DOMAIN q, NEW s \in Seq(Word), s # <<>>, s \in SubSeqs(q[p])
      PROVE  Says(merge_unique_reasoning(c, d), s)
  <2>1. q[p] \in Seq(Word)
    BY <1>1 DEF E
  <2>2. q[p] # <<>>
    BY <1>8, <2>1, SubSeqsFacts
  <2>3. q[p] \in ToSet(part[n])
    BY <1>1, <1>7, <2>2 DEF T
  <2>4. merge_unique_reasoning(c, d) = part[n]
    BY <1>4 DEF UniquePartsOf, merge_unique_reasoning, q
  <2>5. QED BY <1>8, <2>3, <2>4 DEF Says
<1>9. SaysStill(c, merge_unique_reasoning(c, d))
  BY <1>1, <1>8 DEF SaysStill, Says, ToSet
<1>10. SaysStill(d, merge_unique_reasoning(c, d))
  BY <1>1, <1>8 DEF SaysStill, Says, ToSet
<1>11. QED BY <1>9, <1>10

\* Content, kind or status of a card are changed.
Edited(al, m, p, n) ==
  /\ n \in SoundModel(al) /\ SameKeys(m, n) /\ n.index = m.index /\ DOMAIN n.items = DOMAIN m.items
  /\ \A q \in DOMAIN m.items : q # p => n.items[q] = m.items[q]

LEMMA FieldSound ==
  ASSUME NEW al, NEW m \in SoundModel(al), NEW p \in DOMAIN m.items
  PROVE  /\ \A x \in Content : Edited(al, m, p, [m EXCEPT !.items[p].content = x])
         /\ \A x \in Kinds : m.items[p].key[1] \in Generated =>
              Edited(al, m, p, [m EXCEPT !.items[p].kind = x])
         /\ \A x \in Statuses : Edited(al, m, p, [m EXCEPT !.items[p].status = x])
<1> DEFINE c == m.items[p]
           put(d) == [m EXCEPT !.items = [@ EXCEPT ![p] = d]]
<1>1. c \in SoundCard /\ m.items \in Seq(SoundCard) /\ DOMAIN m.items = 1..Len(m.items)
  BY ModelFacts
<1>2. m \in [items : Seq(SoundCard), index : Index, local : Nat]
  BY DEF SoundModel
<1>3. ASSUME NEW d \in SoundCard, d.key = c.key, d.pid = c.pid PROVE Edited(al, m, p, put(d))
  <2>1. put(d) \in SoundModel(al) /\ SameKeys(m, put(d))
    BY <1>3, EditSound
  <2>2. put(d).index = m.index /\ put(d).items = [m.items EXCEPT ![p] = d]
    BY <1>2
  <2>3. QED BY <2>1, <2>2 DEF Edited
<1>4. ASSUME NEW x \in Content PROVE Edited(al, m, p, [m EXCEPT !.items[p].content = x])
  <2> DEFINE d == [c EXCEPT !.content = x]
  <2>1. d \in SoundCard /\ d.key = c.key /\ d.pid = c.pid
    BY <1>1 DEF SoundCard
  <2>2. [m EXCEPT !.items[p].content = x] = put(d)
    BY <1>1, <1>2
  <2> HIDE DEF d, c, put
  <2>3. QED BY <1>3, <2>1, <2>2
<1>5. ASSUME NEW x \in Kinds, m.items[p].key[1] \in Generated
      PROVE  Edited(al, m, p, [m EXCEPT !.items[p].kind = x])
  <2> DEFINE d == [c EXCEPT !.kind = x]
  <2>1. d \in SoundCard /\ d.key = c.key /\ d.pid = c.pid
    BY <1>1, <1>5 DEF SoundCard
  <2>2. [m EXCEPT !.items[p].kind = x] = put(d)
    BY <1>1, <1>2
  <2> HIDE DEF d, c, put
  <2>3. QED BY <1>3, <2>1, <2>2
<1>6. ASSUME NEW x \in Statuses PROVE Edited(al, m, p, [m EXCEPT !.items[p].status = x])
  <2> DEFINE d == [c EXCEPT !.status = x]
  <2>1. d \in SoundCard /\ d.key = c.key /\ d.pid = c.pid
    BY <1>1 DEF SoundCard
  <2>2. [m EXCEPT !.items[p].status = x] = put(d)
    BY <1>1, <1>2
  <2> HIDE DEF d, c, put
  <2>3. QED BY <1>3, <2>1, <2>2
<1>7. QED BY <1>4, <1>5, <1>6

LEMMA EditListed ==
  ASSUME NEW al, NEW m \in SoundModel(al), NEW n \in SoundModel(al), NEW o, NEW p,
         Edited(al, n, p, o)
  PROVE  /\ Listed(m, n) => Listed(m, o)
         /\ NewTied(al, m, n) => NewTied(al, m, o)
<1>1. /\ o.index = n.index /\ Len(o.items) = Len(n.items)
      /\ \A q \in 1..Len(n.items) :
           o.items[q].key = n.items[q].key /\ o.items[q].pid = n.items[q].pid
  BY DEF Edited, SameKeys
<1>2. QED BY <1>1 DEF Listed, NewTied, Tied

\* A card is pushed.
LEMMA PushListed ==
  ASSUME NEW al, NEW m \in SoundModel(al), NEW c \in SoundCard, NEW n,
         n = push_without_splice(m, c)
  PROVE  /\ DOMAIN n.index = DOMAIN m.index \cup {c.key}
         /\ c.pid \in {c.key, NoKey} => Listed(m, n)
         /\ Tied(al, c) => NewTied(al, m, n)
<1>1. /\ n.items = Append(m.items, c) /\ n.index = Put(m.index, c.key, Len(m.items) + 1)
      /\ m.items \in Seq(SoundCard)
  BY PushSound, ModelFacts
<1>2. /\ Len(n.items) = Len(m.items) + 1 /\ Len(m.items) \in Nat
      /\ n.items[Len(m.items) + 1] = c
  BY <1>1
<1>3. DOMAIN n.index = DOMAIN m.index \cup {c.key}
  BY <1>1 DEF Put
<1>4. \A p \in 1..Len(n.items) : p \notin 1..Len(m.items) => n.items[p] = c
  BY <1>2
<1>5. QED BY <1>3, <1>4 DEF Listed, NewTied

LEMMA StepThenEdit ==
  ASSUME NEW al, NEW m \in SoundModel(al), NEW n, NEW o, NEW p,
         Step(al, m, n), Edited(al, n, p, o)
  PROVE  Step(al, m, o)
<1>1. Len(m.items) \in Nat /\ Len(n.items) \in Nat /\ n \in SoundModel(al) /\ KeyStep(m, n)
  BY ModelFacts DEF Step
<1>2. /\ o \in SoundModel(al) /\ Len(o.items) = Len(n.items)
      /\ \A q \in 1..Len(n.items) :
           o.items[q].key = n.items[q].key /\ o.items[q].pid = n.items[q].pid
  BY DEF Edited, SameKeys
<1>3. Listed(m, o) /\ NewTied(al, m, o)
  BY <1>1, EditListed DEF Step
<1>4. CASE SameKeys(m, n)
  BY <1>1, <1>2, <1>3, <1>4 DEF Step, KeyStep, SameKeys
<1>5. CASE NewCard(m, n)
  <2>1. /\ Len(o.items) = Len(m.items) + 1 /\ Len(o.items) \in 1..Len(n.items)
        /\ \A q \in 1..Len(m.items) : q \in 1..Len(n.items)
    BY <1>1, <1>2, <1>5 DEF NewCard
  <2>2. NewCard(m, o)
    BY <1>2, <1>5, <2>1 DEF NewCard
  <2>3. QED BY <1>2, <1>3, <2>2 DEF Step, KeyStep
<1>6. CASE Echoed(m, n)
  <2>1. Echoed(m, o)
    BY <1>1, <1>2, <1>6 DEF Echoed
  <2>2. QED BY <1>2, <1>3, <2>1 DEF Step, KeyStep
<1>7. QED BY <1>1, <1>4, <1>5, <1>6 DEF KeyStep

LEMMA SameStep ==
  ASSUME NEW al, NEW m \in SoundModel(al)
  PROVE  Step(al, m, m)
  BY DEF Step, KeyStep, SameKeys, Listed, NewTied

LEMMA StreamSound ==
  ASSUME NEW al, NEW m \in SoundModel(al), NEW id \in Items, NEW kind \in ItemKinds
  PROVE  LET n == StreamCard(m, id, kind)
         IN  Step(al, m, n) /\ ItemKey(id) \in DOMAIN n.index
<1> DEFINE c == Card(ItemKey(id), ItemKey(id), kind, "streaming", <<>>)
           n == push_without_splice(m, c)
<1>1. CASE Found(m, ItemKey(id))
  BY <1>1, SameStep DEF StreamCard, Found
<1>2. CASE ~ Found(m, ItemKey(id))
  <2>1. ItemKey(id) \in Keys /\ ItemKey(id)[1] = "item" /\ <<>> \in Content
    BY KeyFacts DEF Content
  <2>2. c \in SoundCard /\ c.key = ItemKey(id) /\ c.pid = ItemKey(id)
    BY <2>1 DEF SoundCard, Card, Statuses, Kinds
  <2>3. StreamCard(m, id, kind) = n
    BY <1>2 DEF StreamCard
  <2> HIDE DEF c
  <2>4. /\ n \in SoundModel(al) /\ n.index = Put(m.index, ItemKey(id), Len(m.items) + 1)
        /\ c.key \notin DOMAIN m.index /\ c.key[1] # "local-user" => NewCard(m, n)
    BY <2>2, PushSound
  <2>5. NewCard(m, n)
    BY <1>2, <2>1, <2>2, <2>4 DEF Found
  <2>6. ItemKey(id) \in DOMAIN n.index
    BY <2>4 DEF Put
  <2>7. Listed(m, n) /\ NewTied(al, m, n)
    <3>1. Tied(al, c)
      BY <2>1, <2>2 DEF Tied
    <3>2. QED BY <2>2, <3>1, PushListed
  <2>8. QED BY <2>3, <2>4, <2>5, <2>6, <2>7 DEF Step, KeyStep
<1>3. QED BY <1>1, <1>2

LEMMA DeltaSound ==
  ASSUME NEW al, NEW m \in SoundModel(al), NEW id \in Items, NEW kind \in ItemKinds, NEW w \in Word
  PROVE  Step(al, m, append_delta(m, id, kind, w)) /\ Step(al, m, summaryPartAdded(m, id))
<1>1. ASSUME NEW k \in ItemKinds, NEW n, n = StreamCard(m, id, k)
      PROVE  \A x \in Content : Step(al, m, [n EXCEPT !.items[n.index[ItemKey(id)]].content = x])
  <2>1. Step(al, m, n) /\ ItemKey(id) \in DOMAIN n.index
    BY <1>1, StreamSound
  <2>2. n \in SoundModel(al) /\ KeyStep(m, n)
    BY <2>1 DEF Step
  <2>3. n.index[ItemKey(id)] \in DOMAIN n.items
    BY <2>1, <2>2, ModelFacts
  <2>4. ASSUME NEW x \in Content
        PROVE  Step(al, m, [n EXCEPT !.items[n.index[ItemKey(id)]].content = x])
    <3>1. Edited(al, n, n.index[ItemKey(id)], [n EXCEPT !.items[n.index[ItemKey(id)]].content = x])
      BY <2>2, <2>3, FieldSound
    <3>2. QED BY <2>1, <3>1, StepThenEdit
  <2>5. QED BY <2>4
<1>2. ASSUME NEW k \in ItemKinds, NEW n, n = StreamCard(m, id, k)
      PROVE  n.items[n.index[ItemKey(id)]].content \in Content
  <2>1. n \in SoundModel(al) /\ ItemKey(id) \in DOMAIN n.index
    BY <1>2, StreamSound DEF Step
  <2>2. n.items[n.index[ItemKey(id)]] \in SoundCard
    BY <2>1, ModelFacts
  <2>3. QED BY <2>2 DEF SoundCard
<1>3. Step(al, m, append_delta(m, id, kind, w))
  <2> DEFINE n == StreamCard(m, id, kind)
             p == n.index[ItemKey(id)]
             x == PushWord(n.items[p].content, w)
  <2>1. x \in Content
    BY <1>2, TextSound
  <2>2. append_delta(m, id, kind, w) = [n EXCEPT !.items[p].content = x]
    BY DEF append_delta
  <2> HIDE DEF n, x
  <2>3. QED BY <1>1, <2>1, <2>2 DEF n
<1>4. Step(al, m, summaryPartAdded(m, id))
  <2> DEFINE n == StreamCard(m, id, "reasoning")
             p == n.index[ItemKey(id)]
             x == PushBreak(n.items[p].content)
  <2>1. x \in Content
    BY <1>2, TextSound DEF ItemKinds
  <2>2. summaryPartAdded(m, id) = [n EXCEPT !.items[p].content = x]
    BY DEF summaryPartAdded
  <2> HIDE DEF n, x
  <2>3. QED BY <1>1, <2>1, <2>2 DEF n, ItemKinds
<1>5. QED BY <1>3, <1>4

\* The entry of the key of a generated card is that card.
LEMMA GeneratedCard ==
  ASSUME NEW al, NEW m \in SoundModel(al), NEW g \in Generated, NEW t \in Users,
         <<g, t>> \in DOMAIN m.index
  PROVE  LET p == m.index[<<g, t>>]
         IN  p \in DOMAIN m.items /\ m.items[p] \in SoundCard /\ m.items[p].key = <<g, t>>
<1> DEFINE key == <<g, t>>
           p   == m.index[key]
<1>1. key[1] \notin {"item", "turn-reasoning", "local-user"}
  BY KeyFacts DEF Generated
<1>2. p \in DOMAIN m.items /\ m.items[p] \in SoundCard /\ Stands(al, key, m.items[p])
  BY ModelFacts
<1> HIDE DEF p
<1>3. CASE key \in KeysOf(m.items[p])
  BY <1>2, <1>3, CardKeys DEF p
<1>4. CASE \E z \in al : key = ItemKey(z[1]) /\ m.items[p].key = ReasoningKey(z[2])
  <2>1. PICK z \in al : key = ItemKey(z[1])
    BY <1>4
  <2>2. key[1] = "item"
    BY <2>1 DEF ItemKey
  <2>3. QED BY <1>1, <2>2
<1>5. QED BY <1>2, <1>3, <1>4 DEF Stands, p

LEMMA GeneratedSound ==
  ASSUME NEW al, NEW m \in SoundModel(al), NEW g \in Generated, NEW t \in Users,
         NEW kind \in Kinds, NEW x \in Content
  PROVE  Step(al, m, upsert_generated(m, <<g, t>>, kind, x))
<1> DEFINE key == <<g, t>>
<1>1. key \in Keys /\ key[1] = g /\ key[1] \notin {"item", "turn-reasoning", "local-user"}
  BY KeyFacts DEF Generated
<1>2. CASE Found(m, key)
  <2> DEFINE p == m.index[key]
             n == [m EXCEPT !.items[p].kind = kind]
             o == [n EXCEPT !.items[p].content = x]
  <2>1. p \in DOMAIN m.items /\ m.items[p].key = key
    BY <1>2, GeneratedCard DEF Found
  <2>2. Edited(al, m, p, n)
    <3> HIDE DEF p
    <3> QED BY <1>1, <2>1, FieldSound
  <2>3. upsert_generated(m, key, kind, x) = o
    BY <1>2 DEF upsert_generated
  <2> HIDE DEF n, p
  <2>4. n \in SoundModel(al) /\ p \in DOMAIN n.items /\ Step(al, m, n)
    BY <2>1, <2>2, SameStep, StepThenEdit DEF Edited
  <2>5. Edited(al, n, p, o)
    BY <2>4, FieldSound
  <2> HIDE DEF o
  <2>6. QED BY <2>3, <2>4, <2>5, StepThenEdit
<1>3. CASE ~ Found(m, key)
  <2> DEFINE c == Card(key, NoKey, kind, "none", x)
             n == push_without_splice(m, c)
  <2>1. c \in SoundCard /\ c.key = key /\ c.pid = NoKey
    BY <1>1 DEF SoundCard, Card, Statuses
  <2>2. upsert_generated(m, key, kind, x) = n
    BY <1>3 DEF upsert_generated
  <2> HIDE DEF c, key
  <2>3. n \in SoundModel(al) /\ NewCard(m, n)
    BY <1>1, <1>3, <2>1, PushSound DEF Found
  <2>4. Listed(m, n) /\ NewTied(al, m, n)
    <3>1. Tied(al, c)
      BY <1>1, <2>1 DEF Tied
    <3>2. QED BY <2>1, <3>1, PushListed
  <2>5. QED BY <2>2, <2>3, <2>4 DEF Step, KeyStep, key
<1>4. QED BY <1>2, <1>3

\* What a step about one key does to the other cards: those of other items are as they were,
\* and a reasoning card still says what it said.
Others(m, n, k) ==
  \A p \in DOMAIN m.items :
    /\ m.items[p].key[1] = "item" /\ m.items[p].key # k =>
         p \in DOMAIN n.items /\ n.items[p] = m.items[p]
    /\ m.items[p].key[1] = "turn-reasoning" =>
         /\ p \in DOMAIN n.items /\ n.items[p].key = m.items[p].key
         /\ SaysStill(m.items[p].content, n.items[p].content)

LEMMA KeptOthers ==
  ASSUME NEW m, NEW n, NEW k,
         \A p \in DOMAIN m.items :
           \/ m.items[p].key[1] = "item" /\ m.items[p].key # k
           \/ m.items[p].key[1] = "turn-reasoning"
           => p \in DOMAIN n.items /\ n.items[p] = m.items[p]
  PROVE  Others(m, n, k)
<1>1. \A c : SaysStill(c, c)
  BY DEF SaysStill
<1>2. QED BY <1>1 DEF Others

LEMMA OthersTwice ==
  ASSUME NEW m, NEW n, NEW o, NEW k, Others(m, n, k), Others(n, o, k)
  PROVE  Others(m, o, k)
<1>1. \A c, d, e : SaysStill(c, d) /\ SaysStill(d, e) => SaysStill(c, e)
  BY DEF SaysStill
<1>2. QED BY <1>1 DEF Others

\* A change of one card, which has the key, or is neither that of an item nor one of
\* reasoning, or is one of reasoning that only grows.
LEMMA EditOthers ==
  ASSUME NEW al, NEW m \in SoundModel(al), NEW p \in DOMAIN m.items, NEW n, Edited(al, m, p, n),
         NEW k,
         \/ m.items[p].key[1] = "item" /\ m.items[p].key = k
         \/ m.items[p].key[1] \notin {"item", "turn-reasoning"}
         \/ /\ m.items[p].key[1] = "turn-reasoning"
            /\ SaysStill(m.items[p].content, n.items[p].content)
  PROVE  Others(m, n, k)
<1>1. DOMAIN m.items = 1..Len(m.items)
  BY ModelFacts
<1>2. \A c : SaysStill(c, c)
  BY DEF SaysStill
<1>3. DOMAIN n.items = DOMAIN m.items /\ n.items[p].key = m.items[p].key
      /\ \A q \in DOMAIN m.items : q # p => n.items[q] = m.items[q]
  BY <1>1 DEF Edited, SameKeys
<1>4. QED BY <1>1, <1>2, <1>3 DEF Others

\* The new text of a card.
LEMMA EditText ==
  ASSUME NEW al, NEW m \in SoundModel(al), NEW p \in DOMAIN m.items, NEW x
  PROVE  [m EXCEPT !.items[p].content = x].items[p].content = x
<1>1. m \in [items : Seq(SoundCard), index : Index, local : Nat] /\ m.items[p] \in SoundCard
  BY ModelFacts DEF SoundModel
<1>2. [m EXCEPT !.items[p].content = x].items = [m.items EXCEPT ![p] = [@ EXCEPT !.content = x]]
  BY <1>1
<1>3. [m EXCEPT !.items[p].content = x].items[p] = [m.items[p] EXCEPT !.content = x]
  BY <1>2
<1>4. QED BY <1>1, <1>3 DEF SoundCard

LEMMA DeltaOthers ==
  ASSUME NEW al, al \subseteq Reasonings \X Users, NEW m \in SoundModel(al), NEW id \in Items,
         NEW kind \in ItemKinds, NEW w \in Word
  PROVE  Others(m, append_delta(m, id, kind, w), ItemKey(id)) /\ Others(m, summaryPartAdded(m, id), ItemKey(id))
<1>1. ASSUME NEW k \in ItemKinds, NEW n, n = StreamCard(m, id, k)
      PROVE  /\ n \in SoundModel(al) /\ Others(m, n, ItemKey(id))
             /\ n.index[ItemKey(id)] \in DOMAIN n.items
             /\ n.items[n.index[ItemKey(id)]] \in SoundCard
             /\ \/ n.items[n.index[ItemKey(id)]].key = ItemKey(id)
                \/ n.items[n.index[ItemKey(id)]].key[1] = "turn-reasoning"
  <2>1. n \in SoundModel(al) /\ ItemKey(id) \in DOMAIN n.index
    BY <1>1, StreamSound DEF Step
  <2> DEFINE p == n.index[ItemKey(id)]
  <2>2. p \in DOMAIN n.items /\ n.items[p] \in SoundCard /\ Stands(al, ItemKey(id), n.items[p])
    BY <2>1, ModelFacts
  <2>3. n.items[p].key = ItemKey(id) \/ n.items[p].key[1] = "turn-reasoning"
    <3> HIDE DEF p
    <3>1. CASE ItemKey(id) \in KeysOf(n.items[p])
      <4>1. ItemKey(id) = n.items[p].key \/ ItemKey(id) = n.items[p].pid
        BY <3>1 DEF KeysOf
      <4>2. ItemKey(id) # NoKey
        BY KeyFacts
      <4>3. QED BY <2>2, <4>1, <4>2 DEF SoundCard
    <3>2. CASE \E z \in al : ItemKey(id) = ItemKey(z[1]) /\ n.items[p].key = ReasoningKey(z[2])
      BY <3>2, KeyFacts
    <3>3. QED BY <2>2, <3>1, <3>2 DEF Stands
  <2>4. Others(m, n, ItemKey(id))
    <3>1. CASE Found(m, ItemKey(id))
      <4>1. n = m
        BY <1>1, <3>1 DEF StreamCard
      <4>2. QED BY <4>1, KeptOthers
    <3>2. CASE ~ Found(m, ItemKey(id))
      <4> DEFINE c == Card(ItemKey(id), ItemKey(id), k, "streaming", <<>>)
      <4>1. ItemKey(id) \in Keys /\ ItemKey(id)[1] = "item" /\ <<>> \in Content
        BY KeyFacts DEF Content
      <4>2. c \in SoundCard
        BY <4>1 DEF SoundCard, Card, Statuses, Kinds
      <4>3. n = push_without_splice(m, c)
        BY <1>1, <3>2 DEF StreamCard
      <4> HIDE DEF c
      <4>4. n.items = Append(m.items, c) /\ m.items \in Seq(SoundCard)
        BY <4>2, <4>3, PushSound, ModelFacts
      <4>5. \A q \in DOMAIN m.items : q \in DOMAIN n.items /\ n.items[q] = m.items[q]
        BY <4>2, <4>4
      <4>6. QED BY <4>5, KeptOthers
    <3>3. QED BY <3>1, <3>2
  <2>5. QED BY <2>1, <2>2, <2>3, <2>4
<1>2. ASSUME NEW k \in ItemKinds, NEW n, n = StreamCard(m, id, k), NEW x \in Content,
             SaysStill(n.items[n.index[ItemKey(id)]].content, x)
      PROVE  Others(m, [n EXCEPT !.items[n.index[ItemKey(id)]].content = x], ItemKey(id))
  <2> DEFINE p == n.index[ItemKey(id)]
             o == [n EXCEPT !.items[p].content = x]
  <2>0. ItemKey(id)[1] = "item"
    BY KeyFacts
  <2>1. /\ n \in SoundModel(al) /\ Others(m, n, ItemKey(id)) /\ p \in DOMAIN n.items
        /\ n.items[p].key = ItemKey(id) \/ n.items[p].key[1] = "turn-reasoning"
    BY <1>1, <1>2
  <2>2. SaysStill(n.items[p].content, x)
    BY <1>2
  <2> HIDE DEF p
  <2>3. Edited(al, n, p, o) /\ o.items[p].content = x
    BY <2>1, FieldSound, EditText
  <2> HIDE DEF o
  <2>4. Others(n, o, ItemKey(id))
    BY <2>0, <2>1, <2>2, <2>3, EditOthers
  <2>5. Others(m, o, ItemKey(id))
    BY <2>1, <2>4, OthersTwice
  <2>6. QED BY <2>5 DEF o, p
<1>3. ASSUME NEW k \in ItemKinds, NEW n, n = StreamCard(m, id, k)
      PROVE  n.items[n.index[ItemKey(id)]].content \in Content
  BY <1>1, <1>3 DEF SoundCard
<1>4. Others(m, append_delta(m, id, kind, w), ItemKey(id))
  <2> DEFINE n == StreamCard(m, id, kind)
             p == n.index[ItemKey(id)]
             x == PushWord(n.items[p].content, w)
  <2>1. n.items[p].content \in Content
    BY <1>3
  <2>2. x \in Content /\ SaysStill(n.items[p].content, x)
    BY <2>1, TextSound, PushSays
  <2>3. append_delta(m, id, kind, w) = [n EXCEPT !.items[p].content = x]
    BY DEF append_delta
  <2> HIDE DEF n, x
  <2>4. QED BY <1>2, <2>2, <2>3 DEF n
<1>5. Others(m, summaryPartAdded(m, id), ItemKey(id))
  <2> DEFINE n == StreamCard(m, id, "reasoning")
             p == n.index[ItemKey(id)]
             x == PushBreak(n.items[p].content)
  <2>0. "reasoning" \in ItemKinds
    BY DEF ItemKinds
  <2>1. n.items[p].content \in Content
    BY <1>3, <2>0
  <2>2. x \in Content /\ SaysStill(n.items[p].content, x)
    BY <2>1, TextSound, PushSays
  <2>3. summaryPartAdded(m, id) = [n EXCEPT !.items[p].content = x]
    BY DEF summaryPartAdded
  <2> HIDE DEF n, x
  <2>4. QED BY <1>2, <2>0, <2>2, <2>3 DEF n
<1>6. QED BY <1>4, <1>5

LEMMA GeneratedOthers ==
  ASSUME NEW al, al \subseteq Reasonings \X Users, NEW m \in SoundModel(al), NEW g \in Generated,
         NEW t \in Users, NEW kind \in Kinds, NEW x \in Content
  PROVE  Others(m, upsert_generated(m, <<g, t>>, kind, x), NoKey)
<1> DEFINE key == <<g, t>>
<1>1. key \in Keys /\ key[1] = g /\ key[1] \notin {"item", "turn-reasoning", "local-user"}
  BY KeyFacts DEF Generated
<1>2. CASE Found(m, key)
  <2> DEFINE p == m.index[key]
             n == [m EXCEPT !.items[p].kind = kind]
             o == [n EXCEPT !.items[p].content = x]
  <2>1. p \in DOMAIN m.items /\ m.items[p] \in SoundCard
    BY <1>2, GeneratedCard DEF Found
  <2>2. m.items[p].key = key
    BY <1>2, GeneratedCard DEF Found
  <2>3. Edited(al, m, p, n)
    <3> HIDE DEF p
    <3> QED BY <1>1, <2>1, <2>2, FieldSound
  <2>4. upsert_generated(m, key, kind, x) = o
    BY <1>2 DEF upsert_generated
  <2> HIDE DEF n, p
  <2>5. n \in SoundModel(al) /\ p \in DOMAIN n.items /\ n.items[p].key = key
    BY <2>1, <2>2, <2>3, ModelFacts DEF Edited, SameKeys
  <2>6. Edited(al, n, p, o)
    BY <2>5, FieldSound
  <2> HIDE DEF o, key
  <2>7. Others(m, n, NoKey)
    BY <1>1, <2>1, <2>2, <2>3, EditOthers
  <2>8. Others(n, o, NoKey)
    BY <1>1, <2>5, <2>6, EditOthers
  <2>9. QED BY <2>4, <2>7, <2>8, OthersTwice DEF key
<1>3. CASE ~ Found(m, key)
  <2> DEFINE c == Card(key, NoKey, kind, "none", x)
             n == push_without_splice(m, c)
  <2>1. c \in SoundCard
    BY <1>1 DEF SoundCard, Card, Statuses
  <2>2. upsert_generated(m, key, kind, x) = n
    BY <1>3 DEF upsert_generated
  <2> HIDE DEF c, key
  <2>3. n.items = Append(m.items, c) /\ m.items \in Seq(SoundCard)
    BY <2>1, PushSound, ModelFacts
  <2> HIDE DEF n
  <2>4. \A q \in DOMAIN m.items : q \in DOMAIN n.items /\ n.items[q] = m.items[q]
    BY <2>1, <2>3
  <2>5. Others(m, n, NoKey)
    BY <2>4, KeptOthers
  <2>6. QED BY <2>2, <2>5 DEF key
<1>4. QED BY <1>2, <1>3

\* The key of the card of an item.
NameOf(item) == IF item.kind = "reasoning" THEN ReasoningKey(item.turn) ELSE ItemKey(item.id)

\* What an upsert does to the cards of other items, and to its own.
Upserted(al, m, item, n) ==
  /\ Step(al, m, n)
  /\ Others(m, n, ItemKey(item.id))
  /\ item.kind # "reasoning" =>
       \E p \in DOMAIN n.items : n.items[p].pid = ItemKey(item.id) /\ n.items[p].content = item.text
  /\ item.kind = "reasoning" =>
       \E p \in DOMAIN n.items :
         n.items[p].key = ReasoningKey(item.turn) /\ SaysStill(item.text, n.items[p].content)
  /\ Len(n.items) # Len(m.items) => n.items[Len(n.items)].key = NameOf(item)

LEMMA ItemCard ==
  ASSUME NEW al, NEW item \in SoundItem(al), NEW completed \in BOOLEAN
  PROVE  LET c == item_from_protocol(item, completed)
         IN  /\ c \in SoundCard /\ c.key = ItemKey(item.id) /\ c.pid = ItemKey(item.id)
             /\ c.content = item.text /\ c.status \in Statuses /\ c.key[1] = "item"
             /\ item.id \in Items /\ item.turn \in Users /\ item.text \in Content
             /\ item.kind \in ItemKinds
<1>1. item.id \in Items /\ item.turn \in Users /\ item.text \in Content /\ item.kind \in ItemKinds
  BY DEF SoundItem
<1>2. ItemKey(item.id) \in Keys /\ ItemKey(item.id)[1] = "item"
  BY <1>1, KeyFacts
<1>3. QED BY <1>1, <1>2 DEF item_from_protocol, Card, SoundCard, Statuses, Kinds

LEMMA ReasoningUpsertSound ==
  ASSUME NEW al, NEW m \in SoundModel(al), NEW item \in SoundItem(al), NEW completed \in BOOLEAN,
         item.kind = "reasoning"
  PROVE  Upserted(al, m, item, UpsertReasoning(m, item, completed))
<1> DEFINE key == ReasoningKey(item.turn)
           c   == item_from_protocol(item, completed)
           id  == ItemKey(item.id)
           N   == UpsertReasoning(m, item, completed)
<1>1. /\ c \in SoundCard /\ c.key = id /\ c.pid = id /\ c.content = item.text
      /\ c.status \in Statuses /\ item.id \in Items /\ item.turn \in Users
      /\ item.text \in Content
  BY ItemCard
<1>2. <<item.id, item.turn>> \in al /\ item.id \in Reasonings
  <2>1. KindOf(item.id) = "reasoning" /\ <<item.id, item.turn>> \in al
    BY DEF SoundItem
  <2>2. QED BY <1>1, <2>1 DEF KindOf, Items
<1>3. key \in Keys /\ key[1] = "turn-reasoning"
  BY <1>1, KeyFacts
<1>4. ASSUME NEW n \in SoundModel(al), key \in DOMAIN n.index, KeyStep(m, n),
             \A k \in DOMAIN m.index : k \in DOMAIN n.index, NewTied(al, m, n),
             \A p \in 1..Len(n.items) : p \notin 1..Len(m.items) => n.items[p].pid = id,
             N = [n EXCEPT !.index = Put(@, id, n.index[key])], Others(m, n, ItemKey(item.id)),
             \E p \in DOMAIN n.items :
               n.items[p].key = ReasoningKey(item.turn) /\ SaysStill(item.text, n.items[p].content),
             Len(n.items) # Len(m.items) => n.items[Len(n.items)].key = key
      PROVE  Upserted(al, m, item, N)
  <2>1. N \in SoundModel(al) /\ N.items = n.items
    BY <1>1, <1>2, <1>4, AliasSound
  <2>2. KeyStep(m, N)
    BY <1>4, <2>1 DEF KeyStep, SameKeys, NewCard, Echoed
  <2>3. DOMAIN N.index = DOMAIN n.index \cup {id}
    <3>1. N.index = Put(n.index, id, n.index[key])
      BY <1>4 DEF SoundModel
    <3> HIDE DEF N
    <3>2. QED BY <3>1 DEF Put
  <2> HIDE DEF N, id
  <2>4. Listed(m, N) /\ NewTied(al, m, N)
    BY <1>4, <2>1, <2>3 DEF Listed, NewTied
  <2>5. QED BY <1>4, <2>1, <2>2, <2>4 DEF Upserted, Step, Others, NameOf
<1>5. CASE Found(m, key)
  <2> DEFINE q == m.index[key]
             text == merge_unique_reasoning(m.items[q].content, c.content)
             n == [m EXCEPT !.items[q].content = text]
             o == [n EXCEPT !.items[q].status = c.status]
  <2>1. /\ q \in DOMAIN m.items /\ m.items[q] \in SoundCard
        /\ Stands(al, key, m.items[q])
    BY <1>5, ModelFacts DEF Found
  <2>2. m.items[q].key = key
    BY <1>1, <2>1, KeyFacts, CardKeys DEF Stands
  <2>3. /\ text \in Content /\ SaysStill(m.items[q].content, text)
        /\ SaysStill(item.text, text)
    BY <1>1, <2>1, ReasoningSound, MergeSays DEF SoundCard
  <2>4. N = [o EXCEPT !.index = Put(@, id, o.index[key])]
    BY <1>5 DEF UpsertReasoning
  <2> HIDE DEF q, text, c, key
  <2>5. Edited(al, m, q, n) /\ n.items[q].content = text
    BY <2>1, <2>3, FieldSound, EditText
  <2> HIDE DEF n
  <2>6. n \in SoundModel(al) /\ q \in DOMAIN n.items /\ Step(al, m, n)
    BY <2>1, <2>5, SameStep, StepThenEdit DEF Edited
  <2>7. Edited(al, n, q, o)
    BY <1>1, <2>6, FieldSound
  <2> HIDE DEF o
  <2>8. o \in SoundModel(al) /\ KeyStep(m, o) /\ NewTied(al, m, o)
    BY <2>6, <2>7, StepThenEdit DEF Step
  <2>9. key \in DOMAIN o.index
    BY <1>5, <2>5, <2>7 DEF Edited, Found
  <2>10. /\ q \in DOMAIN n.items /\ n.items[q].key = key /\ q \in DOMAIN o.items
         /\ o.items[q].key = key /\ o.items[q].content = text
    <3>1. q \in DOMAIN n.items /\ n.items[q].key = key /\ q \in 1..Len(n.items)
      BY <2>1, <2>2, <2>5, <2>6, ModelFacts DEF Edited, SameKeys
    <3>2. q \in DOMAIN o.items /\ o.items[q].key = key
      BY <2>7, <3>1 DEF Edited, SameKeys
    <3>3. n.items[q] \in SoundCard /\ n \in [items : Seq(SoundCard), index : Index, local : Nat]
      BY <2>6, <3>1, ModelFacts DEF SoundModel
    <3>4. o.items = [n.items EXCEPT ![q] = [@ EXCEPT !.status = c.status]]
      BY <3>3 DEF o
    <3>5. o.items[q] = [n.items[q] EXCEPT !.status = c.status]
      BY <3>1, <3>4
    <3>6. o.items[q].content = text
      BY <2>5, <3>3, <3>5 DEF SoundCard
    <3>7. QED BY <3>1, <3>2, <3>6
  <2>11. Others(m, o, ItemKey(item.id))
    <3>1. \A x : SaysStill(x, x)
      BY DEF SaysStill
    <3>2. Others(m, n, ItemKey(item.id))
      BY <1>3, <2>1, <2>2, <2>3, <2>5, EditOthers
    <3>3. SaysStill(n.items[q].content, o.items[q].content)
      BY <2>5, <2>10, <3>1
    <3>4. Others(n, o, ItemKey(item.id))
      BY <1>3, <2>6, <2>7, <2>10, <3>3, EditOthers
    <3>5. QED BY <3>2, <3>4, OthersTwice
  <2>12. \E p \in DOMAIN o.items :
            o.items[p].key = ReasoningKey(item.turn) /\ SaysStill(item.text, o.items[p].content)
    BY <2>3, <2>10 DEF key
  <2>13. Len(o.items) = Len(m.items) /\ o.index = m.index
    BY <2>5, <2>7 DEF Edited, SameKeys
  <2> HIDE DEF N
  <2>14. Upserted(al, m, item, N)
    BY <1>4, <2>4, <2>8, <2>9, <2>11, <2>12, <2>13 DEF key
  <2>15. QED BY <2>14 DEF N
<1>6. CASE ~ Found(m, key)
  <2> DEFINE d == [c EXCEPT !.key = key]
             n == push_without_splice(m, d)
  <2>1. d \in SoundCard /\ d.key = key /\ d.content = item.text /\ d.pid = id
    <3>1. /\ d.key = key /\ d.pid = id /\ d.kind = c.kind /\ d.status = c.status
          /\ d.content = c.content
      BY <1>1 DEF SoundCard
    <3>2. d \in [key : Keys, pid : Keys \cup {NoKey}, kind : Kinds, status : Statuses,
                 content : Content]
      BY <1>1, <1>3 DEF SoundCard
    <3>3. \E r \in Reasonings : d.pid = ItemKey(r)
      BY <1>2, <3>1
    <3>4. d.kind \in ItemKinds
      BY <1>1, <3>1, ItemCard DEF item_from_protocol, Card
    <3> HIDE DEF d
    <3>5. QED BY <1>1, <1>3, <3>1, <3>2, <3>3, <3>4 DEF SoundCard
  <2>2. N = [n EXCEPT !.index = Put(@, id, n.index[key])]
    BY <1>6 DEF UpsertReasoning
  <2> HIDE DEF d
  <2>3. Tied(al, d)
    <3>1. <<item.id, item.turn>>[1] = item.id /\ <<item.id, item.turn>>[2] = item.turn
      OBVIOUS
    <3>2. QED BY <1>2, <2>1, <3>1 DEF Tied
  <2> HIDE DEF key
  <2>4. /\ n \in SoundModel(al) /\ n.items = Append(m.items, d) /\ NewCard(m, n)
        /\ n.index = Put(m.index, key, Len(m.items) + 1)
    BY <1>3, <1>6, <2>1, PushSound DEF Found
  <2>5. NewTied(al, m, n)
    BY <2>3, <2>1, PushListed
  <2> HIDE DEF n
  <2>6. /\ key \in DOMAIN n.index /\ KeyStep(m, n)
        /\ \A k \in DOMAIN m.index : k \in DOMAIN n.index
    BY <2>4 DEF Put, KeyStep
  <2>7. m.items \in Seq(SoundCard)
    BY ModelFacts
  <2>8. \A p \in DOMAIN m.items : p \in DOMAIN n.items /\ n.items[p] = m.items[p]
    BY <2>1, <2>4, <2>7
  <2>9. Others(m, n, ItemKey(item.id))
    BY <1>1, <2>8, KeptOthers
  <2>10. \E p \in DOMAIN n.items :
           n.items[p].key = ReasoningKey(item.turn) /\ SaysStill(item.text, n.items[p].content)
    <3>1. Len(m.items) + 1 \in DOMAIN n.items /\ n.items[Len(m.items) + 1] = d
      BY <2>1, <2>4, <2>7
    <3>2. QED BY <2>1, <3>1 DEF SaysStill, key
  <2>11. n.items[Len(n.items)].key = key
    BY <2>1, <2>4, <2>7
  <2>12. \A p \in 1..Len(n.items) : p \notin 1..Len(m.items) => n.items[p].pid = id
    BY <2>1, <2>4, <2>7
  <2> HIDE DEF N
  <2>13. Upserted(al, m, item, N)
    BY <1>4, <2>2, <2>4, <2>6, <2>9, <2>10, <2>11, <2>5, <2>12 DEF key
  <2>14. QED BY <2>13 DEF N
<1>7. QED BY <1>5, <1>6

\* An item that is not reasoning: a change of its card, the place of the message it echoes,
\* or a new card.
LEMMA UpsertSound ==
  ASSUME NEW al, al \subseteq Reasonings \X Users, NEW m \in SoundModel(al),
         NEW item \in SoundItem(al), NEW completed \in BOOLEAN
  PROVE  Upserted(al, m, item, upsert_protocol_item(m, item, completed))
<1> DEFINE c == item_from_protocol(item, completed)
           key == ItemKey(item.id)
           N == upsert_protocol_item(m, item, completed)
           e == LocalEcho(m, item)
<1>1. CASE item.kind = "reasoning"
  <2>1. N = UpsertReasoning(m, item, completed)
    BY <1>1 DEF upsert_protocol_item
  <2>2. QED BY <1>1, <2>1, ReasoningUpsertSound
<1>2. CASE item.kind # "reasoning"
  <2>1. /\ c \in SoundCard /\ c.key = key /\ c.pid = key /\ c.content = item.text
        /\ item.id \in Items /\ c.key[1] = "item" /\ key \in Keys
    BY ItemCard, KeyFacts
  <2>2. item.id \notin Reasonings
    <3>1. item.kind = KindOf(item.id)
      BY DEF SoundItem
    <3>2. QED BY <1>2, <3>1, SessionAssumption DEF KindOf, Items
  <2>3. /\ m.items \in Seq(SoundCard) /\ DOMAIN m.items = 1..Len(m.items) /\ Len(m.items) \in Nat
        /\ m \in [items : Seq(SoundCard), index : Index, local : Nat]
    BY ModelFacts DEF SoundModel
  <2>4. CASE Found(m, key)
    <3> DEFINE q == m.index[key]
    <3>1. /\ q \in DOMAIN m.items /\ m.items[q] \in SoundCard
          /\ Stands(al, key, m.items[q])
      BY <2>4, ModelFacts DEF Found
    <3>2. m.items[q].key = key
      <4>2. CASE key \in KeysOf(m.items[q])
        BY <2>1, <2>2, <3>1, <4>2, CardKeys
      <4>3. CASE \E z \in al : key = ItemKey(z[1]) /\ m.items[q].key = ReasoningKey(z[2])
        BY <2>2, <4>3, KeyFacts
      <4>4. QED BY <3>1, <4>2, <4>3 DEF Stands
    <3>3. N = [m EXCEPT !.items = [@ EXCEPT ![q] = c]]
      BY <1>2, <2>4 DEF upsert_protocol_item
    <3>4. c.pid = m.items[q].pid
      BY <2>1, <3>1, <3>2 DEF SoundCard, Generated
    <3> HIDE DEF c, q, key
    <3>5. N \in SoundModel(al) /\ SameKeys(m, N)
      BY <2>1, <3>1, <3>2, <3>3, <3>4, EditSound
    <3>6. N.items = [m.items EXCEPT ![q] = c]
      BY <2>3, <3>3
    <3> HIDE DEF N
    <3>7. \A p \in DOMAIN m.items : m.items[p].key # key => p \in DOMAIN N.items /\ N.items[p] = m.items[p]
      BY <3>1, <3>2, <3>6
    <3>8. q \in DOMAIN N.items /\ N.items[q].pid = key /\ N.items[q].content = item.text
      BY <2>1, <2>3, <3>1, <3>6
    <3>9. Others(m, N, ItemKey(item.id))
      BY <2>1, <3>7, KeptOthers DEF key
    <3>10. Upserted(al, m, item, N)
      <4>1. N.index = m.index
        BY <2>3, <3>3 DEF N
      <4>2. Listed(m, N) /\ NewTied(al, m, N)
        BY <3>5, <4>1 DEF Listed, NewTied, SameKeys
      <4>3. QED BY <1>2, <3>5, <3>8, <3>9, <4>2 DEF Upserted, Step, KeyStep, SameKeys, key
    <3>11. QED BY <3>10 DEF N
  <2>5. CASE ~ Found(m, key) /\ e # 0
    <3>1. e \in DOMAIN m.items /\ m.items[e].key[1] = "local-user"
      <4> DEFINE I == {i \in 1..Len(m.items) : m.items[i].key[1] = "local-user"
                                              /\ m.items[i].content = item.text}
      <4>1. I # {} /\ e = Max(I)
        BY <2>5 DEF LocalEcho, SelectLastInSeq
      <4>2. I \subseteq 1..Len(m.items)
        OBVIOUS
      <4> HIDE DEF e, I
      <4>3. e \in I
        BY <2>3, <4>1, <4>2, MaxElement
      <4>4. QED BY <2>3, <4>3 DEF I
    <3>2. N = TakePlace(m, e, c)
      BY <1>2, <2>5 DEF upsert_protocol_item
    <3> HIDE DEF c, e, key
    <3>3. N \in SoundModel(al) /\ Echoed(m, N) /\ N.items = [m.items EXCEPT ![e] = c]
      BY <2>1, <2>5, <3>1, <3>2, EchoSound DEF Found
    <3> HIDE DEF N
    <3>4. \A p \in DOMAIN m.items :
            m.items[p].key[1] # "local-user" => p \in DOMAIN N.items /\ N.items[p] = m.items[p]
      BY <3>1, <3>3
    <3>5. Others(m, N, ItemKey(item.id))
      BY <2>1, <3>4, KeptOthers
    <3>6. e \in DOMAIN N.items /\ N.items[e].pid = key /\ N.items[e].content = item.text
      BY <2>1, <2>3, <3>1, <3>3
    <3>7. Upserted(al, m, item, N)
      <4>1. N.index = Put([k \in DOMAIN m.index \ {m.items[e].key} |-> m.index[k]], c.key, e)
        BY <2>3, <3>2 DEF TakePlace
      <4>2. \A k \in DOMAIN m.index : k[1] # "local-user" => k \in DOMAIN N.index
        BY <3>1, <4>1 DEF Put
      <4>3. Len(N.items) = Len(m.items)
        BY <3>3 DEF Echoed
      <4>4. Listed(m, N) /\ NewTied(al, m, N)
        BY <4>2, <4>3 DEF Listed, NewTied
      <4>5. QED BY <1>2, <3>3, <3>5, <3>6, <4>4 DEF Upserted, Step, KeyStep, Echoed, key
    <3>8. QED BY <3>7 DEF N
  <2>6. CASE ~ Found(m, key) /\ e = 0
    <3>1. N = push_without_splice(m, c)
      BY <1>2, <2>6 DEF upsert_protocol_item
    <3> HIDE DEF c, e, key
    <3>2. N \in SoundModel(al) /\ NewCard(m, N) /\ N.items = Append(m.items, c)
      BY <2>1, <2>6, <3>1, PushSound DEF Found
    <3>3. Listed(m, N) /\ NewTied(al, m, N)
      <4>1. Tied(al, c)
        BY <2>1 DEF Tied
      <4>2. QED BY <2>1, <3>1, <4>1, PushListed
    <3> HIDE DEF N
    <3>4. \A p \in DOMAIN m.items : p \in DOMAIN N.items /\ N.items[p] = m.items[p]
      BY <2>1, <2>3, <3>2
    <3> DEFINE q == Len(m.items) + 1
    <3>5. q \in DOMAIN N.items /\ N.items[q].pid = key /\ N.items[q].content = item.text
      BY <2>1, <2>3, <3>2
    <3>6. Others(m, N, ItemKey(item.id))
      BY <2>1, <3>4, KeptOthers
    <3>7. N.items[Len(N.items)].key = NameOf(item)
      BY <1>2, <2>1, <2>3, <3>2 DEF NameOf, key
    <3>8. Upserted(al, m, item, N)
      BY <1>2, <3>2, <3>5, <3>6, <3>7, <3>3 DEF Upserted, Step, KeyStep, key
    <3>9. QED BY <3>8 DEF N
  <2>7. QED BY <2>4, <2>5, <2>6
<1>3. QED BY <1>1, <1>2

-----------------------------------------------------------------------------
(* A batch updates the cards in place.                                     *)

\* No card of m is moved or dropped in n, none but a message typed here gets another key, and
\* a card that is new or has a new key has it for itself.
Grown(m, n) ==
  /\ Len(m.items) <= Len(n.items)
  /\ \A p \in 1..Len(m.items) : n.items[p].key = m.items[p].key \/ m.items[p].key[1] = "local-user"
  /\ \A p, q \in 1..Len(n.items) :
       p < q /\ n.items[p].key = n.items[q].key =>
         /\ q \in 1..Len(m.items)
         /\ m.items[p].key = n.items[p].key /\ m.items[q].key = n.items[q].key

\* The cards are tied to their turns and have entries for their protocol ids.
Known(al, m) ==
  \A p \in 1..Len(m.items) :
    /\ Tied(al, m.items[p])
    /\ m.items[p].pid # NoKey => m.items[p].pid \in DOMAIN m.index

\* A card that is new in n has a protocol id for itself, if it is not the card of a turn.
NoTwin(m, n) ==
  \A p, q \in 1..Len(n.items) :
    p < q /\ q \notin 1..Len(m.items) /\ n.items[p].pid = n.items[q].pid =>
      n.items[q].pid = NoKey \/ n.items[q].key[1] = "turn-reasoning"

GrownModel(al, m) ==
  {n \in SoundModel(al) : Grown(m, n) /\ (Known(al, m) => Known(al, n) /\ NoTwin(m, n))}

LEMMA GrownSame ==
  ASSUME NEW al, NEW m \in SoundModel(al)
  PROVE  m \in GrownModel(al, m)
<1>1. Len(m.items) \in Nat
  BY ModelFacts
<1>2. QED BY <1>1 DEF GrownModel, Grown, NoTwin

\* A step changes one card: its key had no entry.
LEMMA KnownStep ==
  ASSUME NEW al, NEW m, Len(m.items) \in Nat, NEW n \in SoundModel(al), NEW o, Step(al, n, o),
         Len(m.items) <= Len(n.items), Known(al, n), NoTwin(m, n)
  PROVE  Known(al, o) /\ NoTwin(m, o)
<1> DEFINE Kept(p) == /\ p \in 1..Len(n.items)
                      /\ o.items[p].key = n.items[p].key /\ o.items[p].pid = n.items[p].pid
           Fresh(p) == /\ o.items[p].key \notin DOMAIN n.index
                       /\ o.items[p].key[1] # "local-user"
                       /\ p \in 1..Len(n.items) => o.items[p].key[1] = "item"
<1>1. /\ o \in SoundModel(al) /\ KeyStep(n, o) /\ Listed(n, o) /\ NewTied(al, n, o)
      /\ Len(n.items) \in Nat /\ Len(o.items) \in Nat
      /\ DOMAIN o.items = 1..Len(o.items) /\ DOMAIN n.items = 1..Len(n.items)
  BY ModelFacts DEF Step
<1>2. ASSUME NEW p \in 1..Len(o.items)
      PROVE  /\ o.items[p] \in SoundCard
             /\ o.items[p].key[1] # "local-user" => o.items[p].key \in DOMAIN o.index
             /\ o.items[p].key[1] = "item" => o.items[p].pid = o.items[p].key
             /\ o.items[p].key[1] \in Generated \cup {"local-user"} => o.items[p].pid = NoKey
             /\ o.items[p].key[1] \in {"item", "turn-reasoning", "local-user"} \cup Generated
             /\ o.items[p].pid # NoKey => o.items[p].pid[1] = "item"
  <2>1. /\ o.items[p] \in SoundCard
        /\ o.items[p].key[1] # "local-user" => o.items[p].key \in DOMAIN o.index
    BY <1>1, ModelFacts
  <2>2. \/ o.items[p].key[1] = "item" /\ o.items[p].pid = o.items[p].key
        \/ o.items[p].key[1] = "turn-reasoning" /\ \E r \in Reasonings : o.items[p].pid = ItemKey(r)
        \/ o.items[p].key[1] \in Generated \cup {"local-user"} /\ o.items[p].pid = NoKey
    BY <2>1 DEF SoundCard
  <2>3. QED BY <2>1, <2>2 DEF Generated, ItemKey
<1>3. \A p, q \in 1..Len(o.items) : p # q => Kept(p) \/ Kept(q)
  BY <1>1 DEF KeyStep, SameKeys, NewCard, Echoed
<1>4. \A p \in 1..Len(o.items) : Kept(p) \/ Fresh(p)
  BY <1>1 DEF KeyStep, SameKeys, NewCard, Echoed
<1>5. \A p \in 1..Len(o.items) : Kept(p) =>
        /\ Tied(al, o.items[p])
        /\ o.items[p].pid # NoKey => o.items[p].pid \in DOMAIN n.index
  BY DEF Known, Tied
<1> HIDE DEF Kept, Fresh
<1>6. ASSUME NEW p \in 1..Len(o.items)
      PROVE  /\ Tied(al, o.items[p])
             /\ o.items[p].pid # NoKey => o.items[p].pid \in DOMAIN o.index
  <2>1. CASE Kept(p)
    BY <1>1, <1>2, <1>5, <2>1 DEF Listed
  <2>2. CASE Fresh(p) /\ p \in 1..Len(n.items)
    BY <1>2, <2>2 DEF Fresh, Tied
  <2>3. CASE p \notin 1..Len(n.items)
    BY <1>1, <2>3 DEF Listed, NewTied
  <2>4. QED BY <1>4, <2>1, <2>2, <2>3
<1>7. Known(al, o)
  BY <1>6 DEF Known
<1>8. ASSUME NEW p \in 1..Len(o.items), NEW q \in 1..Len(o.items), p < q,
             q \notin 1..Len(m.items), o.items[p].pid = o.items[q].pid, o.items[q].pid # NoKey
      PROVE  o.items[q].key[1] = "turn-reasoning"
  <2>1. CASE Kept(p) /\ Kept(q)
    <3>1. /\ p \in 1..Len(n.items) /\ q \in 1..Len(n.items)
          /\ n.items[p].pid = n.items[q].pid /\ n.items[q].pid # NoKey
          /\ n.items[q].key = o.items[q].key
      BY <1>8, <2>1 DEF Kept
    <3>2. QED BY <1>8, <3>1 DEF NoTwin
  <2>2. CASE Fresh(p) /\ Kept(q)
    <3>1. p \in 1..Len(n.items)
      BY <1>1, <1>8, <2>2 DEF Kept
    <3>2. o.items[p].pid \notin DOMAIN n.index
      BY <1>2, <2>2, <3>1 DEF Fresh
    <3>3. QED BY <1>5, <1>8, <2>2, <3>2
  <2>3. CASE Kept(p) /\ Fresh(q)
    <3>1. o.items[q].pid \in DOMAIN n.index
      BY <1>5, <1>8, <2>3
    <3>2. o.items[q].key[1] # "item"
      BY <1>2, <2>3, <3>1 DEF Fresh
    <3>3. QED BY <1>2, <1>8, <2>3, <3>2 DEF Fresh
  <2>4. QED BY <1>3, <1>4, <1>8, <2>1, <2>2, <2>3
<1>9. NoTwin(m, o)
  BY <1>8 DEF NoTwin
<1>10. QED BY <1>7, <1>9

LEMMA GrownStep ==
  ASSUME NEW al, NEW m \in SoundModel(al), NEW n \in GrownModel(al, m), NEW o, Step(al, n, o)
  PROVE  o \in GrownModel(al, m)
<1>1. /\ n \in SoundModel(al) /\ o \in SoundModel(al) /\ Grown(m, n) /\ KeyStep(n, o)
      /\ Len(m.items) \in Nat /\ Len(n.items) \in Nat /\ Len(o.items) \in Nat
  BY ModelFacts DEF GrownModel, Step
<1>2. Known(al, m) => Known(al, o) /\ NoTwin(m, o)
  <2>1. Known(al, m) => Known(al, n) /\ NoTwin(m, n)
    BY DEF GrownModel
  <2>2. Len(m.items) <= Len(n.items)
    BY <1>1 DEF Grown
  <2>3. QED BY <1>1, <2>1, <2>2, KnownStep
<1>3. \A p \in 1..Len(n.items) :
        n.items[p].key[1] # "local-user" => n.items[p].key \in DOMAIN n.index
  BY <1>1, ModelFacts
<1>4. CASE SameKeys(n, o)
  <2>1. Len(o.items) = Len(n.items) /\ \A p \in 1..Len(n.items) : o.items[p].key = n.items[p].key
    BY <1>4 DEF SameKeys
  <2>2. \A p \in 1..Len(m.items) : p \in 1..Len(n.items)
    BY <1>1 DEF Grown
  <2>3. Grown(m, o)
    BY <1>1, <2>1, <2>2 DEF Grown
  <2>4. QED BY <1>1, <1>2, <2>3 DEF GrownModel
<1>5. CASE NewCard(n, o)
  <2> DEFINE last == Len(n.items) + 1
  <2>1. /\ Len(o.items) = last /\ last \in Nat
        /\ \A p \in 1..Len(n.items) : o.items[p].key = n.items[p].key
        /\ o.items[last].key \notin DOMAIN n.index
        /\ o.items[last].key[1] # "local-user"
    BY <1>1, <1>5 DEF NewCard
  <2>2. Len(m.items) <= Len(o.items) /\ \A p \in 1..Len(m.items) : p \in 1..Len(n.items)
    BY <1>1, <2>1 DEF Grown
  <2>3. ASSUME NEW p \in 1..Len(o.items), NEW q \in 1..Len(o.items), p < q,
               o.items[p].key = o.items[q].key
        PROVE  /\ q \in 1..Len(m.items)
               /\ m.items[p].key = o.items[p].key /\ m.items[q].key = o.items[q].key
    <3>1. p \in 1..Len(n.items) /\ (q = last \/ q \in 1..Len(n.items))
      BY <1>1, <2>1, <2>3
    <3>2. q # last
      BY <1>3, <2>1, <2>3, <3>1
    <3>3. QED BY <1>1, <2>1, <2>3, <3>1, <3>2 DEF Grown
  <2>4. Grown(m, o)
    BY <1>1, <2>1, <2>2, <2>3 DEF Grown
  <2>5. QED BY <1>1, <1>2, <2>4 DEF GrownModel
<1>6. CASE Echoed(n, o)
  <2>1. PICK e \in 1..Len(n.items) :
          /\ n.items[e].key[1] = "local-user"
          /\ o.items[e].key \notin DOMAIN n.index
          /\ o.items[e].key[1] = "item"
          /\ \A p \in 1..Len(n.items) : p # e => o.items[p].key = n.items[p].key
    BY <1>6 DEF Echoed
  <2>2. Len(o.items) = Len(n.items)
    BY <1>6 DEF Echoed
  <2>3. ASSUME NEW p \in 1..Len(m.items)
        PROVE  o.items[p].key = m.items[p].key \/ m.items[p].key[1] = "local-user"
    <3>1. p \in 1..Len(n.items)
      BY <1>1 DEF Grown
    <3>2. QED BY <1>1, <2>1, <3>1 DEF Grown
  <2>4. ASSUME NEW p \in 1..Len(n.items), NEW q \in 1..Len(n.items), p < q,
               o.items[p].key = o.items[q].key
        PROVE  /\ q \in 1..Len(m.items)
               /\ m.items[p].key = o.items[p].key /\ m.items[q].key = o.items[q].key
    <3>1. p # e /\ q # e
      BY <1>3, <2>1, <2>4
    <3>2. QED BY <1>1, <2>1, <2>4, <3>1 DEF Grown
  <2>5. Grown(m, o)
    BY <1>1, <2>2, <2>3, <2>4 DEF Grown
  <2>6. QED BY <1>1, <1>2, <2>5 DEF GrownModel
<1>7. QED BY <1>1, <1>4, <1>5, <1>6 DEF KeyStep

LEMMA TurnGrown ==
  ASSUME NEW al, al \subseteq Reasonings \X Users, NEW m \in SoundModel(al),
         NEW n \in GrownModel(al, m), NEW seq \in Seq(SoundItem(al))
  PROVE  UpsertAll(n, seq) \in GrownModel(al, m)
<1> DEFINE A == GrownModel(al, m)
           E == SoundItem(al)
<1>1. ASSUME NEW o \in A, NEW i \in E PROVE upsert_protocol_item(o, i, TRUE) \in A
  <2>1. o \in SoundModel(al)
    BY DEF GrownModel
  <2>2. Step(al, o, upsert_protocol_item(o, i, TRUE))
    BY <2>1, UpsertSound DEF Upserted
  <2>3. QED BY <2>2, GrownStep
<1> HIDE DEF A, E
<1>2. n \in A /\ seq \in Seq(E)
  BY DEF A, E
<1>3. PICK part \in [0..Len(seq) -> A] : UpsertPartsOf(part, n, seq)
  BY <1>1, <1>2, UpsertParts
<1>4. Len(seq) \in 0..Len(seq)
  BY <1>2
<1>5. QED BY <1>3, <1>4 DEF UpsertPartsOf, A

LEMMA EventGrown ==
  ASSUME NEW al, al \subseteq Reasonings \X Users, NEW m \in SoundModel(al),
         NEW n \in GrownModel(al, m), NEW e \in SoundEvent(al)
  PROVE  apply_event(n, e) \in GrownModel(al, m)
<1>1. n \in SoundModel(al)
  BY DEF GrownModel
<1>2. CASE e.type = "item"
  <2>1. e.item \in SoundItem(al) /\ e.completed \in BOOLEAN
    BY <1>2 DEF SoundEvent
  <2>2. Step(al, n, upsert_protocol_item(n, e.item, e.completed))
    BY <1>1, <2>1, UpsertSound DEF Upserted
  <2>3. apply_event(n, e) = upsert_protocol_item(n, e.item, e.completed)
    BY <1>2 DEF apply_event
  <2>4. QED BY <2>2, <2>3, GrownStep
<1>3. CASE e.type = "delta"
  <2>1. e.id \in Items /\ e.kind \in ItemKinds /\ e.word \in Word
    BY <1>3 DEF SoundEvent
  <2>2. Step(al, n, append_delta(n, e.id, e.kind, e.word))
    BY <1>1, <2>1, DeltaSound
  <2>3. apply_event(n, e) = append_delta(n, e.id, e.kind, e.word)
    BY <1>3 DEF apply_event
  <2>4. QED BY <2>2, <2>3, GrownStep
<1>4. CASE e.type = "part"
  <2>1. e.id \in Items
    BY <1>4 DEF SoundEvent
  <2>2. <<e.id, 1>> \in Word /\ "reasoning" \in ItemKinds
    BY <2>1 DEF Word, ItemKinds
  <2>3. Step(al, n, summaryPartAdded(n, e.id))
    BY <1>1, <2>1, <2>2, DeltaSound
  <2>4. apply_event(n, e) = summaryPartAdded(n, e.id)
    BY <1>4 DEF apply_event
  <2>5. QED BY <2>3, <2>4, GrownStep
<1>5. CASE e.type = "plan"
  <2>1. e.turn \in Users /\ e.text \in Content /\ "turn-plan" \in Generated /\ "plan" \in Kinds
    BY <1>5 DEF SoundEvent, Generated, Kinds
  <2>2. Step(al, n, upsert_generated(n, <<"turn-plan", e.turn>>, "plan", e.text))
    BY <1>1, <2>1, GeneratedSound
  <2>3. apply_event(n, e) = upsert_generated(n, <<"turn-plan", e.turn>>, "plan", e.text)
    BY <1>5 DEF apply_event
  <2>4. QED BY <2>2, <2>3, GrownStep
<1>6. CASE e.type = "turn"
  <2>1. e.turn \in Users /\ e.items \in Seq(SoundItem(al)) /\ e.failed \in BOOLEAN
        /\ "turn-completion" \in Generated /\ "error" \in Kinds /\ <<>> \in Content
    BY <1>6 DEF SoundEvent, Generated, Kinds, Content
  <2> DEFINE o == UpsertAll(n, e.items)
             g == upsert_generated(o, <<"turn-completion", e.turn>>, "error", <<>>)
  <2>2. o \in GrownModel(al, m)
    BY <2>1, TurnGrown
  <2>3. apply_event(n, e) = IF e.failed THEN g ELSE o
    BY <1>6 DEF apply_event, CompleteTurn
  <2> HIDE DEF o
  <2>4. o \in SoundModel(al)
    BY <2>2 DEF GrownModel
  <2>5. Step(al, o, g)
    BY <2>1, <2>4, GeneratedSound
  <2> HIDE DEF g
  <2>6. g \in GrownModel(al, m)
    BY <2>2, <2>5, GrownStep
  <2>7. QED BY <2>2, <2>3, <2>6
<1>7. QED BY <1>2, <1>3, <1>4, <1>5, <1>6 DEF SoundEvent

LEMMA BatchSound ==
  ASSUME NEW al, al \subseteq Reasonings \X Users, NEW m \in SoundModel(al),
         NEW events \in Seq(SoundEvent(al))
  PROVE  apply_batch(m, events) \in GrownModel(al, m)
<1> DEFINE A == GrownModel(al, m)
           E == SoundEvent(al)
<1>1. m \in A
  BY GrownSame
<1>2. \A n \in A, e \in E : apply_event(n, e) \in A
  BY EventGrown
<1>3. events \in Seq(E)
  OBVIOUS
<1> HIDE DEF A, E
<1>4. PICK part \in [0..Len(events) -> A] : BatchPartsOf(part, m, events)
  BY <1>1, <1>2, <1>3, BatchParts
<1>5. Len(events) \in 0..Len(events)
  OBVIOUS
<1>6. QED BY <1>4, <1>5 DEF BatchPartsOf, A

-----------------------------------------------------------------------------
(* A thread is loaded, refreshed and merged with the cards on disk.        *)

\* The messages of a thread among the cards.
ShownIn(items, id, text) == \E p \in DOMAIN items : items[p].pid = ItemKey(id) /\ items[p].content = text

LEMMA ClearSound ==
  ASSUME NEW al, NEW m, m.local \in Nat
  PROVE  clear(m) \in SoundModel(al) /\ clear(m).items = <<>> /\ NewModel \in SoundModel(al)
<1>1. clear(m) = [items |-> <<>>, index |-> <<>>, local |-> m.local]
  BY DEF clear, NewModel
<1>2. <<>> \in Index /\ DOMAIN <<>> = {}
  <2>1. <<>> \in [{} -> Nat] /\ {} \in SUBSET Keys
    OBVIOUS
  <2>2. QED BY <2>1 DEF Index
<1>3. ASSUME NEW l \in Nat PROVE [items |-> <<>>, index |-> <<>>, local |-> l] \in SoundModel(al)
  BY <1>2 DEF SoundModel
<1>4. QED BY <1>1, <1>3 DEF NewModel

\* A card that shows a message of the thread is its own.
LEMMA ShownKey ==
  ASSUME NEW c \in SoundCard, NEW i \in Items, i \notin Reasonings, c.pid = ItemKey(i)
  PROVE  c.key = ItemKey(i) /\ c.key[1] = "item"
<1>1. ItemKey(i) \in KeysOf(c) /\ ItemKey(i)[1] = "item"
  BY KeyFacts DEF KeysOf
<1>2. c.key = ItemKey(i)
  BY <1>1, CardKeys
<1>3. QED BY <1>1, <1>2

\* UpsertAll shows every message that comes once.
LEMMA AllUpserted ==
  ASSUME NEW al, al \subseteq Reasonings \X Users, NEW m \in SoundModel(al),
         NEW seq \in Seq(SoundItem(al)),
         \A p, q \in DOMAIN seq : seq[p].id = seq[q].id => p = q
  PROVE  /\ UpsertAll(m, seq) \in SoundModel(al)
         /\ \A p \in DOMAIN seq :
              seq[p].kind # "reasoning" => ShownIn(UpsertAll(m, seq).items, seq[p].id, seq[p].text)
<1> DEFINE A == SoundModel(al)
           E == SoundItem(al)
<1>1. \A n \in A, i \in E : upsert_protocol_item(n, i, TRUE) \in A
  BY UpsertSound DEF Upserted, Step
<1>2. PICK part \in [0..Len(seq) -> A] : UpsertPartsOf(part, m, seq)
  <2>1. m \in A /\ seq \in Seq(E)
    OBVIOUS
  <2> HIDE DEF A, E
  <2>2. QED BY <1>1, <2>1, UpsertParts
<1>3. Len(seq) \in Nat /\ DOMAIN seq = 1..Len(seq) /\ Len(seq) \in 0..Len(seq)
  OBVIOUS
<1> DEFINE Shown(k) == \A p \in 1..k :
             seq[p].kind # "reasoning" => ShownIn(part[k].items, seq[p].id, seq[p].text)
           T == {k \in 0..Len(seq) : Shown(k)}
<1>4. 0 \in T
  BY <1>3
<1>5. ASSUME NEW k \in 0..(Len(seq) - 1), k \in T PROVE k + 1 \in T
  <2> DEFINE n == part[k]
             o == part[k + 1]
             item == seq[k + 1]
  <2>1. k \in 0..Len(seq) /\ k + 1 \in 0..Len(seq) /\ k + 1 \in DOMAIN seq
    BY <1>3
  <2>2. item \in SoundItem(al) /\ n \in SoundModel(al)
    BY <2>1
  <2>3. o = upsert_protocol_item(n, item, TRUE)
    BY <1>2 DEF UpsertPartsOf
  <2> HIDE DEF n, o
  <2>4. Upserted(al, n, item, o)
    BY <2>2, <2>3, UpsertSound
  <2>5. ASSUME NEW p \in 1..(k + 1), seq[p].kind # "reasoning"
        PROVE  ShownIn(o.items, seq[p].id, seq[p].text)
    <3>1. CASE p = k + 1
      BY <2>4, <2>5, <3>1 DEF Upserted, ShownIn
    <3>2. CASE p # k + 1
      <4>1. p \in 1..k /\ p \in DOMAIN seq
        BY <1>3, <3>2
      <4>2. ShownIn(n.items, seq[p].id, seq[p].text)
        BY <1>5, <2>5, <4>1 DEF n
      <4>3. PICK c \in DOMAIN n.items :
              n.items[c].pid = ItemKey(seq[p].id) /\ n.items[c].content = seq[p].text
        BY <4>2 DEF ShownIn
      <4>4. seq[p] \in SoundItem(al) /\ seq[p].id # item.id
        BY <2>1, <3>2, <4>1
      <4>5. seq[p].id \in Items /\ seq[p].id \notin Reasonings
        <5>1. seq[p].id \in Items /\ seq[p].kind = KindOf(seq[p].id)
          BY <4>4 DEF SoundItem
        <5>2. QED BY <2>5, <5>1, SessionAssumption DEF KindOf, Items
      <4>6. n.items[c] \in SoundCard
        BY <2>2, ModelFacts
      <4>7. n.items[c].key = ItemKey(seq[p].id) /\ n.items[c].key[1] = "item"
        BY <4>3, <4>5, <4>6, ShownKey
      <4>8. n.items[c].key # ItemKey(item.id)
        BY <4>4, <4>7, KeyFacts
      <4>9. c \in DOMAIN o.items /\ o.items[c] = n.items[c]
        BY <2>4, <4>7, <4>8 DEF Upserted, Others
      <4>10. QED BY <4>3, <4>9 DEF ShownIn
    <3>3. QED BY <3>1, <3>2
  <2>6. QED BY <2>1, <2>5 DEF o
<1> HIDE DEF T
<1>6. Len(seq) \in T
  BY <1>3, <1>4, <1>5, BoundedInduction
<1>7. Shown(Len(seq))
  BY <1>6 DEF T
<1>8. UpsertAll(m, seq) = part[Len(seq)]
  BY <1>2 DEF UpsertPartsOf
<1>9. QED BY <1>3, <1>7, <1>8

\* The index that is rebuilt is sound whatever it was before.
LEMMA RebuildSound ==
  ASSUME NEW al, NEW s \in Seq(SoundCard), NEW l \in Nat
  PROVE  [items |-> s, index |-> rebuild_item_indices(s), local |-> l] \in SoundModel(al)
<1> DEFINE x == rebuild_item_indices(s)
           D == UNION {KeysOf(s[p]) : p \in DOMAIN s}
           at(k) == {p \in DOMAIN s : k \in KeysOf(s[p])}
<1>1. DOMAIN s = 1..Len(s) /\ Len(s) \in Nat /\ \A p \in DOMAIN s : s[p] \in SoundCard
  OBVIOUS
<1>2. DOMAIN x = D
  BY DEF rebuild_item_indices
<1>3. ASSUME NEW k \in D PROVE x[k] \in DOMAIN s /\ k \in KeysOf(s[x[k]])
  <2>1. at(k) \subseteq 1..Len(s) /\ at(k) # {}
    BY <1>1
  <2>2. Max(at(k)) \in at(k) /\ \A q \in at(k) : q <= Max(at(k))
    <3> HIDE DEF at
    <3> QED BY <1>1, <2>1, MaxElement
  <2>3. \E p \in DOMAIN s : k \in KeysOf(s[p])
                             /\ \A q \in DOMAIN s : k \in KeysOf(s[q]) => q <= p
    BY <2>2
  <2>4. x[k] = CHOOSE p \in DOMAIN s :
                 k \in KeysOf(s[p]) /\ \A q \in DOMAIN s : k \in KeysOf(s[q]) => q <= p
    BY DEF rebuild_item_indices
  <2> HIDE DEF x
  <2>5. QED BY <2>3, <2>4
<1>4. D \subseteq Keys
  BY <1>1, CardKeys
<1>5. x \in Index
  <2>1. x = [k \in D |-> x[k]]
    BY DEF rebuild_item_indices
  <2> HIDE DEF x, D
  <2>2. x \in [D -> Nat]
    BY <1>1, <1>3, <2>1
  <2>3. QED BY <1>4, <2>2 DEF Index
<1>6. \A p \in DOMAIN s : s[p].key \in D
  BY <1>1, CardKeys
<1> HIDE DEF x, D
<1>7. [items |-> s, index |-> x, local |-> l] \in SoundModel(al)
  BY <1>2, <1>3, <1>5, <1>6 DEF SoundModel, Stands
<1>8. QED BY <1>7 DEF x

LEMMA MatchInRange ==
  ASSUME NEW S, NEW fresh \in Seq(S), NEW from \in Nat \ {0}, NEW card
  PROVE  LET p == SnapshotMatch(fresh, from, card) IN p = 0 \/ p \in from..Len(fresh)
<1> DEFINE I == {i \in from..Len(fresh) : fresh[i].key = card.key}
           J == {i \in from..Len(fresh) : items_are_semantically_equal(card, fresh[i])}
           a == IF I # {} THEN Min(I) ELSE 0
           b == IF J # {} THEN Min(J) ELSE 0
<1>1. I \subseteq Nat /\ J \subseteq Nat /\ I \subseteq from..Len(fresh) /\ J \subseteq from..Len(fresh)
  OBVIOUS
<1>2. SnapshotMatch(fresh, from, card) = IF a # 0 THEN a ELSE b
  BY DEF SnapshotMatch, SelectInSubSeq
<1> HIDE DEF I, J
<1>3. a = 0 \/ a \in from..Len(fresh)
  BY <1>1, MinElement
<1>4. b = 0 \/ b \in from..Len(fresh)
  BY <1>1, MinElement
<1>5. QED BY <1>2, <1>3, <1>4

Joined(S, u, v, t) ==
  /\ t \in Seq(S)
  /\ \A p \in 1..Len(u) : p \in DOMAIN t /\ t[p] = u[p]
  /\ \A p \in 1..Len(v) : Len(u) + p \in DOMAIN t /\ t[Len(u) + p] = v[p]

LEMMA Concatenated ==
  ASSUME NEW S, NEW u \in Seq(S), NEW v \in Seq(S)
  PROVE  Joined(S, u, v, u \o v)
<1> DEFINE t == u \o v
<1>1. t \in Seq(S)
  OBVIOUS
<1>2. ASSUME NEW p \in 1..Len(u) PROVE p \in DOMAIN t /\ t[p] = u[p]
  OBVIOUS
<1>3. ASSUME NEW p \in 1..Len(v) PROVE Len(u) + p \in DOMAIN t /\ t[Len(u) + p] = v[p]
  OBVIOUS
<1>4. QED BY <1>1, <1>2, <1>3 DEF Joined

\* A merge has every card of the thread, and no cards but its own and saved ones.
LEMMA MergeSound ==
  ASSUME NEW S, NEW fresh \in Seq(S), NEW saved \in Seq(S)
  PROVE  LET s == merge_snapshot_items(fresh, saved)
         IN  s \in Seq(S) /\ \A f \in DOMAIN fresh : \E p \in DOMAIN s : s[p] = fresh[f]
<1> DEFINE Has(s, k) == \A f \in 1..k : \E p \in DOMAIN s : s[p] = fresh[f]
           A == {acc \in [next : 1..(Len(fresh) + 1), waiting : Seq(S),
                          merged : Seq(S)] : Has(acc.merged, acc.next - 1)}
           start == [next |-> 1, waiting |-> <<>>, merged |-> <<>>]
<1>1. Len(fresh) \in Nat /\ DOMAIN fresh = 1..Len(fresh)
  OBVIOUS
<1>2. ASSUME NEW s \in Seq(S), NEW k \in 0..Len(fresh), NEW j \in k..Len(fresh), Has(s, k),
             NEW w \in Seq(S)
      PROVE  LET t == s \o w \o SubSeq(fresh, k + 1, j)
             IN  t \in Seq(S) /\ Has(t, j)
  <2> DEFINE u == s \o w
             v == SubSeq(fresh, k + 1, j)
             t == u \o v
  <2>1. u \in Seq(S) /\ \A p \in DOMAIN s : p \in 1..Len(u) /\ u[p] = s[p]
    <3>1. Joined(S, s, w, u)
      BY Concatenated
    <3>2. DOMAIN s = 1..Len(s) /\ DOMAIN u = 1..Len(u)
      OBVIOUS
    <3>3. QED BY <3>1, <3>2 DEF Joined
  <2>2. v \in Seq(S) /\ Len(v) = j - k /\ \A p \in 1..(j - k) : v[p] = fresh[k + p]
    <3>1. k + 1 \in 1..(Len(fresh) + 1) /\ j \in Int /\ \A i \in (k + 1)..j : fresh[i] \in S
      BY <1>1
    <3>2. QED BY <3>1
  <2> HIDE DEF u, v
  <2>3. /\ t \in Seq(S)
        /\ \A p \in 1..Len(u) : p \in DOMAIN t /\ t[p] = u[p]
        /\ \A p \in 1..Len(v) : Len(u) + p \in DOMAIN t /\ t[Len(u) + p] = v[p]
    <3>1. Joined(S, u, v, t)
      BY <2>1, <2>2, Concatenated
    <3>2. QED BY <3>1 DEF Joined
  <2> HIDE DEF t
  <2>4. ASSUME NEW f \in 1..j PROVE \E p \in DOMAIN t : t[p] = fresh[f]
    <3>1. CASE f <= k
      <4>1. PICK p \in DOMAIN s : s[p] = fresh[f]
        BY <1>2, <3>1
      <4>2. p \in DOMAIN t /\ t[p] = fresh[f]
        BY <2>1, <2>3, <4>1
      <4>3. QED BY <4>2
    <3>2. CASE f > k
      <4>1. f - k \in 1..(j - k) /\ f - k \in 1..Len(v) /\ k + (f - k) = f
        BY <2>2, <3>2
      <4>2. Len(u) + (f - k) \in DOMAIN t /\ t[Len(u) + (f - k)] = v[f - k]
        BY <2>3, <4>1
      <4>3. v[f - k] = fresh[f]
        BY <2>2, <4>1
      <4>4. QED BY <4>2, <4>3
    <3>3. QED BY <3>1, <3>2
  <2>5. QED BY <2>3, <2>4 DEF t, u, v
<1> HIDE DEF Has
<1>3. ASSUME NEW acc \in A, NEW card \in S PROVE MergeSaved(fresh, acc, card) \in A
  <2> DEFINE k == acc.next - 1
             q == SnapshotMatch(fresh, acc.next, card)
  <2>1. /\ acc.next \in 1..(Len(fresh) + 1) /\ acc.waiting \in Seq(S)
        /\ acc.merged \in Seq(S) /\ Has(acc.merged, acc.next - 1)
        /\ acc \in [next : 1..(Len(fresh) + 1), waiting : Seq(S), merged : Seq(S)]
    OBVIOUS
  <2> HIDE DEF A
  <2>2. acc.next \in Nat \ {0} /\ k \in 0..Len(fresh) /\ k + 1 = acc.next
    BY <1>1, <2>1
  <2>3. q = 0 \/ q \in acc.next..Len(fresh)
    BY <2>2, MatchInRange
  <2> HIDE DEF q
  <2>4. CASE q = 0
    <3>1. MergeSaved(fresh, acc, card)
            = [next |-> acc.next, waiting |-> Append(acc.waiting, card), merged |-> acc.merged]
      BY <2>4 DEF MergeSaved, q
    <3>2. QED BY <2>1, <3>1 DEF A
  <2>5. CASE q \in acc.next..Len(fresh)
    <3> DEFINE t == acc.merged \o acc.waiting \o SubSeq(fresh, acc.next, q)
    <3>1. q # 0 /\ q \in k..Len(fresh) /\ q + 1 \in 1..(Len(fresh) + 1) /\ q + 1 - 1 = q
      BY <2>2, <2>5
    <3>2. MergeSaved(fresh, acc, card) = [next |-> q + 1, waiting |-> <<>>, merged |-> t]
      BY <3>1 DEF MergeSaved, q
    <3>3. t \in Seq(S) /\ Has(t, q)
      <4> HIDE DEF k
      <4> QED BY <1>2, <2>1, <2>2, <3>1
    <3> HIDE DEF t
    <3>4. <<>> \in Seq(S)
      OBVIOUS
    <3>5. QED BY <3>1, <3>2, <3>3, <3>4 DEF A
  <2>6. QED BY <2>3, <2>4, <2>5
<1>4. start \in A
  <2>1. Has(<<>>, 0)
    BY DEF Has
  <2>2. QED BY <1>1, <2>1
<1> DEFINE end == SavedMerged(fresh, start, saved)
<1>5. end \in A
  <2> HIDE DEF A, start
  <2>1. PICK part \in [0..Len(saved) -> A] : MergePartsOf(part, fresh, start, saved)
    BY <1>3, <1>4, MergeParts
  <2>2. Len(saved) \in 0..Len(saved)
    OBVIOUS
  <2>3. QED BY <2>1, <2>2 DEF MergePartsOf
<1>6. merge_snapshot_items(fresh, saved) = end.merged \o SubSeq(fresh, end.next, Len(fresh))
  BY DEF merge_snapshot_items
<1> HIDE DEF end
<1> DEFINE k == end.next - 1
           t == end.merged \o <<>> \o SubSeq(fresh, end.next, Len(fresh))
<1>7. /\ k \in 0..Len(fresh) /\ k + 1 = end.next /\ end.merged \in Seq(S)
      /\ Has(end.merged, k) /\ Len(fresh) \in k..Len(fresh) /\ <<>> \in Seq(S)
  BY <1>1, <1>5
<1>8. t \in Seq(S) /\ Has(t, Len(fresh))
  <2> HIDE DEF k
  <2> QED BY <1>2, <1>7
<1>9. end.merged \o <<>> = end.merged
  BY <1>7
<1>10. QED BY <1>1, <1>6, <1>8, <1>9 DEF Has

\* Without saved cards there is nothing to merge.
LEMMA MergeNothing ==
  ASSUME NEW S, NEW fresh \in Seq(S)
  PROVE  merge_snapshot_items(fresh, <<>>) = fresh
<1> DEFINE start == [next |-> 1, waiting |-> <<>>, merged |-> <<>>]
           A == {start}
           E == {}
           none == <<>>
<1>1. start \in A /\ none \in Seq(E) /\ Len(none) = 0
  OBVIOUS
<1>2. \A acc \in A, e \in E : MergeSaved(fresh, acc, e) \in A
  OBVIOUS
<1> HIDE DEF start, A, E, none
<1>3. PICK part \in [0..Len(none) -> A] : MergePartsOf(part, fresh, start, none)
  BY <1>1, <1>2, MergeParts
<1>4. SavedMerged(fresh, start, <<>>) = start
  BY <1>1, <1>3 DEF MergePartsOf, none
<1>5. merge_snapshot_items(fresh, <<>>) = start.merged \o SubSeq(fresh, start.next, Len(fresh))
  BY <1>4 DEF merge_snapshot_items, start
<1>6. <<>> \o SubSeq(fresh, 1, Len(fresh)) = fresh
  OBVIOUS
<1>7. QED BY <1>5, <1>6 DEF start

\* A loaded transcript with the saved cards.
LEMMA MergedModel ==
  ASSUME NEW al, NEW m \in SoundModel(al), NEW saved \in Seq(SoundCard)
  PROVE  LET n == merge_persisted_transcript(m, saved)
         IN  /\ n \in SoundModel(al) /\ n.items = merge_snapshot_items(m.items, saved)
             /\ saved # <<>> => n.index = rebuild_item_indices(n.items)
             /\ saved = <<>> => n = m
<1> DEFINE s == merge_snapshot_items(m.items, saved)
           n == merge_persisted_transcript(m, saved)
<1>1. /\ m.items \in Seq(SoundCard) /\ m.local \in Nat
      /\ m \in [items : Seq(SoundCard), index : Index, local : Nat]
  BY DEF SoundModel
<1>2. CASE saved = <<>>
  <2>1. n = m
    BY <1>2 DEF merge_persisted_transcript
  <2>2. s = m.items
    BY <1>1, <1>2, MergeNothing
  <2>3. QED BY <1>2, <2>1, <2>2
<1>3. CASE saved # <<>>
  <2>1. n = [m EXCEPT !.items = s, !.index = rebuild_item_indices(s)]
    BY <1>3 DEF merge_persisted_transcript
  <2>2. s \in Seq(SoundCard)
    BY <1>1, MergeSound
  <2> HIDE DEF n, s
  <2>3. n = [items |-> s, index |-> rebuild_item_indices(s), local |-> m.local]
    BY <1>1, <2>1, NewParts
  <2>4. n \in SoundModel(al) /\ n.items = s /\ n.index = rebuild_item_indices(s)
    BY <1>1, <2>2, <2>3, RebuildSound
  <2>5. QED BY <1>3, <2>4 DEF n, s
<1>4. QED BY <1>2, <1>3

\* A loaded or refreshed transcript is sound and shows the messages of its thread.
LEMMA LoadSound ==
  ASSUME NEW al, al \subseteq Reasonings \X Users, NEW m \in SoundModel(al),
         NEW thread \in Seq(SoundItem(al)), NEW saved \in Seq(SoundCard),
         \A p, q \in DOMAIN thread : thread[p].id = thread[q].id => p = q,
         NEW n \in {merge_persisted_transcript(load_thread(m, thread), saved),
                    refresh_thread(m, thread)}
  PROVE  /\ n \in SoundModel(al)
         /\ \A p \in DOMAIN thread :
              thread[p].kind # "reasoning" => ShownIn(n.items, thread[p].id, thread[p].text)
<1> DEFINE Shows2(s) == \A p \in DOMAIN thread :
             thread[p].kind # "reasoning" => ShownIn(s, thread[p].id, thread[p].text)
<1>1. m.local \in Nat /\ m \in [items : Seq(SoundCard), index : Index, local : Nat]
  BY DEF SoundModel
<1>2. CASE n = merge_persisted_transcript(load_thread(m, thread), saved)
  <2> DEFINE o == load_thread(m, thread)
             s == merge_snapshot_items(o.items, saved)
  <2>1. clear(m) \in SoundModel(al)
    BY <1>1, ClearSound
  <2>2. o = UpsertAll(clear(m), thread)
    BY DEF load_thread
  <2>3. o \in SoundModel(al) /\ Shows2(o.items)
    <3> HIDE DEF o
    <3> QED BY <2>1, <2>2, AllUpserted
  <2> HIDE DEF o
  <2>4. n \in SoundModel(al) /\ n.items = s
    BY <1>2, <2>3, MergedModel DEF o
  <2>5. s \in Seq(SoundCard) /\ \A f \in DOMAIN o.items : \E p \in DOMAIN s : s[p] = o.items[f]
    <3>1. o.items \in Seq(SoundCard)
      BY <2>3 DEF SoundModel
    <3>2. QED BY <3>1, MergeSound
  <2> HIDE DEF s
  <2>6. Shows2(s)
    BY <2>3, <2>5 DEF ShownIn
  <2>7. QED BY <2>4, <2>6
<1>3. CASE n = refresh_thread(m, thread)
  <2> DEFINE o == load_thread(NewModel, thread)
             s == o.items
  <2>1. NewModel.local \in Nat
    BY DEF NewModel
  <2>2. clear(NewModel) \in SoundModel(al)
    BY <2>1, ClearSound
  <2>3. o = UpsertAll(clear(NewModel), thread)
    BY DEF load_thread
  <2>4. o \in SoundModel(al) /\ Shows2(o.items)
    <3> HIDE DEF o
    <3> QED BY <2>2, <2>3, AllUpserted
  <2>5. n = [m EXCEPT !.items = s, !.index = rebuild_item_indices(s)]
    BY <1>3 DEF refresh_thread
  <2>6. s \in Seq(SoundCard)
    BY <2>4 DEF SoundModel
  <2> HIDE DEF s
  <2>7. n = [items |-> s, index |-> rebuild_item_indices(s), local |-> m.local]
    BY <1>1, <2>5, NewParts
  <2>8. n \in SoundModel(al) /\ n.items = s
    BY <1>1, <2>6, <2>7, RebuildSound
  <2>9. QED BY <2>4, <2>8 DEF s
<1>4. QED BY <1>2, <1>3

-----------------------------------------------------------------------------
(* What the server completed is shown, and stays.                          *)

\* The text x of the item i is in the cards; t is the turn of a reasoning item.
ShownAs(items, i, t, x) ==
  IF i \in Reasonings
  THEN \E p \in DOMAIN items : items[p].key = ReasoningKey(t) /\ Says(items[p].content, x[1])
  ELSE ShownIn(items, i, x)

\* It is among the items of a turn or a thread, it comes with a notification, and a
\* notification puts another text in its place.
Carries(items, i, x) == \E q \in DOMAIN items : items[q].id = i /\ items[q].text = x

Gives(e, i, x) ==
  \/ e.type = "item" /\ e.item.id = i /\ e.item.text = x
  \/ e.type = "turn" /\ Carries(e.items, i, x)

Spoils(e, i, x) ==
  /\ i \notin Reasonings
  /\ \/ e.type = "item" /\ e.item.id = i /\ e.item.text # x
     \/ e.type \in {"delta", "part"} /\ e.id = i
     \/ e.type = "turn" /\ \E q \in DOMAIN e.items : e.items[q].id = i /\ e.items[q].text # x

\* It is on its way, and what spoils it is followed by what gives it.
Due(events, i, x) == \E v \in DOMAIN events : Gives(events[v], i, x)

Mended(events, i, x) ==
  \A w \in DOMAIN events : Spoils(events[w], i, x) =>
    \E v \in DOMAIN events : v > w /\ Gives(events[v], i, x)

\* An item, its turn and its text, which is not empty if it is reasoning.
InFull(al, i, t, x) ==
  /\ i \in Items /\ t \in Users /\ x \in Content
  /\ i \in Reasonings => x # <<>> /\ x[1] # <<>> /\ \A z \in al : z[1] = i => z[2] = t

LEMMA FullFacts ==
  ASSUME NEW al, NEW i, NEW t, NEW x, InFull(al, i, t, x), i \in Reasonings
  PROVE  x[1] \in Seq(Word) /\ x[1] # <<>> /\ Says(x, x[1]) /\ KindOf(i) = "reasoning"
<1>1. x \in Seq(Seq(Word)) /\ x # <<>> /\ x[1] # <<>>
  BY DEF InFull, Content
<1>2. 1 \in DOMAIN x /\ x[1] \in Seq(Word)
  BY <1>1
<1>3. x[1] \in SubSeqs(x[1])
  BY <1>2, SubSeqsFacts
<1>4. QED BY <1>1, <1>2, <1>3, SessionAssumption DEF Says, ToSet, KindOf

\* A step about another item, or about reasoning, takes nothing away.
LEMMA OthersShow ==
  ASSUME NEW al, NEW m \in SoundModel(al), NEW n, NEW k, Others(m, n, k),
         NEW i, NEW t, NEW x, InFull(al, i, t, x), ShownAs(m.items, i, t, x),
         i \in Reasonings \/ ItemKey(i) # k
  PROVE  ShownAs(n.items, i, t, x)
<1>1. CASE i \in Reasonings
  <2>1. PICK p \in DOMAIN m.items :
          m.items[p].key = ReasoningKey(t) /\ Says(m.items[p].content, x[1])
    BY <1>1 DEF ShownAs
  <2>2. m.items[p].key[1] = "turn-reasoning"
    BY <2>1, KeyFacts DEF InFull
  <2>3. /\ p \in DOMAIN n.items /\ n.items[p].key = m.items[p].key
        /\ SaysStill(m.items[p].content, n.items[p].content)
    BY <2>2 DEF Others
  <2>4. x[1] \in Seq(Word) /\ x[1] # <<>>
    BY <1>1, FullFacts
  <2>5. Says(n.items[p].content, x[1])
    BY <2>1, <2>3, <2>4 DEF SaysStill
  <2>6. QED BY <1>1, <2>1, <2>3, <2>5 DEF ShownAs
<1>2. CASE i \notin Reasonings
  <2>1. PICK p \in DOMAIN m.items : m.items[p].pid = ItemKey(i) /\ m.items[p].content = x
    BY <1>2 DEF ShownAs, ShownIn
  <2>2. m.items[p] \in SoundCard /\ i \in Items
    BY <2>1, ModelFacts DEF InFull
  <2>3. m.items[p].key = ItemKey(i) /\ m.items[p].key[1] = "item"
    BY <1>2, <2>1, <2>2, ShownKey
  <2>4. m.items[p].key # k
    BY <1>2, <2>3
  <2>5. p \in DOMAIN n.items /\ n.items[p] = m.items[p]
    BY <2>3, <2>4 DEF Others
  <2>6. QED BY <1>2, <2>1, <2>5 DEF ShownAs, ShownIn
<1>3. QED BY <1>1, <1>2

LEMMA UpsertShows ==
  ASSUME NEW al, al \subseteq Reasonings \X Users, NEW m \in SoundModel(al),
         NEW item \in SoundItem(al), NEW completed \in BOOLEAN,
         NEW i, NEW t, NEW x, InFull(al, i, t, x),
         item.id = i /\ i \notin Reasonings => item.text = x,
         ShownAs(m.items, i, t, x) \/ (item.id = i /\ item.text = x)
  PROVE  ShownAs(upsert_protocol_item(m, item, completed).items, i, t, x)
<1> DEFINE n == upsert_protocol_item(m, item, completed)
<1>1. Upserted(al, m, item, n)
  BY UpsertSound
<1>2. item.id \in Items /\ item.kind = KindOf(item.id)
      /\ (item.kind = "reasoning" => <<item.id, item.turn>> \in al)
  BY DEF SoundItem
<1> HIDE DEF n
<1>3. CASE item.id = i /\ item.text = x /\ i \in Reasonings
  <2>1. x[1] \in Seq(Word) /\ x[1] # <<>> /\ Says(x, x[1]) /\ item.kind = "reasoning"
    BY <1>2, <1>3, FullFacts
  <2>2. item.turn = t
    BY <1>2, <1>3, <2>1 DEF InFull
  <2>3. PICK p \in DOMAIN n.items :
          n.items[p].key = ReasoningKey(t) /\ SaysStill(x, n.items[p].content)
    BY <1>1, <1>3, <2>1, <2>2 DEF Upserted
  <2>4. Says(n.items[p].content, x[1])
    BY <2>1, <2>3 DEF SaysStill
  <2>5. ShownAs(n.items, i, t, x)
    BY <1>3, <2>3, <2>4 DEF ShownAs
  <2>6. QED BY <2>5 DEF n
<1>4. CASE item.id = i /\ item.text = x /\ i \notin Reasonings
  <2>1. item.kind # "reasoning"
    BY <1>2, <1>4 DEF KindOf, Items
  <2>2. ShownAs(n.items, i, t, x)
    BY <1>1, <1>4, <2>1 DEF Upserted, ShownAs, ShownIn
  <2>3. QED BY <2>2 DEF n
<1>5. CASE ~ (item.id = i /\ item.text = x)
  <2>1. /\ ShownAs(m.items, i, t, x) /\ (i \in Reasonings \/ ItemKey(i) # ItemKey(item.id))
        /\ Others(m, n, ItemKey(item.id))
    BY <1>1, <1>5, KeyFacts DEF Upserted
  <2>2. ShownAs(n.items, i, t, x)
    BY <2>1, OthersShow
  <2>3. QED BY <2>2 DEF n
<1>6. QED BY <1>3, <1>4, <1>5

\* The items of a turn or of a thread.
LEMMA ItemsShow ==
  ASSUME NEW al, al \subseteq Reasonings \X Users, NEW m \in SoundModel(al),
         NEW seq \in Seq(SoundItem(al)), NEW i, NEW t, NEW x, InFull(al, i, t, x),
         \A q \in DOMAIN seq : seq[q].id = i /\ i \notin Reasonings => seq[q].text = x,
         ShownAs(m.items, i, t, x) \/ Carries(seq, i, x)
  PROVE  ShownAs(UpsertAll(m, seq).items, i, t, x)
<1> DEFINE A == SoundModel(al)
           E == SoundItem(al)
<1>1. \A n \in A, e \in E : upsert_protocol_item(n, e, TRUE) \in A
  BY UpsertSound DEF Upserted, Step
<1>2. PICK part \in [0..Len(seq) -> A] : UpsertPartsOf(part, m, seq)
  <2>1. m \in A /\ seq \in Seq(E)
    OBVIOUS
  <2> HIDE DEF A, E
  <2>2. QED BY <1>1, <2>1, UpsertParts
<1>3. Len(seq) \in Nat /\ DOMAIN seq = 1..Len(seq)
  OBVIOUS
<1> DEFINE Later(k) == \E q \in DOMAIN seq : q > k /\ seq[q].id = i /\ seq[q].text = x
           T == {k \in 0..Len(seq) : ShownAs(part[k].items, i, t, x) \/ Later(k)}
<1>4. 0 \in T
  <2>1. Carries(seq, i, x) => Later(0)
    BY <1>3 DEF Carries
  <2>2. part[0] = m /\ 0 \in 0..Len(seq)
    BY <1>2, <1>3 DEF UpsertPartsOf
  <2>3. QED BY <2>1, <2>2
<1>5. ASSUME NEW k \in 0..(Len(seq) - 1), k \in T PROVE k + 1 \in T
  <2> DEFINE item == seq[k + 1]
  <2>1. k \in 0..Len(seq) /\ k + 1 \in 0..Len(seq) /\ k + 1 \in DOMAIN seq
    BY <1>3
  <2>2. /\ item \in SoundItem(al) /\ part[k] \in SoundModel(al)
        /\ part[k + 1] = upsert_protocol_item(part[k], item, TRUE)
        /\ item.id = i /\ i \notin Reasonings => item.text = x
    BY <1>2, <2>1 DEF UpsertPartsOf
  <2>3. CASE ShownAs(part[k].items, i, t, x) \/ (item.id = i /\ item.text = x)
    <3> HIDE DEF item
    <3>1. ShownAs(part[k + 1].items, i, t, x)
      BY <2>2, <2>3, UpsertShows
    <3>2. QED BY <2>1, <3>1
  <2>4. CASE ~ (ShownAs(part[k].items, i, t, x) \/ (item.id = i /\ item.text = x))
    <3>1. PICK q \in DOMAIN seq : q > k /\ seq[q].id = i /\ seq[q].text = x
      BY <1>5, <2>4
    <3>2. q # k + 1
      BY <2>4, <3>1
    <3>3. q > k + 1
      BY <1>3, <3>1, <3>2
    <3>4. QED BY <2>1, <3>1, <3>3
  <2>5. QED BY <2>3, <2>4
<1> HIDE DEF T
<1>6. Len(seq) \in T
  BY <1>3, <1>4, <1>5, BoundedInduction
<1>7. ~ Later(Len(seq))
  BY <1>3
<1>8. QED BY <1>2, <1>6, <1>7 DEF T, UpsertPartsOf

LEMMA EventShows ==
  ASSUME NEW al, al \subseteq Reasonings \X Users, NEW m \in SoundModel(al),
         NEW e \in SoundEvent(al), NEW i, NEW t, NEW x, InFull(al, i, t, x),
         ~ Spoils(e, i, x), ShownAs(m.items, i, t, x) \/ Gives(e, i, x)
  PROVE  ShownAs(apply_event(m, e).items, i, t, x)
<1>0. i \in Items
  BY DEF InFull
<1>1. CASE e.type = "item"
  <2>1. e.item \in SoundItem(al) /\ e.completed \in BOOLEAN
    BY <1>1 DEF SoundEvent
  <2>2. apply_event(m, e) = upsert_protocol_item(m, e.item, e.completed)
    BY <1>1 DEF apply_event
  <2>3. /\ e.item.id = i /\ i \notin Reasonings => e.item.text = x
        /\ ShownAs(m.items, i, t, x) \/ (e.item.id = i /\ e.item.text = x)
    BY <1>1 DEF Spoils, Gives
  <2>4. QED BY <2>1, <2>2, <2>3, UpsertShows
<1>2. CASE e.type = "delta"
  <2>1. e.id \in Items /\ e.kind \in ItemKinds /\ e.word \in Word
    BY <1>2 DEF SoundEvent
  <2>2. apply_event(m, e) = append_delta(m, e.id, e.kind, e.word)
    BY <1>2 DEF apply_event
  <2>3. Others(m, append_delta(m, e.id, e.kind, e.word), ItemKey(e.id))
    BY <2>1, DeltaOthers
  <2>4. ShownAs(m.items, i, t, x) /\ (i \in Reasonings \/ ItemKey(i) # ItemKey(e.id))
    BY <1>2, KeyFacts DEF Spoils, Gives
  <2>5. QED BY <2>2, <2>3, <2>4, OthersShow
<1>3. CASE e.type = "part"
  <2>1. e.id \in Items
    BY <1>3 DEF SoundEvent
  <2>2. <<e.id, 1>> \in Word /\ "reasoning" \in ItemKinds
    BY <2>1 DEF Word, ItemKinds
  <2>3. apply_event(m, e) = summaryPartAdded(m, e.id)
    BY <1>3 DEF apply_event
  <2>4. Others(m, summaryPartAdded(m, e.id), ItemKey(e.id))
    BY <2>1, <2>2, DeltaOthers
  <2>5. ShownAs(m.items, i, t, x) /\ (i \in Reasonings \/ ItemKey(i) # ItemKey(e.id))
    BY <1>3, KeyFacts DEF Spoils, Gives
  <2>6. QED BY <2>3, <2>4, <2>5, OthersShow
<1>4. ASSUME NEW n \in SoundModel(al), ShownAs(n.items, i, t, x), NEW g \in Generated,
             NEW u \in Users, NEW kind \in Kinds, NEW text \in Content
      PROVE  ShownAs(upsert_generated(n, <<g, u>>, kind, text).items, i, t, x)
  <2>1. Others(n, upsert_generated(n, <<g, u>>, kind, text), NoKey)
    BY <1>4, GeneratedOthers
  <2>2. ItemKey(i) # NoKey
    BY <1>0, KeyFacts
  <2>3. QED BY <1>4, <2>1, <2>2, OthersShow
<1>5. CASE e.type = "plan"
  <2>1. e.turn \in Users /\ e.text \in Content /\ "turn-plan" \in Generated /\ "plan" \in Kinds
    BY <1>5 DEF SoundEvent, Generated, Kinds
  <2>2. apply_event(m, e) = upsert_generated(m, <<"turn-plan", e.turn>>, "plan", e.text)
    BY <1>5 DEF apply_event
  <2>3. ShownAs(m.items, i, t, x)
    BY <1>5 DEF Gives
  <2>4. QED BY <1>4, <2>1, <2>2, <2>3
<1>6. CASE e.type = "turn"
  <2>1. e.turn \in Users /\ e.items \in Seq(SoundItem(al)) /\ e.failed \in BOOLEAN
        /\ "turn-completion" \in Generated /\ "error" \in Kinds /\ <<>> \in Content
    BY <1>6 DEF SoundEvent, Generated, Kinds, Content
  <2> DEFINE n == UpsertAll(m, e.items)
  <2>2. ShownAs(n.items, i, t, x)
    <3>1. /\ \A q \in DOMAIN e.items : e.items[q].id = i /\ i \notin Reasonings => e.items[q].text = x
          /\ ShownAs(m.items, i, t, x) \/ Carries(e.items, i, x)
      BY <1>6 DEF Spoils, Gives
    <3>2. QED BY <2>1, <3>1, ItemsShow
  <2>3. n \in SoundModel(al)
    <3>1. m \in GrownModel(al, m)
      BY GrownSame
    <3>2. QED BY <2>1, <3>1, TurnGrown DEF GrownModel
  <2>4. apply_event(m, e) =
          IF e.failed THEN upsert_generated(n, <<"turn-completion", e.turn>>, "error", <<>>) ELSE n
    BY <1>6 DEF apply_event, CompleteTurn
  <2> HIDE DEF n
  <2>5. ShownAs(upsert_generated(n, <<"turn-completion", e.turn>>, "error", <<>>).items, i, t, x)
    BY <1>4, <2>1, <2>2, <2>3
  <2>6. QED BY <2>2, <2>4, <2>5
<1>7. QED BY <1>1, <1>2, <1>3, <1>5, <1>6 DEF SoundEvent

LEMMA BatchShows ==
  ASSUME NEW al, al \subseteq Reasonings \X Users, NEW m \in SoundModel(al),
         NEW events \in Seq(SoundEvent(al)), NEW i, NEW t, NEW x, InFull(al, i, t, x),
         Mended(events, i, x), ShownAs(m.items, i, t, x) \/ Due(events, i, x)
  PROVE  ShownAs(apply_batch(m, events).items, i, t, x)
<1> DEFINE A == GrownModel(al, m)
           E == SoundEvent(al)
<1>1. m \in A
  BY GrownSame
<1>2. PICK part \in [0..Len(events) -> A] : BatchPartsOf(part, m, events)
  <2>1. events \in Seq(E) /\ \A n \in A, e \in E : apply_event(n, e) \in A
    BY EventGrown
  <2> HIDE DEF A, E
  <2>2. QED BY <1>1, <2>1, BatchParts
<1>3. Len(events) \in Nat /\ DOMAIN events = 1..Len(events)
  OBVIOUS
<1> DEFINE Later(k) == \E v \in DOMAIN events : v > k /\ Gives(events[v], i, x)
           T == {k \in 0..Len(events) : ShownAs(part[k].items, i, t, x) \/ Later(k)}
<1>4. 0 \in T
  <2>1. Due(events, i, x) => Later(0)
    BY <1>3 DEF Due
  <2>2. part[0] = m /\ 0 \in 0..Len(events)
    BY <1>2, <1>3 DEF BatchPartsOf
  <2>3. QED BY <2>1, <2>2
<1>5. ASSUME NEW k \in 0..(Len(events) - 1), k \in T PROVE k + 1 \in T
  <2> DEFINE e == events[k + 1]
  <2>1. k \in 0..Len(events) /\ k + 1 \in 0..Len(events) /\ k + 1 \in DOMAIN events
    BY <1>3
  <2>2. /\ e \in SoundEvent(al) /\ part[k] \in SoundModel(al)
        /\ part[k + 1] = apply_event(part[k], e)
    BY <1>2, <2>1 DEF BatchPartsOf, GrownModel
  <2>3. CASE ~ Spoils(e, i, x) /\ (ShownAs(part[k].items, i, t, x) \/ Gives(e, i, x))
    <3> HIDE DEF e
    <3>1. ShownAs(part[k + 1].items, i, t, x)
      BY <2>2, <2>3, EventShows
    <3>2. QED BY <2>1, <3>1
  <2>4. CASE Spoils(e, i, x)
    <3>1. Later(k + 1)
      BY <2>1, <2>4 DEF Mended
    <3>2. QED BY <2>1, <3>1
  <2>5. CASE ~ (ShownAs(part[k].items, i, t, x) \/ Gives(e, i, x))
    <3>1. PICK v \in DOMAIN events : v > k /\ Gives(events[v], i, x)
      BY <1>5, <2>5
    <3>2. v # k + 1
      BY <2>5, <3>1
    <3>3. v > k + 1
      BY <1>3, <3>1, <3>2
    <3>4. QED BY <2>1, <3>1, <3>3
  <2>6. QED BY <2>3, <2>4, <2>5
<1> HIDE DEF T
<1>6. Len(events) \in T
  BY <1>3, <1>4, <1>5, BoundedInduction
<1>7. ~ Later(Len(events))
  BY <1>3
<1>8. QED BY <1>2, <1>6, <1>7 DEF T, BatchPartsOf

\* A load shows what its thread carries.
LEMMA LoadShows ==
  ASSUME NEW al, al \subseteq Reasonings \X Users, NEW m \in SoundModel(al),
         NEW thread \in Seq(SoundItem(al)), NEW saved \in Seq(SoundCard),
         \A p, q \in DOMAIN thread : thread[p].id = thread[q].id => p = q,
         NEW i, NEW t, NEW x, InFull(al, i, t, x), Carries(thread, i, x)
  PROVE  ShownAs(merge_persisted_transcript(load_thread(m, thread), saved).items, i, t, x)
<1> DEFINE o == load_thread(m, thread)
           s == merge_snapshot_items(o.items, saved)
           n == merge_persisted_transcript(o, saved)
<1>1. m.local \in Nat
  BY DEF SoundModel
<1>2. clear(m) \in SoundModel(al)
  BY <1>1, ClearSound
<1>3. o = UpsertAll(clear(m), thread)
  BY DEF load_thread
<1> HIDE DEF o
<1>4. o \in SoundModel(al)
  BY <1>2, <1>3, AllUpserted
<1>5. \A q \in DOMAIN thread : thread[q].id = i => thread[q].text = x
  BY DEF Carries
<1>6. ShownAs(o.items, i, t, x)
  BY <1>2, <1>3, <1>5, ItemsShow
<1>7. n.items = s
  BY <1>4, MergedModel
<1>8. s \in Seq(SoundCard) /\ \A f \in DOMAIN o.items : \E p \in DOMAIN s : s[p] = o.items[f]
  <2>1. o.items \in Seq(SoundCard)
    BY <1>4 DEF SoundModel
  <2>2. QED BY <2>1, MergeSound
<1> HIDE DEF s, n
<1>9. ShownAs(s, i, t, x)
  BY <1>6, <1>8 DEF ShownAs, ShownIn
<1>10. QED BY <1>7, <1>9 DEF n, o

-----------------------------------------------------------------------------
(* The log of the server.                                                  *)

LEMMA TurnInIs ==
  ASSUME NEW l, WellLog(l), NEW p \in DOMAIN l, NEW u, TurnFrom(l, p, u)
  PROVE  TurnIn(l, l[p]) = l[u]
<1> DEFINE I == {i \in 1..Len(l) : l[i] = l[p]}
           J == {i \in 1..p : l[i] \in Users}
<1>1. DOMAIN l = 1..Len(l) /\ Len(l) \in Nat /\ p \in Nat
  BY DEF WellLog
<1>2. I = {p}
  BY <1>1 DEF WellLog
<1>3. Min(I) = p
  BY <1>1, <1>2, MinElement
<1>4. u \in J /\ \A q \in J : q <= u
  BY <1>1 DEF TurnFrom
<1>5. J \subseteq 1..p /\ J # {}
  BY <1>4
<1>6. Max(J) = u
  <2>1. Max(J) \in J /\ \A q \in J : q <= Max(J)
    <3> HIDE DEF J
    <3> QED BY <1>1, <1>5, MaxElement
  <2>2. Max(J) <= u /\ u <= Max(J) /\ u \in Nat /\ Max(J) \in Nat
    BY <1>1, <1>4, <1>5, <2>1
  <2> HIDE DEF J
  <2>3. QED BY <2>2
<1>7. TurnIn(l, l[p]) = l[IF J # {} THEN Max(J) ELSE 0]
  BY <1>2, <1>3 DEF TurnIn, SelectInSeq, SelectLastInSubSeq
<1>8. QED BY <1>5, <1>6, <1>7

LEMMA HasTurn ==
  ASSUME NEW l, WellLog(l), NEW p \in DOMAIN l
  PROVE  \E u : TurnFrom(l, p, u)
<1> DEFINE J == {i \in 1..p : l[i] \in Users}
<1>1. DOMAIN l = 1..Len(l) /\ Len(l) \in Nat /\ p \in Nat /\ l # <<>>
  BY DEF WellLog
<1>2. 1 \in J
  BY <1>1 DEF WellLog
<1>3. J \subseteq 1..p /\ J # {}
  BY <1>2
<1>4. Max(J) \in J /\ \A q \in J : q <= Max(J)
  <2> HIDE DEF J
  <2> QED BY <1>1, <1>3, MaxElement
<1>5. TurnFrom(l, p, Max(J))
  <2> DEFINE u == Max(J)
  <2>1. u \in 1..p /\ l[u] \in Users /\ \A q \in 1..p : l[q] \in Users => q <= u
    BY <1>4
  <2> HIDE DEF u, J
  <2>2. \A q \in 1..p : q > u => l[q] \notin Users
    BY <1>1, <2>1
  <2>3. TurnFrom(l, p, u)
    BY <2>1, <2>2 DEF TurnFrom
  <2>4. QED BY <2>3 DEF u
<1>6. QED BY <1>5

\* The turn of an item of the log is a message, and stays when the log grows.
LEMMA TurnFacts ==
  ASSUME NEW l, WellLog(l), NEW i \in ToSet(l)
  PROVE  TurnIn(l, i) \in Users
<1>1. PICK p \in DOMAIN l : l[p] = i
  BY DEF ToSet
<1>2. PICK u : TurnFrom(l, p, u)
  BY HasTurn
<1>3. QED BY <1>1, <1>2, TurnInIs DEF TurnFrom

LEMMA LogGrows ==
  ASSUME NEW l, WellLog(l), NEW i \in Items, i \notin ToSet(l), l = <<>> => i \in Users
  PROVE  /\ WellLog(Append(l, i))
         /\ ToSet(l) \subseteq ToSet(Append(l, i)) /\ i \in ToSet(Append(l, i))
         /\ \A j \in ToSet(l) : TurnIn(Append(l, i), j) = TurnIn(l, j)
         /\ AliasesOf(l) \subseteq AliasesOf(Append(l, i))
<1> DEFINE k == Append(l, i)
<1>1. /\ l \in Seq(Items) /\ DOMAIN l = 1..Len(l) /\ Len(l) \in Nat
      /\ \A p, q \in DOMAIN l : l[p] = l[q] => p = q
      /\ l # <<>> => l[1] \in Users
  BY DEF WellLog
<1>2. /\ k \in Seq(Items) /\ DOMAIN k = 1..(Len(l) + 1) /\ k[Len(l) + 1] = i
      /\ \A p \in 1..Len(l) : k[p] = l[p]
  BY <1>1
<1> HIDE DEF k
<1>3. \A p \in 1..Len(l) : l[p] # i
  BY <1>1 DEF ToSet
<1>4. k[1] \in Users
  <2>1. CASE l = <<>>
    BY <1>2, <2>1
  <2>2. CASE l # <<>>
    <3>1. 1 \in 1..Len(l)
      BY <1>1, <2>2
    <3>2. QED BY <1>1, <1>2, <2>2, <3>1
  <2>3. QED BY <2>1, <2>2
<1>5. ASSUME NEW p \in DOMAIN k, NEW q \in DOMAIN k, k[p] = k[q] PROVE p = q
  <2>1. CASE p \in 1..Len(l) /\ q \in 1..Len(l)
    BY <1>1, <1>2, <1>5, <2>1
  <2>2. CASE p = Len(l) + 1 /\ q \in 1..Len(l)
    BY <1>2, <1>3, <1>5, <2>2
  <2>3. CASE p \in 1..Len(l) /\ q = Len(l) + 1
    BY <1>2, <1>3, <1>5, <2>3
  <2>4. QED BY <1>1, <1>2, <2>1, <2>2, <2>3
<1>6. WellLog(k)
  BY <1>2, <1>4, <1>5 DEF WellLog
<1>7. ToSet(l) \subseteq ToSet(k) /\ i \in ToSet(k)
  <2>1. ASSUME NEW j \in ToSet(l) PROVE j \in ToSet(k)
    <3>1. PICK p \in 1..Len(l) : l[p] = j
      BY <1>1 DEF ToSet
    <3>2. p \in DOMAIN k /\ k[p] = j
      BY <1>1, <1>2, <3>1
    <3>3. QED BY <3>2 DEF ToSet
  <2>2. Len(l) + 1 \in DOMAIN k
    BY <1>1, <1>2
  <2>3. QED BY <1>2, <2>1, <2>2 DEF ToSet
<1>8. ASSUME NEW j \in ToSet(l) PROVE TurnIn(k, j) = TurnIn(l, j)
  <2>1. PICK p \in DOMAIN l : l[p] = j
    BY DEF ToSet
  <2>2. PICK u : TurnFrom(l, p, u)
    BY HasTurn
  <2>3. p \in DOMAIN k /\ k[p] = j /\ \A q \in 1..p : k[q] = l[q]
    BY <1>1, <1>2, <2>1
  <2>4. u \in 1..p
    BY <2>2 DEF TurnFrom
  <2>5. TurnFrom(k, p, u)
    BY <2>2, <2>3 DEF TurnFrom
  <2>6. TurnIn(k, k[p]) = k[u]
    BY <1>6, <2>3, <2>5, TurnInIs
  <2>7. TurnIn(l, l[p]) = l[u]
    BY <2>2, TurnInIs
  <2>8. QED BY <2>1, <2>3, <2>4, <2>6, <2>7
<1>9. AliasesOf(l) \subseteq AliasesOf(k)
  BY <1>7, <1>8 DEF AliasesOf
<1>10. QED BY <1>6, <1>7, <1>8, <1>9 DEF k

\* A message opens its turn; the other items come behind it.
LEMMA TurnBegins ==
  ASSUME NEW l, WellLog(l), NEW i \in Users, i \notin ToSet(l), NEW k, k = Append(l, i)
  PROVE  \E u \in DOMAIN k : k[u] = i /\ TurnFrom(k, Len(k), u)
<1>1. l \in Seq(Items) /\ Len(l) \in Nat /\ i \in Items
  BY DEF WellLog, Items
<1>2. Len(k) = Len(l) + 1 /\ DOMAIN k = 1..(Len(l) + 1) /\ k[Len(l) + 1] = i
  BY <1>1
<1>3. TurnFrom(k, Len(k), Len(k))
  BY <1>1, <1>2 DEF TurnFrom
<1>4. QED BY <1>1, <1>2, <1>3

Continues(l, k, u, i) ==
  u \in DOMAIN k /\ k[u] = l[u] /\ TurnFrom(k, Len(k), u) /\ TurnIn(k, i) = l[u]

LEMMA TurnContinues ==
  ASSUME NEW l, WellLog(l), NEW i \in Items, i \notin ToSet(l), i \notin Users, NEW u \in DOMAIN l,
         TurnFrom(l, Len(l), u), NEW k, k = Append(l, i)
  PROVE  Continues(l, k, u, i)
<1>1. l \in Seq(Items) /\ Len(l) \in Nat /\ DOMAIN l = 1..Len(l) /\ l # <<>>
  BY DEF WellLog
<1>2. /\ Len(k) = Len(l) + 1 /\ DOMAIN k = 1..(Len(l) + 1) /\ k[Len(l) + 1] = i
      /\ \A p \in 1..Len(l) : k[p] = l[p]
  BY <1>1
<1>3. u \in 1..Len(l) /\ k[u] = l[u] /\ l[u] \in Users
  BY <1>1, <1>2 DEF TurnFrom
<1>4. ASSUME NEW q \in 1..Len(k), q > u PROVE k[q] \notin Users
  <2>1. CASE q = Len(l) + 1
    BY <1>2, <2>1
  <2>2. CASE q \in 1..Len(l)
    BY <1>2, <1>4, <2>2 DEF TurnFrom
  <2>3. QED BY <1>1, <1>2, <2>1, <2>2
<1>5. TurnFrom(k, Len(k), u)
  BY <1>1, <1>2, <1>3, <1>4 DEF TurnFrom
<1>6. WellLog(k)
  BY <1>1, LogGrows
<1>7. TurnIn(k, k[Len(k)]) = k[u]
  <2>1. Len(k) \in DOMAIN k
    BY <1>1, <1>2
  <2>2. QED BY <1>5, <1>6, <2>1, TurnInIs
<1>8. QED BY <1>1, <1>2, <1>3, <1>5, <1>7 DEF Continues

\* What is sound stays sound when the log grows.
LEMMA Monotone ==
  ASSUME NEW al, NEW be, al \subseteq be
  PROVE  /\ \A m \in SoundModel(al) : m \in SoundModel(be)
         /\ \A s \in Seq(SoundItem(al)) : s \in Seq(SoundItem(be))
         /\ \A s \in Seq(SoundEvent(al)) : s \in Seq(SoundEvent(be))
<1>1. ASSUME NEW m \in SoundModel(al) PROVE m \in SoundModel(be)
  <2>1. \A k, c : Stands(al, k, c) => Stands(be, k, c)
    BY DEF Stands
  <2>2. QED BY <2>1 DEF SoundModel
<1>2. ASSUME NEW i \in SoundItem(al) PROVE i \in SoundItem(be)
  BY DEF SoundItem
<1>3. ASSUME NEW S, NEW T, \A x \in S : x \in T, NEW s \in Seq(S) PROVE s \in Seq(T)
  <2>1. \A p \in DOMAIN s : s[p] \in T
    BY <1>3
  <2>2. QED BY <2>1
<1>4. \A s \in Seq(SoundItem(al)) : s \in Seq(SoundItem(be))
  BY <1>2, <1>3
<1>5. ASSUME NEW e \in SoundEvent(al) PROVE e \in SoundEvent(be)
  <2>1. CASE e \in [type : {"item"}, item : SoundItem(al), completed : BOOLEAN]
    <3>1. e \in [type : {"item"}, item : SoundItem(be), completed : BOOLEAN]
      BY <1>2, <2>1
    <3>2. QED BY <3>1 DEF SoundEvent
  <2>2. CASE e \in [type : {"turn"}, turn : Users, items : Seq(SoundItem(al)), failed : BOOLEAN]
    <3>1. e \in [type : {"turn"}, turn : Users, items : Seq(SoundItem(be)), failed : BOOLEAN]
      BY <1>4, <2>2
    <3>2. QED BY <3>1 DEF SoundEvent
  <2>3. QED BY <2>1, <2>2 DEF SoundEvent
<1>6. \A s \in Seq(SoundEvent(al)) : s \in Seq(SoundEvent(be))
  BY <1>3, <1>5
<1>7. QED BY <1>1, <1>4, <1>6

LEMMA AliasFacts ==
  ASSUME ServerInv
  PROVE  aliases \subseteq Reasonings \X Users
         /\ \A r \in Reasonings : Started(r) => <<r, TurnOf(r)>> \in aliases
  BY TurnFacts DEF ServerInv, aliases, AliasesOf, Started, TurnOf

-----------------------------------------------------------------------------
(* What the server sends.                                                  *)

LEMMA TextFacts ==
  ASSUME ServerInv, NEW i \in Items
  PROVE  /\ TextOf(i) \in Content /\ FullText(i) \in Content
         /\ i \notin Users /\ words[i] = Words + 1 => TextOf(i) = FullText(i)
<1>1. Words \in Nat /\ words[i] \in 0..(Words + 1)
  BY SessionAssumption DEF ServerInv
<1>2. ASSUME NEW n \in Nat PROVE <<[k \in 1..n |-> <<i, k>>]>> \in Content
  <2>1. \A k \in 1..n : <<i, k>> \in Word
    BY DEF Word
  <2>2. [k \in 1..n |-> <<i, k>>] \in Seq(Word)
    BY <2>1
  <2>3. QED BY <2>2 DEF Content
<1>3. Least(words[i], Words) \in Nat /\ (words[i] = Words + 1 => Least(words[i], Words) = Words)
  BY <1>1 DEF Least
<1>4. i \in Users => <<<<said[i]>>>> \in Content
  <2>1. i \in Users => said[i] \in Word
    BY DEF ServerInv, Word
  <2>2. i \in Users => <<said[i]>> \in Seq(Word)
    BY <2>1
  <2>3. QED BY <2>2 DEF Content
<1>5. <<>> \in Content
  BY DEF Content
<1>6. FullText(i) \in Content
  BY <1>1, <1>2 DEF FullText
<1>7. TextOf(i) \in Content
  <2>1. <<[n \in 1..Least(words[i], Words) |-> <<i, n>>]>> \in Content
    BY <1>2, <1>3
  <2>2. QED BY <1>4, <1>5, <2>1 DEF TextOf
<1>8. i \notin Users /\ words[i] = Words + 1 => TextOf(i) = FullText(i)
  <2>1. SUFFICES ASSUME i \notin Users, words[i] = Words + 1 PROVE TextOf(i) = FullText(i)
    OBVIOUS
  <2>2. words[i] # 0 /\ Least(words[i], Words) = Words
    BY <1>1, <1>3, <2>1
  <2>3. TextOf(i) = <<[n \in 1..Least(words[i], Words) |-> <<i, n>>]>>
    BY <2>1, <2>2 DEF TextOf
  <2>4. QED BY <2>2, <2>3 DEF FullText
<1>9. QED BY <1>6, <1>7, <1>8

LEMMA ItemFacts ==
  ASSUME ServerInv, NEW i, Started(i), NEW text \in Content
  PROVE  ProtocolItem(i, KindOf(i), TurnOf(i), text) \in SoundItem(aliases)
<1>1. i \in Items
  BY DEF ServerInv, WellLog, Started, ToSet
<1>2. KindOf(i) \in ItemKinds /\ (KindOf(i) = "reasoning" => i \in Reasonings)
  BY <1>1 DEF KindOf, ItemKinds, Items
<1>3. TurnOf(i) \in Users
  BY TurnFacts DEF ServerInv, Started, TurnOf
<1>4. KindOf(i) = "reasoning" => <<i, TurnOf(i)>> \in aliases
  BY <1>2, AliasFacts
<1>5. QED BY <1>1, <1>2, <1>3, <1>4 DEF ProtocolItem, SoundItem

\* The thread in an answer: each item once, with its text, and every item that is completed.
LEMMA ThreadFacts ==
  ASSUME ServerInv, NEW partial \in BOOLEAN
  PROVE  /\ ThreadNow(partial) \in Seq(SoundItem(aliases))
         /\ \A p, q \in DOMAIN ThreadNow(partial) :
              ThreadNow(partial)[p].id = ThreadNow(partial)[q].id => p = q
         /\ Shows(UpdatedAt, ThreadNow(partial))
         /\ log # <<>> /\ Completed(Last(log)) => Len(ThreadNow(partial)) = Len(log)
         /\ \A p \in DOMAIN ThreadNow(partial) :
              ThreadNow(partial)[p].text = TextOf(ThreadNow(partial)[p].id)
         /\ \A i \in Items : Completed(i) => Carries(ThreadNow(partial), i, TextOf(i))
         /\ Len(ThreadNow(partial)) <= Len(log)
         /\ \A p \in DOMAIN ThreadNow(partial) : ThreadNow(partial)[p].id = log[p]
<1> DEFINE shown == IF partial \/ log = <<>> \/ Completed(Last(log)) THEN log ELSE Front(log)
           thread == [p \in DOMAIN shown |-> ItemNow(shown[p])]
<1>1. thread = ThreadNow(partial)
  BY DEF ThreadNow
<1>2. /\ log \in Seq(Items) /\ DOMAIN log = 1..Len(log) /\ Len(log) \in Nat
      /\ \A p, q \in DOMAIN log : log[p] = log[q] => p = q
  BY DEF ServerInv, WellLog
<1>3. PICK n \in 0..Len(log) : /\ DOMAIN shown = 1..n
                               /\ \A p \in 1..n : shown[p] = log[p]
                               /\ n = Len(log) \/ (n = Len(log) - 1 /\ ~Completed(Last(log)))
  <2> DEFINE Fits(s, n) == /\ DOMAIN s = 1..n
                           /\ \A p \in 1..n : s[p] = log[p]
                           /\ n = Len(log) \/ (n = Len(log) - 1 /\ ~Completed(Last(log)))
  <2>1. CASE partial \/ log = <<>> \/ Completed(Last(log))
    <3>1. shown = log /\ Fits(log, Len(log)) /\ Len(log) \in 0..Len(log)
      BY <1>2, <2>1
    <3> HIDE DEF shown
    <3>2. Fits(shown, Len(log))
      BY <3>1
    <3> HIDE DEF Fits
    <3>3. \E n \in 0..Len(log) : Fits(shown, n)
      BY <3>1, <3>2
    <3>4. QED BY <3>3 DEF Fits
  <2>2. CASE ~ (partial \/ log = <<>> \/ Completed(Last(log)))
    <3> DEFINE front == SubSeq(log, 1, Len(log) - 1)
    <3>1. shown = front /\ Len(log) - 1 \in 0..Len(log) /\ ~Completed(Last(log))
      BY <1>2, <2>2 DEF Front
    <3>2. DOMAIN front = 1..(Len(log) - 1) /\ \A p \in 1..(Len(log) - 1) : front[p] = log[p]
      BY <1>2, <3>1
    <3> HIDE DEF shown, front
    <3>3. Fits(shown, Len(log) - 1)
      BY <3>1, <3>2
    <3> HIDE DEF Fits
    <3>4. \E n \in 0..Len(log) : Fits(shown, n)
      BY <3>1, <3>3
    <3>5. QED BY <3>4 DEF Fits
  <2>3. QED BY <2>1, <2>2
<1> HIDE DEF shown
<1>4. ASSUME NEW p \in 1..n
      PROVE  /\ log[p] \in Items /\ Started(log[p]) /\ thread[p] = ItemNow(log[p])
             /\ thread[p] \in SoundItem(aliases) /\ thread[p].id = log[p]
             /\ thread[p].text = TextOf(log[p])
  <2>1. log[p] \in Items /\ Started(log[p])
    <3>1. p \in DOMAIN log
      <4>1. Len(log) \in Nat
        BY <1>2
      <4>2. p \in 1..Len(log)
        BY <4>1
      <4>3. QED BY <1>2, <4>2
    <3>2. QED BY <1>2, <3>1 DEF Started, ToSet
  <2>2. thread[p] = ProtocolItem(log[p], KindOf(log[p]), TurnOf(log[p]), TextOf(log[p]))
    BY <1>3 DEF ItemNow
  <2>3. thread[p] \in SoundItem(aliases)
    BY <2>1, <2>2, TextFacts, ItemFacts
  <2>4. QED BY <2>1, <2>2, <2>3 DEF ItemNow, ProtocolItem
<1>5. DOMAIN thread = 1..n /\ thread = [p \in 1..n |-> thread[p]]
  BY <1>3
<1> HIDE DEF thread
<1>6. thread \in Seq(SoundItem(aliases)) /\ Len(thread) = n
  BY <1>3, <1>4, <1>5
<1>7. \A p, q \in DOMAIN thread : thread[p].id = thread[q].id => p = q
  BY <1>2, <1>4, <1>5
<1>8. ASSUME NEW i \in Items, Completed(i) PROVE Carries(thread, i, TextOf(i))
  <2>1. PICK p \in 1..Len(log) : log[p] = i
    BY <1>2, <1>8 DEF ToSet, Completed, Started
  <2>2. p \in 1..n
    <3>1. CASE n = Len(log)
      BY <3>1
    <3>2. CASE n = Len(log) - 1 /\ ~Completed(Last(log))
      <4>1. p # Len(log)
        BY <1>8, <2>1, <3>2 DEF Last
      <4>2. Len(log) \in Nat /\ n = Len(log) - 1
        BY <1>2, <3>2
      <4>3. QED BY <4>1, <4>2
    <3>3. QED BY <1>3, <3>1, <3>2
  <2>3. QED BY <1>4, <1>5, <2>1, <2>2 DEF Carries
<1>9. Shows(UpdatedAt, thread)
  <2>1. ASSUME NEW i \in Agents, i \in ToSet(log), words[i] = Words + 1
        PROVE  \E p \in DOMAIN thread : thread[p].id = i /\ thread[p].text = FullText(i)
    <3>1. Completed(i) /\ i \in Items /\ i \notin Users
      BY <2>1, SessionAssumption DEF Completed, Started, Items
    <3>2. TextOf(i) = FullText(i)
      BY <2>1, <3>1, TextFacts
    <3>3. QED BY <1>8, <3>1, <3>2 DEF Carries
  <2>2. QED BY <2>1 DEF Shows, UpdatedAt
<1>10. Completed(Last(log)) => n = Len(log)
  BY <1>3
<1>11. \A p \in DOMAIN thread : thread[p].text = TextOf(thread[p].id)
  BY <1>4, <1>5
<1>12. Len(thread) <= Len(log) /\ \A p \in DOMAIN thread : thread[p].id = log[p]
  BY <1>2, <1>4, <1>5, <1>6
<1>13. QED BY <1>1, <1>6, <1>7, <1>8, <1>9, <1>10, <1>11, <1>12

LEMMA CardsOfThread ==
  ASSUME NEW al, NEW thread \in Seq(SoundItem(al)), NEW at, Shows(at, thread), NEW items,
         \A p \in DOMAIN thread :
           thread[p].kind # "reasoning" => ShownIn(items, thread[p].id, thread[p].text)
  PROVE  CardsShow(at, items)
<1>1. SUFFICES ASSUME NEW i \in Agents, i \in ToSet(at.log), at.words[i] = Words + 1
               PROVE  ShownIn(items, i, FullText(i))
  BY DEF CardsShow, ShownIn
<1>2. PICK p \in DOMAIN thread : thread[p].id = i /\ thread[p].text = FullText(i)
  BY <1>1 DEF Shows
<1>3. thread[p] \in SoundItem(al)
  OBVIOUS
<1>4. thread[p].kind = "agent"
  BY <1>2, <1>3, SessionAssumption DEF SoundItem, KindOf
<1>5. QED BY <1>2, <1>4

-----------------------------------------------------------------------------
(* The steps of the server.                                                *)

Calls == [key : Keys, text : Texts, phase : {"asked", "sent", "failed"}]

\* The server leaves the app alone: what it knows stays true of a log that grows.
LEMMA AppKept ==
  ASSUME SessionInv, ServerInv', aliases \subseteq aliases', UNCHANGED <<appVars, disk, subscribed>>,
         wire' \in Seq(SoundEvent(aliases')), wire' # <<>> => subscribed, calls' \subseteq Calls
  PROVE  SessionInv'
<1>1. /\ model' = model /\ view' = view /\ readOnly' = readOnly /\ reply' = reply
      /\ refresher' = refresher /\ loadedAt' = loadedAt /\ disk' = disk /\ subscribed' = subscribed
  BY DEF appVars
<1>2. ReplyInv'
  <2>1. ASSUME NEW r, SoundReply(aliases, r) PROVE SoundReply(aliases', r)
    BY <2>1, Monotone DEF SoundReply
  <2>2. QED BY <1>1, <2>1 DEF SessionInv, ReplyInv, NoReply
<1>3. AppInv'
  <2>1. model \in SoundModel(aliases')
    <3>1. model \in SoundModel(aliases)
      BY DEF SessionInv, AppInv
    <3>2. QED BY <3>1, Monotone
  <2>2. CardsShow(loadedAt, model.items)' <=> CardsShow(loadedAt, model.items)
    BY <1>1 DEF CardsShow, FullText
  <2>3. QED BY <1>1, <2>1, <2>2 DEF SessionInv, AppInv, Calls
<1>4. QED BY <1>2, <1>3 DEF SessionInv

\* What is sent reaches a connection that resumed the thread.
LEMMA EmitSound ==
  ASSUME SessionInv, aliases \subseteq aliases', NEW events \in Seq(SoundEvent(aliases')), Emit(events)
  PROVE  wire' \in Seq(SoundEvent(aliases')) /\ (wire' # <<>> => subscribed)
<1>1. wire \in Seq(SoundEvent(aliases)) /\ (wire # <<>> => subscribed)
  BY DEF SessionInv, AppInv
<1>2. wire \in Seq(SoundEvent(aliases'))
  BY <1>1, Monotone
<1>3. CASE subscribed
  BY <1>2, <1>3 DEF Emit
<1>4. CASE ~ subscribed
  BY <1>1, <1>2, <1>4 DEF Emit
<1>5. QED BY <1>3, <1>4

\* One event is a sequence of events.
LEMMA OneEvent ==
  ASSUME NEW al
  PROVE  /\ \A i \in SoundItem(al), c \in BOOLEAN : <<ItemEvent(i, c)>> \in Seq(SoundEvent(al))
         /\ \A i \in Items, k \in ItemKinds, w \in Word :
              /\ <<DeltaEvent(i, k, w)>> \in Seq(SoundEvent(al))
              /\ <<PartEvent(i), DeltaEvent(i, k, w)>> \in Seq(SoundEvent(al))
         /\ \A t \in Users, text \in Content : <<PlanEvent(t, text)>> \in Seq(SoundEvent(al))
         /\ \A t \in Users, items \in Seq(SoundItem(al)), f \in BOOLEAN :
              <<TurnEvent(t, items, f)>> \in Seq(SoundEvent(al))
<1> DEFINE E == SoundEvent(al)
<1>1. \A i \in SoundItem(al), c \in BOOLEAN : ItemEvent(i, c) \in E
  BY DEF ItemEvent, SoundEvent
<1>2. \A i \in Items, k \in ItemKinds, w \in Word : DeltaEvent(i, k, w) \in E
  BY DEF DeltaEvent, SoundEvent
<1>3. \A i \in Items : PartEvent(i) \in E
  BY DEF PartEvent, SoundEvent
<1>4. \A t \in Users, text \in Content : PlanEvent(t, text) \in E
  BY DEF PlanEvent, SoundEvent
<1>5. \A t \in Users, items \in Seq(SoundItem(al)), f \in BOOLEAN : TurnEvent(t, items, f) \in E
  BY DEF TurnEvent, SoundEvent
<1> HIDE DEF E
<1>6. \A e \in E : <<e>> \in Seq(E)
  OBVIOUS
<1>7. \A e, f \in E : <<e, f>> \in Seq(E)
  OBVIOUS
<1>8. QED BY <1>1, <1>2, <1>3, <1>4, <1>5, <1>6, <1>7 DEF E

\* A turn begins.
LEMMA BeginSound ==
  ASSUME SessionInv, NEW u \in Users, NEW text \in Texts, BeginTurn(u, text), UNCHANGED plans,
         UNCHANGED <<appVars, disk, subscribed>>, calls' \subseteq Calls
  PROVE  SessionInv'
<1>1. /\ turn' = u /\ log' = Append(log, u) /\ words' = [words EXCEPT ![u] = Words + 1]
      /\ said' = [said EXCEPT ![u] = text] /\ u \notin ToSet(log)
      /\ Emit(<<ItemEvent(ProtocolItem(u, "user", u, <<<<text>>>>), TRUE)>>)
  BY DEF BeginTurn, Started
<1>2. WellLog(log) /\ words \in [Items -> 0..(Words + 1)] /\ said \in [Users -> Texts] /\ plans \in Nat
  BY DEF SessionInv, ServerInv
<1>3. u \in Items
  BY DEF Items
<1>4. WellLog(log') /\ aliases \subseteq aliases'
  BY <1>1, <1>2, <1>3, LogGrows DEF aliases
<1>5. \E v \in DOMAIN log' : log'[v] = turn' /\ TurnFrom(log', Len(log'), v)
  BY <1>1, <1>2, TurnBegins
<1>6. words' \in [Items -> 0..(Words + 1)] /\ said' \in [Users -> Texts]
  BY <1>1, <1>2, <1>3, SessionAssumption
<1>7. ServerInv'
  BY <1>1, <1>2, <1>4, <1>5, <1>6 DEF ServerInv, TurnFrom
<1>8. ProtocolItem(u, "user", u, <<<<text>>>>) \in SoundItem(aliases')
  <2>1. <<text>> \in Seq(Word)
    BY DEF Word
  <2>2. <<<<text>>>> \in Content
    BY <2>1 DEF Content
  <2>3. KindOf(u) = "user" /\ "user" \in ItemKinds
    BY DEF KindOf, ItemKinds
  <2>4. QED BY <1>3, <2>2, <2>3 DEF ProtocolItem, SoundItem
<1>9. wire' \in Seq(SoundEvent(aliases')) /\ (wire' # <<>> => subscribed)
  BY <1>1, <1>4, <1>8, OneEvent, EmitSound
<1>10. QED BY <1>4, <1>7, <1>9, AppKept

LEMMA TurnsBegin ==
  ASSUME SessionInv, NEW u \in Users
  PROVE  /\ ForeignTurn(u) => SessionInv'
         /\ \A c \in calls : ServerAccepts(c, u) => SessionInv'
<1>1. calls \subseteq Calls /\ said[u] \in Texts
  BY DEF SessionInv, AppInv, ServerInv, Calls
<1>2. ASSUME ForeignTurn(u) PROVE SessionInv'
  BY <1>1, <1>2, BeginSound DEF ForeignTurn, bounds
<1>3. ASSUME NEW c \in calls, ServerAccepts(c, u) PROVE SessionInv'
  <2>1. c \in Calls /\ c.text \in Texts
    BY <1>1 DEF Calls
  <2>2. [c EXCEPT !.phase = "sent"] \in Calls
    BY <2>1 DEF Calls
  <2>3. calls' \subseteq Calls
    BY <1>1, <1>3, <2>2 DEF ServerAccepts
  <2>4. QED BY <1>3, <2>1, <2>3, BeginSound DEF ServerAccepts, bounds
<1>4. QED BY <1>2, <1>3

LEMMA RefusesSound ==
  ASSUME SessionInv, NEW c \in calls, ServerRefuses(c)
  PROVE  SessionInv'
<1>1. c \in Calls /\ calls \subseteq Calls
  BY DEF SessionInv, AppInv, Calls
<1>2. [c EXCEPT !.phase = "failed"] \in Calls
  BY <1>1 DEF Calls
<1>3. calls' \subseteq Calls
  BY <1>1, <1>2 DEF ServerRefuses
<1>4. UNCHANGED <<turn, log, words, said, plans, wire>> /\ UNCHANGED <<appVars, disk, subscribed>>
  BY DEF ServerRefuses, serverVars, bounds
<1>5. ServerInv' /\ aliases' = aliases
  BY <1>4 DEF SessionInv, ServerInv, aliases
<1>6. wire' \in Seq(SoundEvent(aliases')) /\ (wire' # <<>> => subscribed)
  BY <1>4, <1>5 DEF SessionInv, AppInv
<1>7. QED BY <1>3, <1>4, <1>5, <1>6, AppKept

\* A step that starts no item.
LEMMA LogKept ==
  ASSUME SessionInv, UNCHANGED <<log, said>>, turn' \in {turn, NoTurn}, plans' \in Nat,
         words' \in [Items -> 0..(Words + 1)]
  PROVE  ServerInv' /\ aliases' = aliases
  BY DEF SessionInv, ServerInv, aliases

LEMMA StartsSound ==
  ASSUME SessionInv, NEW i \in Agents \cup Reasonings, ServerStarts(i)
  PROVE  SessionInv'
<1>1. /\ turn # NoTurn /\ i \notin ToSet(log) /\ log' = Append(log, i)
      /\ Emit(<<ItemEvent(ProtocolItem(i, KindOf(i), turn, <<>>), FALSE)>>)
      /\ UNCHANGED <<turn, words, said, plans>> /\ UNCHANGED <<appVars, disk, subscribed>>
      /\ UNCHANGED calls
  BY DEF ServerStarts, Started, bounds
<1>2. ServerInv /\ WellLog(log) /\ turn \in Users /\ calls \subseteq Calls
  BY <1>1 DEF SessionInv, ServerInv, AppInv, Calls
<1>3. i \in Items /\ i \notin Users
  BY SessionAssumption DEF Items
<1>4. PICK u \in DOMAIN log : log[u] = turn /\ TurnFrom(log, Len(log), u)
  BY <1>1, <1>2 DEF ServerInv
<1>5. log # <<>>
  BY <1>4
<1>6. WellLog(log') /\ aliases \subseteq aliases' /\ i \in ToSet(log')
  BY <1>1, <1>2, <1>3, <1>5, LogGrows DEF aliases
<1>7. u \in DOMAIN log' /\ log'[u] = turn /\ TurnFrom(log', Len(log'), u) /\ TurnIn(log', i) = turn
  <2>1. Continues(log, log', u, i)
    BY <1>1, <1>2, <1>3, <1>4, TurnContinues
  <2>2. QED BY <1>4, <2>1 DEF Continues
<1>8. ServerInv'
  BY <1>1, <1>2, <1>6, <1>7 DEF ServerInv
<1>9. ProtocolItem(i, KindOf(i), turn, <<>>) \in SoundItem(aliases')
  <2>1. i \in Reasonings => <<i, turn>> \in aliases'
    BY <1>6, <1>7 DEF aliases, AliasesOf
  <2>2. KindOf(i) \in ItemKinds /\ (KindOf(i) = "reasoning" => i \in Reasonings) /\ <<>> \in Content
    BY <1>3 DEF KindOf, ItemKinds, Items, Content
  <2>3. QED BY <1>2, <1>3, <2>1, <2>2 DEF ProtocolItem, SoundItem
<1>10. wire' \in Seq(SoundEvent(aliases')) /\ (wire' # <<>> => subscribed)
  BY <1>1, <1>6, <1>9, OneEvent, EmitSound
<1>11. QED BY <1>1, <1>2, <1>6, <1>8, <1>10, AppKept

LEMMA StreamsSound ==
  ASSUME SessionInv, NEW i \in Agents \cup Reasonings, NEW summary \in BOOLEAN,
         ServerStreams(i, summary)
  PROVE  SessionInv'
<1> DEFINE delta == DeltaEvent(i, KindOf(i), <<i, words[i] + 1>>)
           events == IF summary THEN <<PartEvent(i), delta>> ELSE <<delta>>
<1>1. /\ words[i] < Words /\ words' = [words EXCEPT ![i] = @ + 1] /\ Emit(events)
      /\ UNCHANGED <<turn, log, said, plans>> /\ UNCHANGED <<appVars, disk, subscribed>>
      /\ UNCHANGED calls
  BY DEF ServerStreams, bounds
<1>2. /\ words \in [Items -> 0..(Words + 1)] /\ Words \in Nat /\ plans \in Nat /\ i \in Items
      /\ calls \subseteq Calls
  BY SessionAssumption DEF SessionInv, ServerInv, AppInv, Calls, Items
<1>3. words[i] \in Nat /\ words[i] + 1 \in 0..(Words + 1)
  BY <1>1, <1>2
<1>4. words' \in [Items -> 0..(Words + 1)]
  BY <1>1, <1>2, <1>3
<1>5. ServerInv' /\ aliases' = aliases
  BY <1>1, <1>2, <1>4, LogKept
<1>6. events \in Seq(SoundEvent(aliases'))
  <2>1. KindOf(i) \in ItemKinds /\ <<i, words[i] + 1>> \in Word
    BY <1>2, <1>3 DEF KindOf, ItemKinds, Word
  <2>2. QED BY <1>2, <2>1, OneEvent
<1> HIDE DEF events
<1>7. wire' \in Seq(SoundEvent(aliases')) /\ (wire' # <<>> => subscribed)
  BY <1>1, <1>5, <1>6, EmitSound
<1>8. QED BY <1>1, <1>2, <1>5, <1>7, AppKept

LEMMA CompletesSound ==
  ASSUME SessionInv, NEW i \in Agents \cup Reasonings, ServerCompletes(i)
  PROVE  SessionInv'
<1> DEFINE item == ProtocolItem(i, KindOf(i), TurnOf(i), FullText(i))
<1>1. /\ Started(i) /\ words' = [words EXCEPT ![i] = Words + 1] /\ Emit(<<ItemEvent(item, TRUE)>>)
      /\ UNCHANGED <<turn, log, said, plans>> /\ UNCHANGED <<appVars, disk, subscribed>>
      /\ UNCHANGED calls
  BY DEF ServerCompletes, bounds
<1>2. /\ words \in [Items -> 0..(Words + 1)] /\ Words \in Nat /\ plans \in Nat /\ i \in Items
      /\ calls \subseteq Calls /\ ServerInv
  BY SessionAssumption DEF SessionInv, ServerInv, AppInv, Calls, Items
<1>3. words' \in [Items -> 0..(Words + 1)]
  BY <1>1, <1>2
<1>4. ServerInv' /\ aliases' = aliases
  BY <1>1, <1>2, <1>3, LogKept
<1>5. item \in SoundItem(aliases')
  <2>1. FullText(i) \in Content
    BY <1>2, TextFacts
  <2>2. item \in SoundItem(aliases)
    BY <1>1, <1>2, <2>1, ItemFacts
  <2>3. QED BY <1>4, <2>2
<1> HIDE DEF item
<1>6. wire' \in Seq(SoundEvent(aliases')) /\ (wire' # <<>> => subscribed)
  BY <1>1, <1>4, <1>5, OneEvent, EmitSound
<1>7. QED BY <1>1, <1>2, <1>4, <1>6, AppKept

LEMMA EndsSound ==
  ASSUME SessionInv, NEW full \in BOOLEAN, NEW failed \in BOOLEAN, ServerEndsTurn(full, failed)
  PROVE  SessionInv'
<1> DEFINE J == {p \in 1..Len(log) : log[p] = turn}
           from == IF J # {} THEN Min(J) ELSE 0
           part == SubSeq(ThreadNow(FALSE), from, Len(log))
           items == IF full THEN part ELSE <<>>
<1>1. /\ turn # NoTurn /\ turn' = NoTurn /\ \A i \in ToSet(log) : Completed(i)
      /\ UNCHANGED <<log, words, said, plans>> /\ UNCHANGED <<appVars, disk, subscribed>>
      /\ UNCHANGED calls
  BY DEF ServerEndsTurn, bounds
<1>2. Emit(<<TurnEvent(turn, items, failed)>>)
  BY DEF ServerEndsTurn, SelectInSeq
<1>3. /\ words \in [Items -> 0..(Words + 1)] /\ plans \in Nat /\ turn \in Users
      /\ calls \subseteq Calls /\ ServerInv
  BY <1>1 DEF SessionInv, ServerInv, AppInv, Calls
<1>4. ServerInv' /\ aliases' = aliases
  BY <1>1, <1>3, LogKept
<1>5. PICK u \in DOMAIN log : log[u] = turn
  BY <1>1, <1>3 DEF ServerInv
<1>6. log \in Seq(Items) /\ Len(log) \in Nat /\ DOMAIN log = 1..Len(log)
  BY <1>3 DEF ServerInv, WellLog
<1>7. from \in 1..Len(log)
  <2>1. J \subseteq 1..Len(log) /\ J \subseteq Nat /\ J # {}
    BY <1>5, <1>6
  <2> HIDE DEF J
  <2>2. QED BY <2>1, MinElement
<1>8. ThreadNow(FALSE) \in Seq(SoundItem(aliases)) /\ Len(ThreadNow(FALSE)) = Len(log)
  <2>1. log # <<>> /\ Len(log) \in DOMAIN log
    BY <1>5, <1>6
  <2>2. Completed(Last(log))
    BY <1>1, <2>1 DEF Last, ToSet
  <2>3. FALSE \in BOOLEAN
    OBVIOUS
  <2>4. QED BY <1>3, <2>1, <2>2, <2>3, ThreadFacts
<1> DEFINE thread == ThreadNow(FALSE)
<1> HIDE DEF from, thread
<1>9. SubSeq(thread, from, Len(log)) \in Seq(SoundItem(aliases))
  <2>1. thread \in Seq(SoundItem(aliases)) /\ Len(thread) = Len(log)
    BY <1>8 DEF thread
  <2>2. QED BY <1>6, <1>7, <2>1
<1>10. items \in Seq(SoundItem(aliases'))
  <2>1. part \in Seq(SoundItem(aliases))
    BY <1>9, Zenon DEF thread
  <2> HIDE DEF part
  <2>2. SoundItem(aliases') = SoundItem(aliases)
    BY <1>4
  <2>3. QED BY <2>1, <2>2
<1> HIDE DEF items
<1>11. wire' \in Seq(SoundEvent(aliases')) /\ (wire' # <<>> => subscribed)
  BY <1>2, <1>3, <1>4, <1>10, OneEvent, EmitSound
<1>12. QED BY <1>1, <1>3, <1>4, <1>11, AppKept

LEMMA PlansSound ==
  ASSUME SessionInv, ServerPlans
  PROVE  SessionInv'
<1> DEFINE text == <<<<<<NoKey, plans + 1>>>>>>
<1>1. /\ turn # NoTurn /\ plans' = plans + 1 /\ Emit(<<PlanEvent(turn, text)>>)
      /\ UNCHANGED <<turn, log, words, said>> /\ UNCHANGED <<appVars, disk, subscribed>>
      /\ UNCHANGED calls
  BY DEF ServerPlans, serverVars
<1>2. /\ words \in [Items -> 0..(Words + 1)] /\ plans \in Nat /\ turn \in Users
      /\ calls \subseteq Calls
  BY <1>1 DEF SessionInv, ServerInv, AppInv, Calls
<1>3. ServerInv' /\ aliases' = aliases
  BY <1>1, <1>2, LogKept
<1>4. text \in Content
  <2>1. <<NoKey, plans + 1>> \in Word
    BY <1>2 DEF Word
  <2>2. <<<<NoKey, plans + 1>>>> \in Seq(Word)
    BY <2>1
  <2>3. QED BY <2>2 DEF Content
<1> HIDE DEF text
<1>5. wire' \in Seq(SoundEvent(aliases')) /\ (wire' # <<>> => subscribed)
  BY <1>1, <1>2, <1>3, <1>4, OneEvent, EmitSound
<1>6. QED BY <1>1, <1>2, <1>3, <1>5, AppKept

LEMMA ResumesSound ==
  ASSUME SessionInv, NEW partial \in BOOLEAN, NEW owned \in BOOLEAN, ServerResumes(partial, owned)
  PROVE  SessionInv'
<1>1. /\ view = "loading" /\ (subscribed => owned) /\ subscribed' = owned
      /\ reply' = [none |-> FALSE, thread |-> ThreadNow(partial), readOnly |-> ~owned,
                   updatedAt |-> IF owned THEN Unloaded ELSE UpdatedAt, active |-> turn # NoTurn]
      /\ UNCHANGED <<turn, log, words, said, plans>>
      /\ UNCHANGED <<model, view, readOnly, refresher, loadedAt, calls, disk, wire>>
  BY DEF ServerResumes, serverVars, bounds
<1>2. ServerInv /\ words \in [Items -> 0..(Words + 1)] /\ plans \in Nat /\ AppInv
  BY DEF SessionInv, ServerInv
<1>3. ServerInv' /\ aliases' = aliases
  BY <1>1, <1>2, LogKept
<1>4. SoundReply(aliases, reply')
  <2> DEFINE thread == ThreadNow(partial)
  <2>1. /\ thread \in Seq(SoundItem(aliases))
        /\ \A p, q \in DOMAIN thread : thread[p].id = thread[q].id => p = q
        /\ Shows(UpdatedAt, thread)
    BY <1>2, ThreadFacts
  <2>2. reply'.readOnly => ~owned
    BY <1>1
  <2> HIDE DEF thread
  <2>3. /\ reply'.none = FALSE /\ reply'.thread = thread /\ reply'.readOnly \in BOOLEAN
        /\ reply'.active \in BOOLEAN
    BY <1>1 DEF thread
  <2>4. ~owned => reply'.updatedAt = UpdatedAt
    BY <1>1
  <2>5. QED BY <2>1, <2>2, <2>3, <2>4 DEF SoundReply
<1>5. reply'.readOnly => ~subscribed'
  BY <1>1
<1>6. ReplyInv'
  BY <1>3, <1>4, <1>5 DEF ReplyInv
<1>7. AppInv'
  BY <1>1, <1>2, <1>3 DEF AppInv
<1>8. QED BY <1>3, <1>6, <1>7 DEF SessionInv

LEMMA ServerSound ==
  ASSUME SessionInv, ServerNext
  PROVE  SessionInv'
<1>1. CASE \E u \in Users : ForeignTurn(u)
  BY <1>1, TurnsBegin
<1>2. CASE \E c \in calls : ServerRefuses(c) \/ \E u \in Users : ServerAccepts(c, u)
  <2>1. PICK c \in calls : ServerRefuses(c) \/ \E u \in Users : ServerAccepts(c, u)
    BY <1>2
  <2>2. CASE ServerRefuses(c)
    BY <2>2, RefusesSound
  <2>3. CASE \E u \in Users : ServerAccepts(c, u)
    BY <2>3, TurnsBegin
  <2>4. QED BY <2>1, <2>2, <2>3
<1>3. CASE \E i \in Agents \cup Reasonings :
             \/ ServerStarts(i)
             \/ \E summary \in BOOLEAN : ServerStreams(i, summary)
             \/ ServerCompletes(i)
  BY <1>3, StartsSound, StreamsSound, CompletesSound
<1>4. CASE \E full, failed \in BOOLEAN : ServerEndsTurn(full, failed)
  BY <1>4, EndsSound
<1>5. CASE ServerPlans
  BY <1>5, PlansSound
<1>6. CASE \E partial, owned \in BOOLEAN : ServerResumes(partial, owned)
  BY <1>6, ResumesSound
<1>7. QED BY <1>1, <1>2, <1>3, <1>4, <1>5, <1>6 DEF ServerNext

-----------------------------------------------------------------------------
(* The steps of the app.                                                   *)

\* The app leaves the server alone.
LEMMA ServerKept ==
  ASSUME SessionInv, UNCHANGED <<serverVars, plans>>
  PROVE  ServerInv' /\ aliases' = aliases
<1>1. UNCHANGED <<turn, log, words, said, plans>>
  BY DEF serverVars
<1>2. words \in [Items -> 0..(Words + 1)] /\ plans \in Nat
  BY DEF SessionInv, ServerInv
<1>3. QED BY <1>1, <1>2, LogKept

LEMMA EmptySound ==
  ASSUME SessionInv
  PROVE  clear(model) \in SoundModel(aliases) /\ NewModel \in SoundModel(aliases)
<1>1. model.local \in Nat
  BY DEF SessionInv, AppInv, SoundModel
<1>2. QED BY <1>1, ClearSound

LEMMA OpenSound ==
  ASSUME SessionInv, OpenThread \/ LeaveThread \/ Restart
  PROVE  SessionInv'
<1>1. /\ model' \in {clear(model), NewModel} /\ view' \in {"closed", "loading"} /\ ~readOnly'
      /\ readOnly' \in BOOLEAN /\ reply' = NoReply /\ refresher' = [at |-> "off", active |-> FALSE]
      /\ UNCHANGED <<serverVars, plans>> /\ disk' = disk /\ calls' \in {calls, {}}
      /\ (wire' = wire /\ subscribed' = subscribed) \/ wire' = <<>>
  BY DEF OpenThread, LeaveThread, Restart, StopRefresher
<1>2. ServerInv' /\ aliases' = aliases
  BY <1>1, ServerKept
<1>3. model' \in SoundModel(aliases)
  BY <1>1, EmptySound
<1>4. wire' \in Seq(SoundEvent(aliases)) /\ (wire' # <<>> => subscribed')
  <2>1. wire \in Seq(SoundEvent(aliases)) /\ (wire # <<>> => subscribed)
    BY DEF SessionInv, AppInv
  <2>2. CASE wire' = wire /\ subscribed' = subscribed
    BY <2>1, <2>2
  <2>3. CASE wire' = <<>>
    BY <2>3
  <2>4. QED BY <1>1, <2>2, <2>3
<1>5. refresher' \in [at : {"off", "timer", "list", "read"}, active : BOOLEAN] /\ refresher'.at = "off"
  BY <1>1
<1>6. disk \in Seq(SoundCard) /\ calls' \subseteq Calls
  BY <1>1 DEF SessionInv, AppInv, Calls
<1>7. AppInv'
  BY <1>1, <1>2, <1>3, <1>4, <1>5, <1>6 DEF AppInv, Calls
<1>8. ReplyInv'
  BY <1>1 DEF ReplyInv, NoReply
<1>9. QED BY <1>2, <1>7, <1>8 DEF SessionInv

LEMMA LoadThreadSound ==
  ASSUME SessionInv, LoadThread
  PROVE  SessionInv'
<1>1. /\ view = "loading" /\ reply # NoReply /\ view' = "open"
      /\ model' = merge_persisted_transcript(load_thread(model, reply.thread), disk)
      /\ readOnly' = reply.readOnly /\ loadedAt' = reply.updatedAt /\ reply' = NoReply
      /\ refresher' = IF reply.readOnly THEN [at |-> "timer", active |-> reply.active] ELSE refresher
      /\ UNCHANGED <<serverVars, plans>> /\ UNCHANGED <<calls, disk, wire, subscribed>>
  BY DEF LoadThread, bounds
<1>2. ServerInv' /\ aliases' = aliases
  BY <1>1, ServerKept
<1>3. SoundReply(aliases, reply) /\ (reply.readOnly => ~subscribed)
  BY <1>1 DEF SessionInv, ReplyInv
<1>4. ServerInv /\ AppInv /\ model \in SoundModel(aliases) /\ disk \in Seq(SoundCard)
  BY DEF SessionInv, AppInv
<1>5. aliases \subseteq Reasonings \X Users
  BY <1>4, AliasFacts
<1>6. /\ model' \in SoundModel(aliases)
      /\ \A p \in DOMAIN reply.thread :
           reply.thread[p].kind # "reasoning"
             => ShownIn(model'.items, reply.thread[p].id, reply.thread[p].text)
  <2>1. /\ reply.thread \in Seq(SoundItem(aliases))
        /\ \A p, q \in DOMAIN reply.thread : reply.thread[p].id = reply.thread[q].id => p = q
    BY <1>3 DEF SoundReply
  <2>2. model' \in {merge_persisted_transcript(load_thread(model, reply.thread), disk),
                    refresh_thread(model, reply.thread)}
    BY <1>1
  <2>3. QED BY <1>4, <1>5, <2>1, <2>2, LoadSound
<1>7. reply.readOnly => CardsShow(reply.updatedAt, model'.items)
  <2>1. reply.thread \in Seq(SoundItem(aliases))
    BY <1>3 DEF SoundReply
  <2>2. reply.readOnly => Shows(reply.updatedAt, reply.thread)
    BY <1>3 DEF SoundReply
  <2>3. QED BY <1>6, <2>1, <2>2, CardsOfThread
<1>8. /\ refresher' \in [at : {"off", "timer", "list", "read"}, active : BOOLEAN]
      /\ refresher'.at # "off" <=> reply.readOnly
  <2>1. reply.readOnly \in BOOLEAN /\ reply.active \in BOOLEAN
    BY <1>3 DEF SoundReply
  <2>2. refresher \in [at : {"off", "timer", "list", "read"}, active : BOOLEAN] /\ refresher.at = "off"
    BY <1>1, <1>4 DEF AppInv
  <2>3. QED BY <1>1, <2>1, <2>2
<1>9. AppInv'
  <2>1. reply.readOnly \in BOOLEAN
    BY <1>3 DEF SoundReply
  <2>2. QED BY <1>1, <1>2, <1>3, <1>4, <1>6, <1>7, <1>8, <2>1 DEF AppInv
<1>10. ReplyInv'
  BY <1>1 DEF ReplyInv, NoReply
<1>11. QED BY <1>2, <1>9, <1>10 DEF SessionInv

LEMMA LoadFailsSound ==
  ASSUME SessionInv, LoadFails
  PROVE  SessionInv'
<1>1. /\ view = "loading" /\ reply = NoReply /\ view' = "unloaded" /\ readOnly' = TRUE
      /\ UNCHANGED <<model, reply, refresher, loadedAt, calls, disk, wire, subscribed>>
      /\ UNCHANGED <<serverVars, plans>>
  BY DEF LoadFails, bounds
<1>2. ServerInv' /\ aliases' = aliases
  BY <1>1, ServerKept
<1>3. AppInv'
  BY <1>1, <1>2 DEF SessionInv, AppInv
<1>4. ReplyInv'
  BY <1>1 DEF ReplyInv, NoReply
<1>5. QED BY <1>2, <1>3, <1>4 DEF SessionInv

LEMMA BatchStepSound ==
  ASSUME SessionInv, ApplyBatch
  PROVE  /\ SessionInv'
         /\ view # "closed" => model' \in GrownModel(aliases, model)
<1>1. /\ wire # <<>> /\ wire' = <<>>
      /\ UNCHANGED <<readOnly, refresher, loadedAt, calls, subscribed>>
      /\ UNCHANGED <<serverVars, plans>>
  BY DEF ApplyBatch, bounds
<1>2. ServerInv' /\ aliases' = aliases
  BY <1>1, ServerKept
<1>3. /\ ServerInv /\ ReplyInv /\ model \in SoundModel(aliases) /\ disk \in Seq(SoundCard)
      /\ wire \in Seq(SoundEvent(aliases)) /\ subscribed
  BY <1>1 DEF SessionInv, AppInv
<1>4. aliases \subseteq Reasonings \X Users
  BY <1>3, AliasFacts
<1>5. apply_batch(model, wire) \in GrownModel(aliases, model)
  BY <1>3, <1>4, BatchSound
<1>6. view # "closed" => /\ model' = apply_batch(model, wire)
                         /\ disk' \in {model'.items, disk} /\ reply' \in {NoReply, reply}
                         /\ view' \in {view, "unloaded"} /\ (view' = "unloaded" => view # "open" \/ view = view')
  BY DEF ApplyBatch
<1>7. view = "closed" => UNCHANGED <<model, view, reply, disk>>
  BY DEF ApplyBatch
<1>8. view # "closed" => model' \in GrownModel(aliases, model)
  BY <1>5, <1>6
<1>9. model' \in SoundModel(aliases) /\ disk' \in Seq(SoundCard)
  <2>1. model' \in SoundModel(aliases)
    BY <1>3, <1>7, <1>8 DEF GrownModel
  <2>2. model'.items \in Seq(SoundCard)
    BY <2>1 DEF SoundModel
  <2>3. QED BY <1>3, <1>6, <1>7, <2>1, <2>2
<1>10. reply' \in {NoReply, reply} /\ view' \in {view, "unloaded"} /\ ~ (readOnly /\ view = "open")
       /\ (view' = "open" => view = "open")
  BY <1>3, <1>6, <1>7 DEF SessionInv, AppInv
<1>11. ReplyInv'
  BY <1>1, <1>2, <1>3, <1>10 DEF ReplyInv, NoReply
<1>12. AppInv'
  <2>1. wire' \in Seq(SoundEvent(aliases))
    BY <1>1
  <2>2. QED BY <1>1, <1>2, <1>9, <1>10, <2>1 DEF SessionInv, AppInv
<1>13. QED BY <1>2, <1>8, <1>11, <1>12 DEF SessionInv

\* A message typed here is a card of its own.
LEMMA LocalSound ==
  ASSUME NEW al, NEW m \in SoundModel(al), NEW text \in Content
  PROVE  /\ push_local_user(m, text) \in SoundModel(al)
         /\ \A i, t, x : ShownAs(m.items, i, t, x) => ShownAs(push_local_user(m, text).items, i, t, x)
<1> DEFINE n == [m EXCEPT !.local = @ + 1]
           c == Card(LocalKey(m.local + 1), NoKey, "user", "sending", text)
<1>1. m \in [items : Seq(SoundCard), index : Index, local : Nat] /\ m.local + 1 \in Nat
  BY DEF SoundModel
<1>2. n = [items |-> m.items, index |-> m.index, local |-> m.local + 1]
  BY <1>1
<1>3. n \in SoundModel(al)
  BY <1>1, <1>2 DEF SoundModel
<1>4. c \in SoundCard
  <2>1. LocalKey(m.local + 1) \in Keys /\ LocalKey(m.local + 1)[1] = "local-user"
    BY <1>1, KeyFacts
  <2>2. "user" \in ItemKinds /\ "user" \in Kinds /\ "sending" \in Statuses
    BY DEF ItemKinds, Kinds, Statuses
  <2>3. QED BY <2>1, <2>2 DEF Card, SoundCard
<1> HIDE DEF n, c
<1> DEFINE o == push_without_splice(n, c)
<1>5. o \in SoundModel(al) /\ o.items = Append(n.items, c)
  BY <1>3, <1>4, PushSound
<1>6. n.items = m.items
  BY <1>2
<1> HIDE DEF o
<1>7. \A p \in DOMAIN m.items : p \in DOMAIN o.items /\ o.items[p] = m.items[p]
  BY <1>1, <1>4, <1>5, <1>6
<1>8. \A i, t, x : ShownAs(m.items, i, t, x) => ShownAs(o.items, i, t, x)
  BY <1>7 DEF ShownAs, ShownIn
<1>9. QED BY <1>5, <1>8 DEF push_local_user, n, c, o

\* The status of a card is no part of what it shows.
LEMMA StatusSound ==
  ASSUME NEW al, NEW m \in SoundModel(al), NEW key, NEW status \in Statuses, NEW n,
         n = set_status_for_key(m, key, status)
  PROVE  /\ n \in SoundModel(al) /\ \A at : CardsShow(at, m.items) => CardsShow(at, n.items)
         /\ \A i, t, x : ShownAs(m.items, i, t, x) => ShownAs(n.items, i, t, x)
<1>1. CASE ~ Found(m, key)
  BY <1>1 DEF set_status_for_key
<1>2. CASE Found(m, key)
  <2> DEFINE p == m.index[key]
  <2>1. n = [m EXCEPT !.items[p].status = status]
    BY <1>2 DEF set_status_for_key
  <2>2. p \in DOMAIN m.items /\ m.items[p] \in SoundCard
    BY <1>2, ModelFacts DEF Found
  <2> HIDE DEF p
  <2>3. Edited(al, m, p, n)
    BY <2>1, <2>2, FieldSound
  <2>4. n.items[p].pid = m.items[p].pid /\ n.items[p].content = m.items[p].content
    <3>1. m \in [items : Seq(SoundCard), index : Index, local : Nat]
      BY DEF SoundModel
    <3>2. n.items = [m.items EXCEPT ![p] = [@ EXCEPT !.status = status]]
      BY <2>1, <3>1
    <3>3. n.items[p] = [m.items[p] EXCEPT !.status = status]
      BY <2>2, <3>2
    <3>4. QED BY <2>2, <3>3 DEF SoundCard
  <2>5. \A q \in DOMAIN m.items : /\ q \in DOMAIN n.items /\ n.items[q].key = m.items[q].key
                                  /\ n.items[q].pid = m.items[q].pid
                                  /\ n.items[q].content = m.items[q].content
    BY <2>3, <2>4, ModelFacts DEF Edited, SameKeys
  <2>6. \A i, t, x : ShownAs(m.items, i, t, x) => ShownAs(n.items, i, t, x)
    BY <2>5 DEF ShownAs, ShownIn
  <2>7. QED BY <2>3, <2>5, <2>6 DEF Edited, CardsShow
<1>3. QED BY <1>1, <1>2

LEMMA SendSound ==
  ASSUME SessionInv, NEW text \in Texts, Send(text)
  PROVE  SessionInv'
<1>1. /\ view = "open" /\ ~readOnly /\ model' = push_local_user(model, <<<<text>>>>)
      /\ calls' = calls \cup {[key |-> LocalKey(model'.local), text |-> text, phase |-> "asked"]}
      /\ UNCHANGED <<view, readOnly, reply, refresher, loadedAt, disk, wire, subscribed>>
      /\ UNCHANGED <<serverVars, plans>>
  BY DEF Send
<1>2. ServerInv' /\ aliases' = aliases
  BY <1>1, ServerKept
<1>3. model' \in SoundModel(aliases)
  <2>1. <<text>> \in Seq(Word)
    BY DEF Word
  <2>2. <<<<text>>>> \in Content
    BY <2>1 DEF Content
  <2>3. model \in SoundModel(aliases)
    BY DEF SessionInv, AppInv
  <2>4. QED BY <1>1, <2>2, <2>3, LocalSound
<1>4. calls' \subseteq Calls
  <2>1. model'.local \in Nat
    BY <1>3 DEF SoundModel
  <2>2. LocalKey(model'.local) \in Keys
    BY <2>1, KeyFacts
  <2>3. [key |-> LocalKey(model'.local), text |-> text, phase |-> "asked"] \in Calls
    BY <2>2 DEF Calls
  <2>4. calls \subseteq Calls
    BY DEF SessionInv, AppInv, Calls
  <2>5. QED BY <1>1, <2>3, <2>4
<1>5. ReplyInv'
  BY <1>1, <1>2 DEF SessionInv, ReplyInv, NoReply
<1>6. AppInv'
  BY <1>1, <1>2, <1>3, <1>4 DEF SessionInv, AppInv, Calls
<1>7. QED BY <1>2, <1>5, <1>6 DEF SessionInv

LEMMA AnswerSound ==
  ASSUME SessionInv, NEW c \in calls, SendAnswered(c)
  PROVE  SessionInv'
<1>1. /\ model' = set_status_for_key(model, c.key, c.phase) /\ calls' = calls \ {c}
      /\ UNCHANGED <<view, readOnly, reply, refresher, loadedAt, disk, wire, subscribed>>
      /\ UNCHANGED <<serverVars, plans>>
  BY DEF SendAnswered, bounds
<1>2. ServerInv' /\ aliases' = aliases
  BY <1>1, ServerKept
<1>3. c.phase \in Statuses
  <2>1. c \in Calls /\ c.phase # "asked"
    BY DEF SessionInv, AppInv, Calls, SendAnswered
  <2>2. QED BY <2>1 DEF Calls, Statuses
<1>4. model \in SoundModel(aliases)
  BY DEF SessionInv, AppInv
<1>5. model' \in SoundModel(aliases)
      /\ \A at : CardsShow(at, model.items) => CardsShow(at, model'.items)
  BY <1>1, <1>3, <1>4, StatusSound
<1>6. ReplyInv'
  BY <1>1, <1>2 DEF SessionInv, ReplyInv, NoReply
<1>7. AppInv'
  BY <1>1, <1>2, <1>5 DEF SessionInv, AppInv
<1>8. QED BY <1>2, <1>6, <1>7 DEF SessionInv

LEMMA RefreshSound ==
  ASSUME SessionInv, RefreshNext
  PROVE  SessionInv'
<1> DEFINE Ats == {"off", "timer", "list", "read"}
<1>1. /\ UNCHANGED <<view, readOnly, reply, calls, disk, wire, subscribed>>
      /\ UNCHANGED <<serverVars, plans>> /\ refresher.at \in {"timer", "list", "read"}
  BY DEF RefreshNext, RefreshTimer, RefreshLists, RefreshReads, RefreshFails, RefreshRest, bounds
<1>2. ServerInv' /\ aliases' = aliases
  BY <1>1, ServerKept
<1>3. ReplyInv'
  BY <1>1, <1>2 DEF SessionInv, ReplyInv, NoReply
<1>4. refresher \in [at : Ats, active : BOOLEAN] /\ readOnly /\ view = "open" /\ ~subscribed
  BY <1>1 DEF SessionInv, AppInv
<1>5. SUFFICES /\ model' \in SoundModel(aliases) /\ CardsShow(loadedAt', model'.items)
               /\ refresher' \in [at : Ats, active : BOOLEAN] /\ refresher'.at # "off"
  BY <1>1, <1>2, <1>3, <1>4 DEF SessionInv, AppInv
<1>6. CASE RefreshTimer \/ RefreshLists \/ RefreshFails
  <2>1. UNCHANGED <<model, loadedAt>>
    BY <1>6 DEF RefreshTimer, RefreshLists, RefreshFails
  <2>2. \E a \in {"timer", "list", "read"} : refresher' = [refresher EXCEPT !.at = a]
    BY <1>6 DEF RefreshTimer, RefreshLists, RefreshFails
  <2>3. refresher' \in [at : Ats, active : BOOLEAN] /\ refresher'.at # "off"
    BY <1>4, <2>2
  <2>4. QED BY <1>4, <2>1, <2>3 DEF SessionInv, AppInv
<1>7. CASE \E partial \in BOOLEAN : RefreshReads(partial)
  <2>1. PICK partial \in BOOLEAN : RefreshReads(partial)
    BY <1>7
  <2> DEFINE thread == ThreadNow(partial)
  <2>2. /\ model' = refresh_thread(model, thread) /\ loadedAt' = UpdatedAt
        /\ refresher' = [at |-> "timer", active |-> turn # NoTurn]
    BY <2>1 DEF RefreshReads
  <2>3. ServerInv /\ model \in SoundModel(aliases)
    BY DEF SessionInv, AppInv
  <2>4. /\ thread \in Seq(SoundItem(aliases))
        /\ \A p, q \in DOMAIN thread : thread[p].id = thread[q].id => p = q
        /\ Shows(UpdatedAt, thread)
    BY <2>3, ThreadFacts
  <2>5. aliases \subseteq Reasonings \X Users
    BY <2>3, AliasFacts
  <2>6. /\ model' \in SoundModel(aliases)
        /\ \A p \in DOMAIN thread :
             thread[p].kind # "reasoning" => ShownIn(model'.items, thread[p].id, thread[p].text)
    <3> HIDE DEF thread
    <3>1. <<>> \in Seq(SoundCard)
      OBVIOUS
    <3>2. model' \in {merge_persisted_transcript(load_thread(model, thread), <<>>),
                      refresh_thread(model, thread)}
      BY <2>2
    <3>3. QED BY <2>3, <2>4, <2>5, <3>1, <3>2, LoadSound
  <2> HIDE DEF thread
  <2>7. CardsShow(UpdatedAt, model'.items)
    BY <2>4, <2>6, CardsOfThread
  <2>8. refresher' \in [at : Ats, active : BOOLEAN] /\ refresher'.at # "off"
    BY <2>2
  <2>9. QED BY <2>2, <2>6, <2>7, <2>8
<1>8. QED BY <1>6, <1>7 DEF RefreshNext

LEMMA InitSound == Init => SessionInv
<1> SUFFICES ASSUME Init PROVE SessionInv
  OBVIOUS
<1>1. WellLog(log) /\ ToSet(log) = {}
  BY DEF Init, WellLog, ToSet
<1>2. ServerInv
  BY <1>1, SessionAssumption DEF Init, ServerInv
<1>3. model \in SoundModel(aliases)
  <2>1. NewModel.local \in Nat
    BY DEF NewModel
  <2>2. QED BY <2>1, ClearSound DEF Init
<1>4. refresher \in [at : {"off", "timer", "list", "read"}, active : BOOLEAN] /\ refresher.at = "off"
  BY DEF Init
<1>5. AppInv
  <2>1. /\ view = "closed" /\ calls = {} /\ disk = <<>> /\ wire = <<>>
        /\ readOnly = FALSE /\ readOnly \in BOOLEAN
    BY DEF Init
  <2>2. disk \in Seq(SoundCard) /\ wire \in Seq(SoundEvent(aliases))
    BY <2>1
  <2>3. QED BY <1>3, <1>4, <2>1, <2>2 DEF AppInv
<1>6. ReplyInv
  BY DEF Init, ReplyInv
<1>7. QED BY <1>2, <1>5, <1>6 DEF SessionInv

LEMMA StepSound == SessionInv /\ [Next]_vars => SessionInv'
<1> SUFFICES ASSUME SessionInv, [Next]_vars PROVE SessionInv'
  OBVIOUS
<1>1. CASE ServerNext
  BY <1>1, ServerSound
<1>2. CASE OpenThread \/ LeaveThread \/ Restart
  BY <1>2, OpenSound
<1>3. CASE LoadThread
  BY <1>3, LoadThreadSound
<1>4. CASE LoadFails
  BY <1>4, LoadFailsSound
<1>5. CASE ApplyBatch
  BY <1>5, BatchStepSound
<1>6. CASE \E text \in Texts : Send(text)
  BY <1>6, SendSound
<1>7. CASE \E c \in calls : SendAnswered(c)
  BY <1>7, AnswerSound
<1>8. CASE RefreshNext
  BY <1>8, RefreshSound
<1>9. CASE UNCHANGED vars
  <2>1. UNCHANGED <<serverVars, plans>> /\ UNCHANGED <<appVars, disk, subscribed>>
        /\ wire' = wire /\ calls' = calls
    BY <1>9 DEF vars, bounds
  <2>2. ServerInv' /\ aliases' = aliases
    BY <2>1, ServerKept
  <2>3. QED BY <2>1, <2>2, AppKept DEF SessionInv, AppInv, Calls
<1>10. QED BY <1>1, <1>2, <1>3, <1>4, <1>5, <1>6, <1>7, <1>8, <1>9 DEF Next, AppNext

-----------------------------------------------------------------------------
(* Everything the server completed is shown or on its way.                 *)

\* What spoils the text x of the item i is mended, and the text is on its way or it is in
\* the answer that is awaited and in the cards of an open thread that notifies the app; but
\* a notification that was applied ahead of the answer may be lost.
Reaches(i, t, x) ==
  /\ Mended(wire, i, x)
  /\ \/ overtaken
     \/ Due(wire, i, x)
     \/ /\ reply # NoReply => reply.readOnly \/ Carries(reply.thread, i, x)
        /\ view = "open" /\ ~readOnly => ShownAs(model.items, i, t, x)

\* An answer is awaited only while the thread is loaded, and it is read-only or the thread
\* notifies the app; so is the thread that is open.
ShowInv ==
  /\ \A i \in Items : words[i] # 0 => Started(i)
  /\ reply # NoReply => view = "loading" /\ (reply.readOnly \/ subscribed)
  /\ view = "open" => readOnly \/ subscribed
  /\ \A i \in Items : Completed(i) => Reaches(i, TurnOf(i), TextOf(i))

\* The turn and the text of a completed item.
LEMMA FullOf ==
  ASSUME ServerInv, NEW i \in Items, Completed(i)
  PROVE  InFull(aliases, i, TurnOf(i), TextOf(i))
<1>1. TextOf(i) \in Content /\ (i \notin Users => TextOf(i) = FullText(i))
  BY TextFacts DEF Completed
<1>2. TurnOf(i) \in Users
  BY TurnFacts DEF ServerInv, Completed, Started, TurnOf
<1>3. ASSUME i \in Reasonings
      PROVE  /\ TextOf(i) # <<>> /\ TextOf(i)[1] # <<>>
             /\ \A z \in aliases : z[1] = i => z[2] = TurnOf(i)
  <2>1. i \notin Users /\ 1 \in 1..Words
    BY <1>3, SessionAssumption
  <2>2. FullText(i) # <<>> /\ FullText(i)[1] = [n \in 1..Words |-> <<i, n>>]
    BY DEF FullText
  <2>3. [n \in 1..Words |-> <<i, n>>] # <<>>
    <3>1. 1 \in DOMAIN [n \in 1..Words |-> <<i, n>>] /\ 1 \notin DOMAIN <<>>
      BY <2>1
    <3>2. QED BY <3>1
  <2>4. \A z \in aliases : z[1] = i => z[2] = TurnOf(i)
    BY DEF aliases, AliasesOf, TurnOf
  <2>5. QED BY <1>1, <2>1, <2>2, <2>3, <2>4
<1>4. QED BY <1>1, <1>2, <1>3 DEF InFull

\* What a connection that the thread does not notify has reached, and what comes last.
LEMMA EmitReaches ==
  ASSUME SessionInv, ShowInv, NEW al, NEW events \in Seq(SoundEvent(al)), Emit(events),
         wire \in Seq(SoundEvent(al)), UNCHANGED <<appVars, subscribed>>,
         NEW i, NEW t, NEW x,
         \/ Reaches(i, t, x) /\ \A w \in DOMAIN events : ~Spoils(events[w], i, x)
         \/ /\ events # <<>>
            /\ Gives(events[Len(events)], i, x) /\ ~Spoils(events[Len(events)], i, x)
  PROVE  Reaches(i, t, x)'
<1>1. UNCHANGED <<model, view, readOnly, reply, overtaken>>
  BY DEF appVars
<1>2. CASE ~subscribed
  <2>1. wire' = <<>>
    BY <1>2 DEF SessionInv, AppInv, Emit
  <2>2. Mended(wire', i, x)
    BY <2>1 DEF Mended
  <2>3. (reply # NoReply => reply.readOnly) /\ (view = "open" => readOnly)
    BY <1>2 DEF ShowInv
  <2>4. QED BY <1>1, <2>2, <2>3 DEF Reaches
<1>3. CASE subscribed
  <2>1. wire' = wire \o events
    BY <1>3 DEF Emit
  <2>2. /\ Len(wire) \in Nat /\ Len(events) \in Nat /\ DOMAIN wire = 1..Len(wire)
        /\ DOMAIN events = 1..Len(events)
    OBVIOUS
  <2>3. /\ DOMAIN wire' = 1..(Len(wire) + Len(events))
        /\ \A w \in 1..Len(wire) : wire'[w] = wire[w]
        /\ \A w \in 1..Len(events) : wire'[Len(wire) + w] = events[w]
        /\ \A w \in 1..(Len(wire) + Len(events)) : w > Len(wire) =>
             w - Len(wire) \in 1..Len(events) /\ wire'[w] = events[w - Len(wire)]
    BY <2>1, <2>2
  <2>4. CASE Reaches(i, t, x) /\ \A w \in DOMAIN events : ~Spoils(events[w], i, x)
    <3>1. ASSUME NEW w \in DOMAIN wire', Spoils(wire'[w], i, x)
          PROVE  \E v \in DOMAIN wire' : v > w /\ Gives(wire'[v], i, x)
      <4>1. w \in 1..Len(wire)
        BY <2>2, <2>3, <2>4, <3>1
      <4>2. PICK v \in DOMAIN wire : v > w /\ Gives(wire[v], i, x)
        BY <2>2, <2>3, <2>4, <3>1, <4>1 DEF Reaches, Mended
      <4>3. v \in DOMAIN wire' /\ wire'[v] = wire[v]
        BY <2>2, <2>3, <4>2
      <4>4. QED BY <4>2, <4>3
    <3>2. Due(wire, i, x) => Due(wire', i, x)
      BY <2>2, <2>3 DEF Due
    <3>3. Mended(wire', i, x)
      BY <3>1 DEF Mended
    <3>4. QED BY <1>1, <2>4, <3>2, <3>3 DEF Reaches
  <2>5. CASE /\ events # <<>>
             /\ Gives(events[Len(events)], i, x) /\ ~Spoils(events[Len(events)], i, x)
    <3> DEFINE last == Len(wire) + Len(events)
    <3>1. Len(events) \in 1..Len(events) /\ last \in DOMAIN wire'
      BY <2>2, <2>3, <2>5
    <3>2. Gives(wire'[last], i, x) /\ ~Spoils(wire'[last], i, x)
      BY <2>3, <2>5, <3>1
    <3>3. \A w \in DOMAIN wire' : w # last => last > w
      BY <2>2, <2>3
    <3> HIDE DEF last
    <3>4. Mended(wire', i, x) /\ Due(wire', i, x)
      BY <3>1, <3>2, <3>3 DEF Mended, Due
    <3>5. QED BY <3>4 DEF Reaches
  <2>6. QED BY <2>4, <2>5
<1>4. QED BY <1>2, <1>3

\* A step of the server: an item that was completed keeps its turn and its text and is not
\* spoiled, one that is completed now comes last.
LEMMA ServerShows ==
  ASSUME SessionInv, ShowInv, aliases \subseteq aliases',
         NEW events \in Seq(SoundEvent(aliases')), Emit(events), UNCHANGED <<appVars, subscribed>>,
         \A i \in Items : words'[i] # 0 => Started(i)',
         \A i \in Items : Completed(i)' =>
           \/ /\ Completed(i) /\ TurnOf(i)' = TurnOf(i) /\ TextOf(i)' = TextOf(i)
              /\ \A w \in DOMAIN events : ~Spoils(events[w], i, TextOf(i)')
           \/ /\ events # <<>>
              /\ Gives(events[Len(events)], i, TextOf(i)')
              /\ ~Spoils(events[Len(events)], i, TextOf(i)')
  PROVE  ShowInv'
<1>1. wire \in Seq(SoundEvent(aliases'))
  <2>1. wire \in Seq(SoundEvent(aliases))
    BY DEF SessionInv, AppInv
  <2>2. QED BY <2>1, Monotone
<1>2. ASSUME NEW i \in Items, Completed(i)', NEW t, NEW x, t = TurnOf(i)', x = TextOf(i)'
      PROVE  Reaches(i, t, x)'
  <2>1. CASE /\ Completed(i) /\ t = TurnOf(i) /\ x = TextOf(i)
             /\ \A w \in DOMAIN events : ~Spoils(events[w], i, x)
    <3>1. Reaches(i, TurnOf(i), TextOf(i))
      BY <2>1 DEF ShowInv
    <3>2. Reaches(i, t, x)
      BY <2>1, <3>1
    <3>3. QED BY <1>1, <2>1, <3>2, EmitReaches
  <2>2. CASE /\ events # <<>>
             /\ Gives(events[Len(events)], i, x) /\ ~Spoils(events[Len(events)], i, x)
    BY <1>1, <2>2, EmitReaches
  <2>3. QED BY <1>2, <2>1, <2>2
<1>3. \A i \in Items : Completed(i)' => Reaches(i, TurnOf(i), TextOf(i))'
  BY <1>2 DEF Reaches
<1>4. UNCHANGED <<view, readOnly, reply, subscribed>>
  BY DEF appVars
<1>5. QED BY <1>3, <1>4 DEF ShowInv

LEMMA TextKept ==
  ASSUME NEW i, words'[i] = words[i], i \in Users => said'[i] = said[i]
  PROVE  TextOf(i)' = TextOf(i)
  BY DEF TextOf, Least

\* The log has one item more, and an item that was completed stays as it is.
LEMMA LogShows ==
  ASSUME SessionInv, ShowInv, NEW i \in Items, i \notin ToSet(log), log' = Append(log, i),
         log = <<>> => i \in Users
  PROVE  /\ aliases \subseteq aliases' /\ Started(i)'
         /\ \A j \in Items : Started(j) => Started(j)' /\ TurnOf(j)' = TurnOf(j)
         /\ \A j \in Items : Started(j)' => Started(j) \/ j = i
<1>1. WellLog(log)
  BY DEF SessionInv, ServerInv
<1>2. /\ ToSet(log) \subseteq ToSet(log') /\ i \in ToSet(log')
      /\ \A j \in ToSet(log) : TurnIn(log', j) = TurnIn(log, j)
      /\ AliasesOf(log) \subseteq AliasesOf(log')
  BY <1>1, LogGrows
<1>3. ASSUME NEW j \in ToSet(log') PROVE j \in ToSet(log) \/ j = i
  <2>1. log \in Seq(Items) /\ Len(log) \in Nat
    BY <1>1 DEF WellLog
  <2>2. PICK p \in DOMAIN log' : log'[p] = j
    BY DEF ToSet
  <2>3. p \in 1..(Len(log) + 1)
    BY <2>1
  <2>4. CASE p = Len(log) + 1
    BY <2>1, <2>2, <2>4
  <2>5. CASE p \in 1..Len(log)
    BY <2>1, <2>2, <2>5 DEF ToSet
  <2>6. QED BY <2>1, <2>3, <2>4, <2>5
<1>4. QED BY <1>2, <1>3 DEF aliases, Started, TurnOf

ItemComes(events, item) == \E c \in BOOLEAN : events = <<ItemEvent(item, c)>>

LEMMA EventOfItem ==
  ASSUME NEW al, NEW item \in SoundItem(al), NEW events, ItemComes(events, item)
  PROVE  /\ events \in Seq(SoundEvent(al)) /\ DOMAIN events = 1..1 /\ Len(events) = 1
         /\ events # <<>> /\ events[1].type = "item" /\ events[1].item = item
<1>1. PICK c \in BOOLEAN : events = <<ItemEvent(item, c)>>
  BY DEF ItemComes
<1>2. events \in Seq(SoundEvent(al))
  BY <1>1, OneEvent
<1>3. /\ DOMAIN events = 1..1 /\ Len(events) = 1 /\ events[1] = ItemEvent(item, c)
      /\ events # <<>>
  BY <1>1
<1>4. QED BY <1>2, <1>3 DEF ItemEvent

\* A message comes as a completed item.
LEMMA BeginShows ==
  ASSUME SessionInv, ShowInv, NEW u \in Users, NEW text \in Texts, BeginTurn(u, text),
         UNCHANGED <<appVars, subscribed>>
  PROVE  ShowInv'
<1> DEFINE item == ProtocolItem(u, "user", u, <<<<text>>>>)
           events == <<ItemEvent(item, TRUE)>>
<1>1. /\ log' = Append(log, u) /\ words' = [words EXCEPT ![u] = Words + 1]
      /\ said' = [said EXCEPT ![u] = text] /\ u \notin ToSet(log) /\ Emit(events)
  BY DEF BeginTurn, Started
<1>2. words \in [Items -> 0..(Words + 1)] /\ said \in [Users -> Texts] /\ u \in Items
  BY DEF SessionInv, ServerInv, Items
<1>3. /\ aliases \subseteq aliases' /\ Started(u)'
      /\ \A j \in Items : Started(j) => Started(j)' /\ TurnOf(j)' = TurnOf(j)
      /\ \A j \in Items : Started(j)' => Started(j) \/ j = u
  BY <1>1, <1>2, LogShows
<1>4. item \in SoundItem(aliases') /\ item.id = u /\ item.text = <<<<text>>>>
  <2>1. <<text>> \in Seq(Word)
    BY DEF Word
  <2>2. <<<<text>>>> \in Content
    BY <2>1 DEF Content
  <2>3. KindOf(u) = "user" /\ "user" \in ItemKinds
    BY DEF KindOf, ItemKinds
  <2>4. QED BY <1>2, <2>2, <2>3 DEF ProtocolItem, SoundItem
<1> HIDE DEF item
<1>5. /\ events \in Seq(SoundEvent(aliases')) /\ DOMAIN events = 1..1 /\ Len(events) = 1
      /\ events[1].type = "item" /\ events[1].item = item
  <2>1. ItemComes(events, item)
    BY Zenon DEF ItemComes
  <2> HIDE DEF events
  <2>2. QED BY <1>4, <2>1, EventOfItem
<1> HIDE DEF events
<1>6. \A j \in Items : j # u => words'[j] = words[j] /\ (j \in Users => said'[j] = said[j])
  BY <1>1, <1>2
<1>7. \A j \in Items : words'[j] # 0 => Started(j)'
  BY <1>3, <1>6 DEF ShowInv
<1>8. ASSUME NEW j \in Items, Completed(j)', j # u
      PROVE  /\ Completed(j) /\ TurnOf(j)' = TurnOf(j) /\ TextOf(j)' = TextOf(j)
             /\ \A w \in DOMAIN events : ~Spoils(events[w], j, TextOf(j)')
  <2>1. Started(j) /\ words'[j] = Words + 1
    BY <1>3, <1>8 DEF Completed
  <2>2. Completed(j) /\ TurnOf(j)' = TurnOf(j)
    BY <1>3, <1>6, <1>8, <2>1 DEF Completed
  <2>3. TextOf(j)' = TextOf(j)
    BY <1>6, <1>8, TextKept
  <2>4. QED BY <1>4, <1>5, <1>8, <2>2, <2>3 DEF Spoils
<1>9. /\ events # <<>> /\ Gives(events[Len(events)], u, TextOf(u)')
      /\ ~Spoils(events[Len(events)], u, TextOf(u)')
  <2>1. TextOf(u)' = <<<<text>>>>
    BY <1>1, <1>2 DEF TextOf
  <2>2. QED BY <1>4, <1>5, <2>1 DEF Gives, Spoils
<1>10. QED BY <1>1, <1>3, <1>5, <1>7, <1>8, <1>9, ServerShows

\* An item is started that no one has seen.
LEMMA StartsShows ==
  ASSUME SessionInv, ShowInv, NEW i \in Agents \cup Reasonings, ServerStarts(i)
  PROVE  ShowInv'
<1> DEFINE item == ProtocolItem(i, KindOf(i), turn, <<>>)
           events == <<ItemEvent(item, FALSE)>>
<1>1. /\ turn # NoTurn /\ i \notin ToSet(log) /\ log' = Append(log, i) /\ Emit(events)
      /\ UNCHANGED <<words, said>> /\ UNCHANGED <<appVars, subscribed>>
  BY DEF ServerStarts, Started
<1>2. /\ i \in Items /\ turn \in Users /\ log # <<>> /\ words \in [Items -> 0..(Words + 1)]
      /\ Words \in Nat
  BY <1>1, SessionAssumption DEF SessionInv, ServerInv, Items
<1>3. /\ aliases \subseteq aliases' /\ Started(i)'
      /\ \A j \in Items : Started(j) => Started(j)' /\ TurnOf(j)' = TurnOf(j)
  BY <1>1, <1>2, LogShows
<1>4. wire' \in Seq(SoundEvent(aliases')) /\ item \in SoundItem(aliases') /\ item.id = i
  <2>1. PICK u \in DOMAIN log : log[u] = turn /\ TurnFrom(log, Len(log), u)
    BY <1>1 DEF SessionInv, ServerInv
  <2>2. WellLog(log) /\ i \notin Users
    BY SessionAssumption DEF SessionInv, ServerInv
  <2>3. Continues(log, log', u, i)
    BY <1>1, <1>2, <2>1, <2>2, TurnContinues
  <2>4. i \in Reasonings => <<i, turn>> \in aliases'
    BY <1>3, <2>1, <2>3 DEF Continues, aliases, AliasesOf, Started
  <2>5. KindOf(i) \in ItemKinds /\ (KindOf(i) = "reasoning" => i \in Reasonings) /\ <<>> \in Content
    BY <1>2 DEF KindOf, ItemKinds, Items, Content
  <2>6. QED BY <1>2, <2>4, <2>5, StartsSound DEF ProtocolItem, SoundItem, SessionInv, AppInv
<1> HIDE DEF item
<1>5. /\ events \in Seq(SoundEvent(aliases')) /\ DOMAIN events = 1..1
      /\ events[1].type = "item" /\ events[1].item = item
  <2>1. ItemComes(events, item)
    BY Zenon DEF ItemComes
  <2> HIDE DEF events
  <2>2. QED BY <1>4, <2>1, EventOfItem
<1> HIDE DEF events
<1>6. \A j \in Items : words'[j] # 0 => Started(j) /\ Started(j)' /\ j # i
  BY <1>1, <1>3 DEF ShowInv, Started
<1>7. ASSUME NEW j \in Items, Completed(j)'
      PROVE  /\ Completed(j) /\ TurnOf(j)' = TurnOf(j) /\ TextOf(j)' = TextOf(j)
             /\ \A w \in DOMAIN events : ~Spoils(events[w], j, TextOf(j)')
  <2>1. words'[j] = Words + 1 /\ words'[j] # 0
    BY <1>2, <1>7 DEF Completed
  <2>2. Completed(j) /\ TurnOf(j)' = TurnOf(j) /\ j # i
    BY <1>1, <1>3, <1>6, <2>1 DEF Completed
  <2>3. TextOf(j)' = TextOf(j)
    BY <1>1, TextKept
  <2>4. QED BY <1>4, <1>5, <2>2, <2>3 DEF Spoils
<1>8. QED BY <1>1, <1>3, <1>5, <1>6, <1>7, ServerShows

\* A step that starts no item: what is completed stays, and so do its turn and its text.
LEMMA LogStays ==
  ASSUME UNCHANGED <<log, said>>
  PROVE  /\ aliases' = aliases
         /\ \A j : (Started(j)' <=> Started(j)) /\ TurnOf(j)' = TurnOf(j)
         /\ \A j : words'[j] = words[j] =>
              (Completed(j)' <=> Completed(j)) /\ TextOf(j)' = TextOf(j)
<1>1. aliases' = aliases /\ \A j : (Started(j)' <=> Started(j)) /\ TurnOf(j)' = TurnOf(j)
  BY DEF aliases, Started, TurnOf
<1>2. ASSUME NEW j, words'[j] = words[j]
      PROVE  (Completed(j)' <=> Completed(j)) /\ TextOf(j)' = TextOf(j)
  BY <1>1, <1>2, TextKept DEF Completed
<1>3. QED BY <1>1, <1>2

\* What is streamed is not completed.
LEMMA StreamsShows ==
  ASSUME SessionInv, ShowInv, NEW i \in Agents \cup Reasonings, NEW summary \in BOOLEAN,
         ServerStreams(i, summary)
  PROVE  ShowInv'
<1> DEFINE delta == DeltaEvent(i, KindOf(i), <<i, words[i] + 1>>)
           events == IF summary THEN <<PartEvent(i), delta>> ELSE <<delta>>
<1>1. /\ Started(i) /\ words[i] < Words /\ words' = [words EXCEPT ![i] = @ + 1] /\ Emit(events)
      /\ UNCHANGED <<log, said>> /\ UNCHANGED <<appVars, subscribed>>
  BY DEF ServerStreams
<1>2. words \in [Items -> 0..(Words + 1)] /\ Words \in Nat /\ i \in Items
  BY SessionAssumption DEF SessionInv, ServerInv, Items
<1>3. words[i] \in Nat /\ words'[i] # Words + 1 /\ \A j \in Items : j # i => words'[j] = words[j]
  BY <1>1, <1>2
<1>4. /\ events \in Seq(SoundEvent(aliases))
      /\ \A w \in DOMAIN events : events[w].type \in {"part", "delta"} /\ events[w].id = i
  <2>1. KindOf(i) \in ItemKinds /\ <<i, words[i] + 1>> \in Word
    BY <1>2, <1>3 DEF KindOf, ItemKinds, Word
  <2>2. events \in Seq(SoundEvent(aliases))
    BY <1>2, <2>1, OneEvent
  <2>3. delta.type = "delta" /\ delta.id = i /\ PartEvent(i).type = "part" /\ PartEvent(i).id = i
    BY DEF DeltaEvent, PartEvent
  <2> HIDE DEF delta
  <2>4. \A w \in DOMAIN events : events[w] \in {delta, PartEvent(i)}
    OBVIOUS
  <2>5. QED BY <2>2, <2>3, <2>4
<1> HIDE DEF events
<1>5. /\ aliases' = aliases /\ \A j : (Started(j)' <=> Started(j)) /\ TurnOf(j)' = TurnOf(j)
      /\ \A j : words'[j] = words[j] => (Completed(j)' <=> Completed(j)) /\ TextOf(j)' = TextOf(j)
  BY <1>1, LogStays
<1>6. \A j \in Items : words'[j] # 0 => Started(j)'
  BY <1>1, <1>3, <1>5 DEF ShowInv
<1>7. ASSUME NEW j \in Items, Completed(j)'
      PROVE  /\ Completed(j) /\ TurnOf(j)' = TurnOf(j) /\ TextOf(j)' = TextOf(j)
             /\ \A w \in DOMAIN events : ~Spoils(events[w], j, TextOf(j)')
  <2>1. j # i
    BY <1>3, <1>7 DEF Completed
  <2>2. QED BY <1>3, <1>4, <1>5, <1>7, <2>1 DEF Spoils
<1>8. aliases \subseteq aliases' /\ events \in Seq(SoundEvent(aliases'))
  BY <1>4, <1>5
<1>9. QED BY <1>1, <1>6, <1>7, <1>8, ServerShows

\* item/completed comes with the full text.
LEMMA CompletesShows ==
  ASSUME SessionInv, ShowInv, NEW i \in Agents \cup Reasonings, ServerCompletes(i)
  PROVE  ShowInv'
<1> DEFINE item == ProtocolItem(i, KindOf(i), TurnOf(i), FullText(i))
           events == <<ItemEvent(item, TRUE)>>
<1>1. /\ Started(i) /\ words' = [words EXCEPT ![i] = Words + 1] /\ Emit(events)
      /\ UNCHANGED <<log, said>> /\ UNCHANGED <<appVars, subscribed>>
  BY DEF ServerCompletes
<1>2. /\ words \in [Items -> 0..(Words + 1)] /\ Words \in Nat /\ i \in Items /\ i \notin Users
      /\ ServerInv
  BY SessionAssumption DEF SessionInv, ServerInv, Items
<1>3. words'[i] = Words + 1 /\ \A j \in Items : j # i => words'[j] = words[j]
  BY <1>1, <1>2
<1>4. item \in SoundItem(aliases) /\ item.id = i /\ item.text = FullText(i)
  <2>1. FullText(i) \in Content
    BY <1>2, TextFacts
  <2>2. QED BY <1>1, <1>2, <2>1, ItemFacts DEF ProtocolItem
<1> HIDE DEF item
<1>5. /\ events \in Seq(SoundEvent(aliases)) /\ DOMAIN events = 1..1 /\ Len(events) = 1
      /\ events # <<>> /\ events[1].type = "item" /\ events[1].item = item
  <2>1. ItemComes(events, item)
    BY Zenon DEF ItemComes
  <2> HIDE DEF events
  <2>2. QED BY <1>4, <2>1, EventOfItem
<1> HIDE DEF events
<1>6. /\ aliases' = aliases /\ \A j : (Started(j)' <=> Started(j)) /\ TurnOf(j)' = TurnOf(j)
      /\ \A j : words'[j] = words[j] => (Completed(j)' <=> Completed(j)) /\ TextOf(j)' = TextOf(j)
  BY <1>1, LogStays
<1>7. \A j \in Items : words'[j] # 0 => Started(j)'
  BY <1>1, <1>3, <1>6 DEF ShowInv
<1>8. ASSUME NEW j \in Items, Completed(j)', j # i
      PROVE  /\ Completed(j) /\ TurnOf(j)' = TurnOf(j) /\ TextOf(j)' = TextOf(j)
             /\ \A w \in DOMAIN events : ~Spoils(events[w], j, TextOf(j)')
  BY <1>3, <1>4, <1>5, <1>6, <1>8 DEF Spoils
<1>9. /\ events # <<>> /\ Gives(events[Len(events)], i, TextOf(i)')
      /\ ~Spoils(events[Len(events)], i, TextOf(i)')
  <2>1. TextOf(i)' = FullText(i)
    <3>1. words'[i] # 0 /\ Least(words'[i], Words) = Words
      BY <1>2, <1>3 DEF Least
    <3>2. TextOf(i)' = <<[n \in 1..Least(words'[i], Words) |-> <<i, n>>]>>
      BY <1>2, <3>1 DEF TextOf
    <3>3. QED BY <3>1, <3>2 DEF FullText
  <2>2. ASSUME NEW x, x = FullText(i)
        PROVE  events # <<>> /\ Gives(events[Len(events)], i, x) /\ ~Spoils(events[Len(events)], i, x)
    <3> DEFINE e == events[Len(events)]
    <3>1. e.type = "item" /\ e.item.id = i /\ e.item.text = x
      BY <1>4, <1>5, <2>2
    <3> HIDE DEF e
    <3>2. Gives(e, i, x) /\ ~Spoils(e, i, x)
      BY <3>1 DEF Gives, Spoils
    <3>3. QED BY <1>5, <3>2 DEF e
  <2>3. QED BY <2>1, <2>2
<1>10. aliases \subseteq aliases' /\ events \in Seq(SoundEvent(aliases'))
  BY <1>5, <1>6
<1>11. QED BY <1>1, <1>7, <1>8, <1>9, <1>10, ServerShows

\* The items that come with the end of a turn have the texts of the log.
LEMMA EndsShows ==
  ASSUME SessionInv, ShowInv, NEW full \in BOOLEAN, NEW failed \in BOOLEAN,
         ServerEndsTurn(full, failed)
  PROVE  ShowInv'
<1> DEFINE J == {p \in 1..Len(log) : log[p] = turn}
           from == IF J # {} THEN Min(J) ELSE 0
           thread == ThreadNow(FALSE)
           part == SubSeq(thread, from, Len(log))
           items == IF full THEN part ELSE <<>>
           events == <<TurnEvent(turn, items, failed)>>
<1>1. /\ turn # NoTurn /\ \A i \in ToSet(log) : Completed(i)
      /\ UNCHANGED <<log, words, said>> /\ UNCHANGED <<appVars, subscribed>>
  BY DEF ServerEndsTurn
<1>2. Emit(events)
  BY DEF ServerEndsTurn, SelectInSeq
<1>3. ServerInv /\ turn \in Users /\ log \in Seq(Items)
  BY <1>1 DEF SessionInv, ServerInv, WellLog
<1>4. PICK u \in DOMAIN log : log[u] = turn
  BY <1>1, <1>3 DEF ServerInv
<1>5. Len(log) \in Nat /\ DOMAIN log = 1..Len(log)
  BY <1>3
<1>6. from \in 1..Len(log)
  <2>1. J \subseteq 1..Len(log) /\ J \subseteq Nat /\ J # {}
    BY <1>4, <1>5
  <2> HIDE DEF J
  <2>2. QED BY <2>1, MinElement
<1>7. /\ thread \in Seq(SoundItem(aliases)) /\ Len(thread) = Len(log)
      /\ \A p \in DOMAIN thread : thread[p].text = TextOf(thread[p].id)
  <2>1. log # <<>> /\ Len(log) \in DOMAIN log
    BY <1>4, <1>5
  <2>2. Completed(Last(log))
    BY <1>1, <2>1 DEF Last, ToSet
  <2>3. FALSE \in BOOLEAN
    OBVIOUS
  <2>4. QED BY <1>3, <2>1, <2>2, <2>3, ThreadFacts
<1> HIDE DEF from, thread
<1>8. /\ items \in Seq(SoundItem(aliases))
      /\ \A q \in DOMAIN items : items[q].text = TextOf(items[q].id)
  <2>1. /\ part \in Seq(SoundItem(aliases))
        /\ \A q \in DOMAIN part : from + q - 1 \in DOMAIN thread /\ part[q] = thread[from + q - 1]
    BY <1>5, <1>6, <1>7
  <2>2. \A q \in DOMAIN part : part[q].text = TextOf(part[q].id)
    BY <1>7, <2>1
  <2> HIDE DEF part
  <2>3. QED BY <2>1, <2>2
<1> HIDE DEF items
<1>9. /\ events \in Seq(SoundEvent(aliases))
      /\ \A w \in DOMAIN events : events[w].type = "turn" /\ events[w].items = items
  <2>1. events \in Seq(SoundEvent(aliases))
    BY <1>3, <1>8, OneEvent
  <2>2. \A w \in DOMAIN events : events[w] = TurnEvent(turn, items, failed)
    OBVIOUS
  <2>3. QED BY <2>1, <2>2 DEF TurnEvent
<1> HIDE DEF events
<1>10. /\ aliases' = aliases /\ \A j : (Started(j)' <=> Started(j)) /\ TurnOf(j)' = TurnOf(j)
       /\ \A j : (Completed(j)' <=> Completed(j)) /\ TextOf(j)' = TextOf(j)
  BY <1>1, LogStays
<1>11. \A j \in Items : words'[j] # 0 => Started(j)'
  BY <1>1, <1>10 DEF ShowInv
<1>12. \A j : \A w \in DOMAIN events : ~Spoils(events[w], j, TextOf(j))
  BY <1>8, <1>9 DEF Spoils
<1>13. aliases \subseteq aliases' /\ events \in Seq(SoundEvent(aliases'))
  BY <1>9, <1>10
<1>14. QED BY <1>1, <1>2, <1>10, <1>11, <1>12, <1>13, ServerShows

\* A plan has a card of its own.
LEMMA PlansShow ==
  ASSUME SessionInv, ShowInv, ServerPlans
  PROVE  ShowInv'
<1> DEFINE text == <<<<<<NoKey, plans + 1>>>>>>
           events == <<PlanEvent(turn, text)>>
<1>1. /\ turn # NoTurn /\ Emit(events)
      /\ UNCHANGED <<log, words, said>> /\ UNCHANGED <<appVars, subscribed>>
  BY DEF ServerPlans, serverVars
<1>2. turn \in Users /\ plans \in Nat
  BY <1>1 DEF SessionInv, ServerInv
<1>3. text \in Content
  <2>1. <<NoKey, plans + 1>> \in Word
    BY <1>2 DEF Word
  <2>2. <<<<NoKey, plans + 1>>>> \in Seq(Word)
    BY <2>1
  <2>3. QED BY <2>2 DEF Content
<1> HIDE DEF text
<1>4. events \in Seq(SoundEvent(aliases)) /\ \A w \in DOMAIN events : events[w].type = "plan"
  <2>1. events \in Seq(SoundEvent(aliases))
    BY <1>2, <1>3, OneEvent
  <2>2. \A w \in DOMAIN events : events[w] = PlanEvent(turn, text)
    OBVIOUS
  <2>3. QED BY <2>1, <2>2 DEF PlanEvent
<1> HIDE DEF events
<1>5. /\ aliases' = aliases /\ \A j : (Started(j)' <=> Started(j)) /\ TurnOf(j)' = TurnOf(j)
      /\ \A j : (Completed(j)' <=> Completed(j)) /\ TextOf(j)' = TextOf(j)
  BY <1>1, LogStays
<1>6. \A j \in Items : words'[j] # 0 => Started(j)'
  BY <1>1, <1>5 DEF ShowInv
<1>7. \A j : \A w \in DOMAIN events : ~Spoils(events[w], j, TextOf(j))
  BY <1>4 DEF Spoils
<1>8. aliases \subseteq aliases' /\ events \in Seq(SoundEvent(aliases'))
  BY <1>4, <1>5
<1>9. QED BY <1>1, <1>5, <1>6, <1>7, <1>8, ServerShows

\* The answer to the load has everything that was completed when the server gave it.
LEMMA ResumesShows ==
  ASSUME SessionInv, ShowInv, NEW partial \in BOOLEAN, NEW owned \in BOOLEAN,
         ServerResumes(partial, owned)
  PROVE  ShowInv'
<1> DEFINE thread == ThreadNow(partial)
<1>1. /\ view = "loading" /\ subscribed' = owned
      /\ reply' = [none |-> FALSE, thread |-> thread, readOnly |-> ~owned,
                   updatedAt |-> IF owned THEN Unloaded ELSE UpdatedAt, active |-> turn # NoTurn]
      /\ UNCHANGED <<log, words, said>> /\ UNCHANGED <<model, view, readOnly, overtaken, wire>>
  BY DEF ServerResumes, serverVars
<1>2. \A i \in Items : Completed(i) => Carries(thread, i, TextOf(i))
  BY ThreadFacts DEF SessionInv
<1> HIDE DEF thread
<1>3. reply'.thread = thread /\ (reply'.readOnly \/ subscribed')
  BY <1>1
<1>4. /\ \A j : (Started(j)' <=> Started(j)) /\ TurnOf(j)' = TurnOf(j)
      /\ \A j : (Completed(j)' <=> Completed(j)) /\ TextOf(j)' = TextOf(j)
  BY <1>1, LogStays
<1>5. view' # "open"
  BY <1>1
<1>6. ASSUME NEW i \in Items, Completed(i), NEW t, NEW x, t = TurnOf(i), x = TextOf(i)
      PROVE  Reaches(i, t, x)'
  <2>1. Mended(wire, i, x)
    BY <1>6 DEF ShowInv, Reaches
  <2>2. Carries(reply'.thread, i, x)
    BY <1>2, <1>3, <1>6
  <2>3. QED BY <1>1, <1>5, <2>1, <2>2 DEF Reaches
<1>7. \A i \in Items : Completed(i)' => Reaches(i, TurnOf(i), TextOf(i))'
  BY <1>4, <1>6 DEF Reaches
<1>8. \A i \in Items : words'[i] # 0 => Started(i)'
  BY <1>1, <1>4 DEF ShowInv
<1>9. QED BY <1>1, <1>3, <1>5, <1>7, <1>8 DEF ShowInv

\* A step that leaves the server alone.
LEMMA QuietShows ==
  ASSUME SessionInv, ShowInv, UNCHANGED serverVars,
         reply' # NoReply => view' = "loading" /\ (reply'.readOnly \/ subscribed'),
         view' = "open" => readOnly' \/ subscribed',
         \A i \in Items : \A t, x :
           InFull(aliases, i, t, x) /\ Reaches(i, t, x) => Reaches(i, t, x)'
  PROVE  ShowInv'
<1>1. UNCHANGED <<log, words, said>>
  BY DEF serverVars
<1>2. /\ \A j : (Started(j)' <=> Started(j)) /\ TurnOf(j)' = TurnOf(j)
      /\ \A j : (Completed(j)' <=> Completed(j)) /\ TextOf(j)' = TextOf(j)
  BY <1>1, LogStays
<1>3. ASSUME NEW i \in Items, Completed(i), NEW t, NEW x, t = TurnOf(i), x = TextOf(i)
      PROVE  Reaches(i, t, x)'
  <2>1. InFull(aliases, i, TurnOf(i), TextOf(i)) /\ Reaches(i, TurnOf(i), TextOf(i))
    BY <1>3, FullOf DEF SessionInv, ShowInv
  <2>2. InFull(aliases, i, t, x) /\ Reaches(i, t, x)
    BY <1>3, <2>1
  <2>3. QED BY <2>2
<1>4. \A i \in Items : Completed(i)' => Reaches(i, TurnOf(i), TextOf(i))'
  BY <1>2, <1>3 DEF Reaches
<1>5. \A i \in Items : words'[i] # 0 => Started(i)'
  BY <1>1, <1>2 DEF ShowInv
<1>6. QED BY <1>4, <1>5 DEF ShowInv

LEMMA ServerStepShows ==
  ASSUME SessionInv, ShowInv, ServerNext
  PROVE  ShowInv'
<1>1. ASSUME NEW u \in Users, ForeignTurn(u) PROVE ShowInv'
  <2>1. said[u] \in Texts
    BY DEF SessionInv, ServerInv
  <2>2. QED BY <1>1, <2>1, BeginShows DEF ForeignTurn
<1>2. ASSUME NEW c \in calls, ServerRefuses(c) PROVE ShowInv'
  <2>1. UNCHANGED serverVars /\ UNCHANGED <<model, view, readOnly, reply, overtaken, wire, subscribed>>
    BY <1>2 DEF ServerRefuses, appVars
  <2>2. \A i, t, x : Reaches(i, t, x) => Reaches(i, t, x)'
    BY <2>1 DEF Reaches, NoReply
  <2>3. /\ reply' # NoReply => view' = "loading" /\ (reply'.readOnly \/ subscribed')
        /\ view' = "open" => readOnly' \/ subscribed'
    BY <2>1 DEF ShowInv
  <2>4. QED BY <2>1, <2>2, <2>3, QuietShows
<1>3. ASSUME NEW c \in calls, NEW u \in Users, ServerAccepts(c, u) PROVE ShowInv'
  <2>1. c.text \in Texts
    BY DEF SessionInv, AppInv
  <2>2. QED BY <1>3, <2>1, BeginShows DEF ServerAccepts
<1>4. CASE \E i \in Agents \cup Reasonings :
             \/ ServerStarts(i)
             \/ \E summary \in BOOLEAN : ServerStreams(i, summary)
             \/ ServerCompletes(i)
  BY <1>4, StartsShows, StreamsShows, CompletesShows
<1>5. CASE \E full, failed \in BOOLEAN : ServerEndsTurn(full, failed)
  BY <1>5, EndsShows
<1>6. CASE ServerPlans
  BY <1>6, PlansShow
<1>7. CASE \E partial, owned \in BOOLEAN : ServerResumes(partial, owned)
  BY <1>7, ResumesShows
<1>8. QED BY <1>1, <1>2, <1>3, <1>4, <1>5, <1>6, <1>7 DEF ServerNext

\* A thread that is not open shows nothing yet.
LEMMA OpenShows ==
  ASSUME SessionInv, ShowInv, OpenThread \/ LeaveThread \/ Restart \/ LoadFails
  PROVE  ShowInv'
<1>1. /\ UNCHANGED serverVars /\ view' \in {"closed", "loading", "unloaded"} /\ reply' = NoReply
      /\ wire' \in {wire, <<>>}
  BY DEF OpenThread, LeaveThread, Restart, LoadFails
<1>2. \A i, x : Mended(<<>>, i, x)
  BY DEF Mended
<1>3. \A i, t, x : Reaches(i, t, x) => Reaches(i, t, x)'
  BY <1>1, <1>2 DEF Reaches, NoReply
<1>4. reply' = NoReply /\ view' # "open"
  BY <1>1
<1>5. QED BY <1>1, <1>3, <1>4, QuietShows

\* The thread that is loaded has what was completed before the answer; the rest is in the channel.
LEMMA LoadThreadShows ==
  ASSUME SessionInv, ShowInv, LoadThread
  PROVE  ShowInv'
<1>1. /\ view = "loading" /\ reply # NoReply /\ view' = "open"
      /\ model' = merge_persisted_transcript(load_thread(model, reply.thread), disk)
      /\ readOnly' = reply.readOnly /\ reply' = NoReply
      /\ UNCHANGED serverVars /\ UNCHANGED <<overtaken, wire, subscribed>>
  BY DEF LoadThread
<1>2. /\ model \in SoundModel(aliases) /\ disk \in Seq(SoundCard)
      /\ reply.thread \in Seq(SoundItem(aliases))
      /\ \A p, q \in DOMAIN reply.thread : reply.thread[p].id = reply.thread[q].id => p = q
      /\ aliases \subseteq Reasonings \X Users
  BY <1>1, AliasFacts DEF SessionInv, AppInv, ReplyInv, SoundReply
<1>3. ASSUME NEW i \in Items, NEW t, NEW x, InFull(aliases, i, t, x), Reaches(i, t, x)
      PROVE  Reaches(i, t, x)'
  <2>1. Carries(reply.thread, i, x) => ShownAs(model'.items, i, t, x)
    BY <1>1, <1>2, <1>3, LoadShows
  <2>2. QED BY <1>1, <1>3, <2>1 DEF Reaches, NoReply
<1>4. reply' = NoReply /\ (readOnly' \/ subscribed')
  BY <1>1 DEF ShowInv
<1>5. QED BY <1>1, <1>3, <1>4, QuietShows

\* The whole channel is applied: to the cards of an open thread, or ahead of the answer.
LEMMA BatchStepShows ==
  ASSUME SessionInv, ShowInv, ApplyBatch
  PROVE  ShowInv'
<1>1. /\ wire' = <<>> /\ UNCHANGED serverVars /\ UNCHANGED <<readOnly, subscribed>>
      /\ reply' \in {NoReply, reply} /\ view' \in {view, "unloaded"}
      /\ view' = view \/ reply' = NoReply
      /\ view # "closed" =>
           model' = apply_batch(model, wire) /\ overtaken' = (overtaken \/ reply # NoReply)
      /\ view = "closed" => reply' = reply /\ view' = view
  BY DEF ApplyBatch
<1>2. /\ model \in SoundModel(aliases) /\ wire \in Seq(SoundEvent(aliases))
      /\ aliases \subseteq Reasonings \X Users
  BY AliasFacts DEF SessionInv, AppInv
<1>3. ASSUME NEW i \in Items, NEW t, NEW x, InFull(aliases, i, t, x), Reaches(i, t, x)
      PROVE  Reaches(i, t, x)'
  <2>1. Mended(wire', i, x)
    BY <1>1 DEF Mended
  <2>2. CASE view = "closed"
    <3>1. reply' = NoReply /\ view' # "open"
      BY <1>1, <2>2 DEF ShowInv
    <3>2. QED BY <2>1, <3>1 DEF Reaches, NoReply
  <2>3. CASE view # "closed" /\ (overtaken \/ reply # NoReply)
    BY <1>1, <2>1, <2>3 DEF Reaches
  <2>4. CASE view # "closed" /\ ~overtaken /\ reply = NoReply
    <3>1. view' = "open" /\ ~readOnly' => ShownAs(model.items, i, t, x) \/ Due(wire, i, x)
      BY <1>1, <1>3, <2>4 DEF Reaches
    <3>2. view' = "open" /\ ~readOnly' => ShownAs(model'.items, i, t, x)
      <4>1. Mended(wire, i, x)
        BY <1>3 DEF Reaches
      <4>2. QED BY <1>1, <1>2, <1>3, <2>4, <3>1, <4>1, BatchShows
    <3>3. reply' = NoReply
      BY <1>1, <2>4
    <3>4. QED BY <2>1, <3>2, <3>3 DEF Reaches, NoReply
  <2>5. QED BY <2>2, <2>3, <2>4
<1>4. /\ reply' # NoReply => view' = "loading" /\ (reply'.readOnly \/ subscribed')
      /\ view' = "open" => readOnly' \/ subscribed'
  BY <1>1 DEF ShowInv
<1>5. QED BY <1>1, <1>3, <1>4, QuietShows

\* A message is typed, or its call is answered.
LEMMA SendShows ==
  ASSUME SessionInv, ShowInv,
         (\E text \in Texts : Send(text)) \/ (\E c \in calls : SendAnswered(c))
  PROVE  ShowInv'
<1>1. UNCHANGED serverVars /\ UNCHANGED <<view, readOnly, reply, overtaken, wire, subscribed>>
  BY DEF Send, SendAnswered
<1>2. \A i, t, x : ShownAs(model.items, i, t, x) => ShownAs(model'.items, i, t, x)
  <2>1. model \in SoundModel(aliases)
    BY DEF SessionInv, AppInv
  <2>2. ASSUME NEW text \in Texts, Send(text)
        PROVE  \A i, t, x : ShownAs(model.items, i, t, x) => ShownAs(model'.items, i, t, x)
    <3>1. <<text>> \in Seq(Word)
      BY DEF Word
    <3>2. <<<<text>>>> \in Content
      BY <3>1 DEF Content
    <3>3. model' = push_local_user(model, <<<<text>>>>)
      BY <2>2 DEF Send
    <3>4. QED BY <2>1, <3>2, <3>3, LocalSound
  <2>3. ASSUME NEW c \in calls, SendAnswered(c)
        PROVE  \A i, t, x : ShownAs(model.items, i, t, x) => ShownAs(model'.items, i, t, x)
    <3>1. model' = set_status_for_key(model, c.key, c.phase) /\ c.phase # "asked"
      BY <2>3 DEF SendAnswered
    <3>2. c.phase \in Statuses
      BY <3>1 DEF SessionInv, AppInv, Statuses
    <3>3. QED BY <2>1, <3>1, <3>2, StatusSound
  <2>4. QED BY <2>2, <2>3
<1>3. \A i, t, x : Reaches(i, t, x) => Reaches(i, t, x)'
  BY <1>1, <1>2 DEF Reaches, NoReply
<1>4. /\ reply' # NoReply => view' = "loading" /\ (reply'.readOnly \/ subscribed')
      /\ view' = "open" => readOnly' \/ subscribed'
  BY <1>1 DEF ShowInv
<1>5. QED BY <1>1, <1>3, <1>4, QuietShows

\* The refresher touches the cards of a read-only thread.
LEMMA RefreshShows ==
  ASSUME SessionInv, ShowInv, RefreshNext
  PROVE  ShowInv'
<1>1. /\ UNCHANGED serverVars /\ UNCHANGED <<view, readOnly, reply, overtaken, wire, subscribed>>
      /\ refresher.at # "off"
  BY DEF RefreshNext, RefreshTimer, RefreshLists, RefreshReads, RefreshFails, RefreshRest
<1>2. readOnly'
  BY <1>1 DEF SessionInv, AppInv
<1>3. \A i, t, x : Reaches(i, t, x) => Reaches(i, t, x)'
  BY <1>1, <1>2 DEF Reaches, NoReply
<1>4. /\ reply' # NoReply => view' = "loading" /\ (reply'.readOnly \/ subscribed')
      /\ view' = "open" => readOnly' \/ subscribed'
  BY <1>1 DEF ShowInv
<1>5. QED BY <1>1, <1>3, <1>4, QuietShows

LEMMA ShowStep == SessionInv /\ ShowInv /\ [Next]_vars => ShowInv'
<1> SUFFICES ASSUME SessionInv, ShowInv, [Next]_vars PROVE ShowInv'
  OBVIOUS
<1>1. CASE ServerNext
  BY <1>1, ServerStepShows
<1>2. CASE OpenThread \/ LeaveThread \/ Restart \/ LoadFails
  BY <1>2, OpenShows
<1>3. CASE LoadThread
  BY <1>3, LoadThreadShows
<1>4. CASE ApplyBatch
  BY <1>4, BatchStepShows
<1>5. CASE (\E text \in Texts : Send(text)) \/ (\E c \in calls : SendAnswered(c))
  BY <1>5, SendShows
<1>6. CASE RefreshNext
  BY <1>6, RefreshShows
<1>7. CASE UNCHANGED vars
  <2>1. UNCHANGED serverVars /\ UNCHANGED <<model, view, readOnly, reply, overtaken, wire, subscribed>>
    BY <1>7 DEF vars, appVars
  <2>2. \A i, t, x : Reaches(i, t, x) => Reaches(i, t, x)'
    BY <2>1 DEF Reaches, NoReply
  <2>3. /\ reply' # NoReply => view' = "loading" /\ (reply'.readOnly \/ subscribed')
        /\ view' = "open" => readOnly' \/ subscribed'
    BY <2>1 DEF ShowInv
  <2>4. QED BY <2>1, <2>2, <2>3, QuietShows
<1>8. QED BY <1>1, <1>2, <1>3, <1>4, <1>5, <1>6, <1>7 DEF Next, AppNext

-----------------------------------------------------------------------------
(* A merge leaves no card twice and puts every plan back in its place.     *)

\* Two cards with one key have one of X.
Apart(s, X) == \A p, q \in DOMAIN s : p < q /\ s[p].key = s[q].key => s[p].key \in X

LEMMA JoinIs ==
  ASSUME NEW u \in Seq(SoundCard), NEW v \in Seq(SoundCard)
  PROVE  /\ u \o v \in Seq(SoundCard) /\ DOMAIN (u \o v) = 1..(Len(u) + Len(v))
         /\ Len(u \o v) = Len(u) + Len(v)
         /\ \A i \in DOMAIN (u \o v) :
              \/ i \in DOMAIN u /\ (u \o v)[i] = u[i]
              \/ i - Len(u) \in DOMAIN v /\ (u \o v)[i] = v[i - Len(u)]
<1>1. /\ Len(u) \in Nat /\ Len(v) \in Nat /\ DOMAIN u = 1..Len(u) /\ DOMAIN v = 1..Len(v)
      /\ u \o v \in Seq(SoundCard) /\ DOMAIN (u \o v) = 1..(Len(u) + Len(v))
      /\ Len(u \o v) = Len(u) + Len(v)
  OBVIOUS
<1>2. ASSUME NEW i \in 1..(Len(u) + Len(v)), i <= Len(u)
      PROVE  i \in DOMAIN u /\ (u \o v)[i] = u[i]
  BY <1>2
<1>3. ASSUME NEW i \in 1..(Len(u) + Len(v)), i > Len(u)
      PROVE  i - Len(u) \in DOMAIN v /\ (u \o v)[i] = v[i - Len(u)]
  BY <1>3
<1>4. QED BY <1>1, <1>2, <1>3

LEMMA JoinApart ==
  ASSUME NEW X, NEW u \in Seq(SoundCard), NEW v \in Seq(SoundCard), Apart(u, X), Apart(v, X),
         \A p \in DOMAIN u, q \in DOMAIN v : u[p].key = v[q].key => u[p].key \in X
  PROVE  Apart(u \o v, X)
<1> DEFINE t == u \o v
<1>1. /\ Len(u) \in Nat /\ Len(v) \in Nat /\ DOMAIN u = 1..Len(u) /\ DOMAIN v = 1..Len(v)
      /\ DOMAIN t = 1..(Len(u) + Len(v))
  OBVIOUS
<1>2. \A p \in 1..Len(u) : t[p] = u[p]
  OBVIOUS
<1>3. \A p \in 1..(Len(u) + Len(v)) : p > Len(u) => p - Len(u) \in 1..Len(v) /\ t[p] = v[p - Len(u)]
  OBVIOUS
<1> HIDE DEF t
<1>4. ASSUME NEW p \in DOMAIN t, NEW q \in DOMAIN t, p < q, t[p].key = t[q].key
      PROVE  t[p].key \in X
  <2>1. CASE q <= Len(u)
    <3>1. p \in 1..Len(u) /\ q \in 1..Len(u)
      BY <1>1, <1>4, <2>1
    <3>2. QED BY <1>1, <1>2, <1>4, <3>1 DEF Apart
  <2>2. CASE p > Len(u)
    <3>1. p - Len(u) \in 1..Len(v) /\ q - Len(u) \in 1..Len(v) /\ p - Len(u) < q - Len(u)
      BY <1>1, <1>3, <1>4, <2>2
    <3>2. t[p] = v[p - Len(u)] /\ t[q] = v[q - Len(u)]
      BY <1>1, <1>3, <1>4, <2>2
    <3>3. QED BY <1>1, <1>4, <3>1, <3>2 DEF Apart
  <2>3. CASE p <= Len(u) /\ q > Len(u)
    <3>1. p \in 1..Len(u) /\ q - Len(u) \in 1..Len(v) /\ t[p] = u[p] /\ t[q] = v[q - Len(u)]
      BY <1>1, <1>2, <1>3, <1>4, <2>3
    <3>2. QED BY <1>1, <1>4, <3>1
  <2>4. QED BY <1>1, <2>1, <2>2, <2>3
<1>5. QED BY <1>4 DEF Apart, t

\* The match of a saved card is behind the last one, and it is the fresh card with the key of
\* the saved one if that is still to come.
LEMMA MatchIs ==
  ASSUME NEW fresh \in Seq(SoundCard), NEW from \in Nat \ {0}, NEW card
  PROVE  LET p == SnapshotMatch(fresh, from, card)
         IN  /\ p = 0 \/ p \in from..Len(fresh)
             /\ p # 0 => StandsFor(card, fresh[p])
             /\ \A f \in from..Len(fresh) :
                  fresh[f].key = card.key => p # 0 /\ fresh[p].key = card.key
<1> DEFINE I == {i \in from..Len(fresh) : fresh[i].key = card.key}
           J == {i \in from..Len(fresh) : items_are_semantically_equal(card, fresh[i])}
           a == IF I # {} THEN Min(I) ELSE 0
           b == IF J # {} THEN Min(J) ELSE 0
           p == SnapshotMatch(fresh, from, card)
<1>1. I \subseteq Nat /\ J \subseteq Nat /\ I \subseteq from..Len(fresh) /\ J \subseteq from..Len(fresh)
  OBVIOUS
<1>2. p = IF a # 0 THEN a ELSE b
  BY DEF SnapshotMatch, SelectInSubSeq
<1>3. /\ \A i \in I : i \in from..Len(fresh) /\ fresh[i].key = card.key
      /\ \A i \in J : i \in from..Len(fresh) /\ items_are_semantically_equal(card, fresh[i])
      /\ \A f \in from..Len(fresh) : fresh[f].key = card.key => f \in I
  OBVIOUS
<1> HIDE DEF I, J, p
<1>4. /\ (a = 0 /\ I = {}) \/ (a \in I /\ a # 0)
      /\ b = 0 \/ b \in J
  <2>1. I # {} => Min(I) \in I
    BY <1>1, MinElement
  <2>2. J # {} => Min(J) \in J
    BY <1>1, MinElement
  <2>3. 0 \notin I
    BY <1>3
  <2>4. QED BY <2>1, <2>2, <2>3
<1>5. p = 0 \/ p \in from..Len(fresh)
  BY <1>2, <1>3, <1>4
<1>6. p # 0 => p \in I \/ p \in J
  BY <1>2, <1>4
<1>7. p # 0 => StandsFor(card, fresh[p])
  BY <1>3, <1>6 DEF StandsFor
<1>8. ASSUME NEW f \in from..Len(fresh), fresh[f].key = card.key
      PROVE  p # 0 /\ fresh[p].key = card.key
  <2>1. I # {}
    BY <1>3, <1>8
  <2>2. p = a /\ a \in I /\ a # 0
    BY <1>2, <1>4, <2>1
  <2>3. QED BY <1>3, <2>2
<1>9. QED BY <1>5, <1>7, <1>8 DEF p

\* A merge under way, and all the cards that it has met.
Merging(fresh) ==
  [next : 1..(Len(fresh) + 1), waiting : Seq(SoundCard), merged : Seq(SoundCard)]

Met(acc) == acc.merged \o acc.waiting

\* A saved card waits, or it is matched and what waits comes before its match.
Waits(acc, card, new) ==
  /\ new.next = acc.next /\ new.merged = acc.merged
  /\ Met(new) = Append(Met(acc), card)

Matches(fresh, acc, p, new) ==
  /\ p \in acc.next..Len(fresh)
  /\ new.next = p + 1
  /\ new.merged = Met(acc) \o SubSeq(fresh, acc.next, p)
  /\ Met(new) = new.merged

LEMMA AppendMet ==
  ASSUME NEW u \in Seq(SoundCard), NEW v \in Seq(SoundCard), NEW c \in SoundCard
  PROVE  u \o Append(v, c) = Append(u \o v, c) /\ u \o <<>> = u
<1> DEFINE s == u \o Append(v, c)
           t == Append(u \o v, c)
<1>1. s \in Seq(SoundCard) /\ t \in Seq(SoundCard) /\ Len(s) = Len(t) /\ DOMAIN s = DOMAIN t
  OBVIOUS
<1>2. \A p \in DOMAIN s : s[p] = t[p]
  OBVIOUS
<1>3. s = t
  <2> HIDE DEF s, t
  <2>1. s = [p \in DOMAIN s |-> s[p]] /\ t = [p \in DOMAIN t |-> t[p]]
    BY <1>1
  <2>2. QED BY <1>1, <1>2, <2>1
<1>4. u \o <<>> = u
  OBVIOUS
<1>5. QED BY <1>3, <1>4

LEMMA MergeStep ==
  ASSUME NEW fresh \in Seq(SoundCard), NEW acc \in Merging(fresh), NEW card \in SoundCard
  PROVE  LET p   == SnapshotMatch(fresh, acc.next, card)
             new == MergeSaved(fresh, acc, card)
         IN  /\ new \in Merging(fresh)
             /\ (p = 0 /\ Waits(acc, card, new)) \/ Matches(fresh, acc, p, new)
<1> DEFINE p   == SnapshotMatch(fresh, acc.next, card)
           new == MergeSaved(fresh, acc, card)
           t   == acc.merged \o acc.waiting \o SubSeq(fresh, acc.next, p)
<1>1. /\ acc.next \in 1..(Len(fresh) + 1) /\ acc.waiting \in Seq(SoundCard)
      /\ acc.merged \in Seq(SoundCard) /\ Len(fresh) \in Nat /\ acc.next \in Nat \ {0}
  BY DEF Merging
<1>2. p = 0 \/ p \in acc.next..Len(fresh)
  BY <1>1, MatchIs
<1> HIDE DEF p
<1>3. CASE p = 0
  <2>1. new = [next |-> acc.next, waiting |-> Append(acc.waiting, card), merged |-> acc.merged]
    BY <1>3 DEF MergeSaved, p
  <2> HIDE DEF new
  <2>2. Append(acc.waiting, card) \in Seq(SoundCard)
    BY <1>1
  <2>3. new \in Merging(fresh)
    BY <1>1, <2>1, <2>2 DEF Merging
  <2>4. Waits(acc, card, new)
    BY <1>1, <2>1, AppendMet DEF Waits, Met
  <2>5. QED BY <1>3, <2>3, <2>4 DEF new, p
<1>4. CASE p \in acc.next..Len(fresh)
  <2>1. p # 0 /\ p + 1 \in 1..(Len(fresh) + 1) /\ p \in Int
    BY <1>1, <1>4
  <2>2. new = [next |-> p + 1, waiting |-> <<>>, merged |-> t]
    BY <2>1 DEF MergeSaved, p
  <2> HIDE DEF new
  <2>3. SubSeq(fresh, acc.next, p) \in Seq(SoundCard)
    <3>1. \A i \in acc.next..p : fresh[i] \in SoundCard
      BY <1>1, <1>4
    <3>2. QED BY <1>1, <2>1, <3>1
  <2>4. t \in Seq(SoundCard) /\ <<>> \in Seq(SoundCard)
    BY <1>1, <2>3
  <2>5. new \in Merging(fresh)
    <3> HIDE DEF t
    <3> QED BY <2>1, <2>2, <2>4 DEF Merging
  <2>6. t \o <<>> = t
    <3> HIDE DEF t
    <3> QED BY <2>4
  <2>7. Matches(fresh, acc, p, new)
    BY <1>4, <2>2, <2>6 DEF Matches, Met
  <2>8. QED BY <2>5, <2>7 DEF new, p
<1>5. QED BY <1>2, <1>3, <1>4

LEMMA PartOf ==
  ASSUME NEW s \in Seq(SoundCard), NEW a \in 1..(Len(s) + 1), NEW b \in (a - 1)..Len(s)
  PROVE  LET v == SubSeq(s, a, b)
         IN  /\ v \in Seq(SoundCard) /\ Len(v) = b + 1 - a /\ DOMAIN v = 1..(b + 1 - a)
             /\ \A i \in DOMAIN v : a - 1 + i \in a..b /\ v[i] = s[a - 1 + i]
<1>1. Len(s) \in Nat /\ a \in Int /\ b \in Int /\ \A i \in a..b : s[i] \in SoundCard
  OBVIOUS
<1>2. QED BY <1>1

\* A merge after the first k saved cards.  What it has met is saved, or fresh and up to the last
\* match, but nothing that has the key of a fresh card to come; the last match stands for a saved
\* card; and two cards with one key have one of X.  When no fresh card is left to be matched,
\* what waits is never merged.
MergeOk(fresh, saved, X, acc, k) ==
  /\ acc \in Merging(fresh)
  /\ \A p \in DOMAIN Met(acc) :
       \/ \E o \in 1..k : Met(acc)[p] = saved[o]
       \/ \E f \in 1..(acc.next - 1) : Met(acc)[p] = fresh[f]
  /\ acc.next # 1 => \E o \in 1..k : StandsFor(saved[o], fresh[acc.next - 1])
  /\ \A p \in DOMAIN Met(acc), f \in acc.next..Len(fresh) : Met(acc)[p].key # fresh[f].key
  /\ Apart(acc.merged, X)
  /\ acc.next <= Len(fresh) => Apart(Met(acc), X)

\* What makes a merge leave two cards with one key only if the key is of X.
Excused(fresh, saved, X) ==
  /\ Apart(saved, X)
  /\ \A q \in DOMAIN saved, f \in DOMAIN fresh : fresh[f].key = saved[q].key =>
       \/ saved[q].key \in X
       \/ f = Len(fresh)
       \/ \A o \in DOMAIN saved, g \in DOMAIN fresh :
            o < q /\ StandsFor(saved[o], fresh[g]) => g < f

LEMMA MergeOkStep ==
  ASSUME NEW fresh \in Seq(SoundCard), NEW saved \in Seq(SoundCard), NEW X, Apart(fresh, {}),
         Excused(fresh, saved, X), NEW k \in 0..(Len(saved) - 1), NEW acc,
         MergeOk(fresh, saved, X, acc, k)
  PROVE  MergeOk(fresh, saved, X, MergeSaved(fresh, acc, saved[k + 1]), k + 1)
<1> DEFINE card == saved[k + 1]
           new  == MergeSaved(fresh, acc, card)
           a    == acc.next
           p    == SnapshotMatch(fresh, a, card)
           met  == Met(acc)
<1>1. /\ acc \in Merging(fresh) /\ a \in 1..(Len(fresh) + 1) /\ a \in Nat \ {0}
      /\ met \in Seq(SoundCard) /\ card \in SoundCard /\ Len(fresh) \in Nat /\ k \in Nat
      /\ k + 1 \in DOMAIN saved /\ DOMAIN saved = 1..Len(saved) /\ DOMAIN fresh = 1..Len(fresh)
      /\ DOMAIN met = 1..Len(met) /\ Len(met) \in Nat
  <2>1. acc \in Merging(fresh)
    BY DEF MergeOk
  <2>2. acc.merged \in Seq(SoundCard) /\ acc.waiting \in Seq(SoundCard)
    BY <2>1 DEF Merging
  <2>3. met \in Seq(SoundCard)
    BY <2>2 DEF Met
  <2> HIDE DEF met
  <2>4. QED BY <2>1, <2>3 DEF Merging
<1>2. /\ new \in Merging(fresh)
      /\ (p = 0 /\ Waits(acc, card, new)) \/ Matches(fresh, acc, p, new)
  BY <1>1, MergeStep
<1>3. /\ p # 0 => StandsFor(card, fresh[p])
      /\ \A f \in a..Len(fresh) : fresh[f].key = card.key => p # 0
  BY <1>1, MatchIs
<1>4. /\ \A i \in DOMAIN met :
           \/ \E o \in 1..k : met[i] = saved[o]
           \/ \E f \in 1..(a - 1) : met[i] = fresh[f]
      /\ a # 1 => \E o \in 1..k : StandsFor(saved[o], fresh[a - 1])
      /\ \A i \in DOMAIN met, f \in a..Len(fresh) : met[i].key # fresh[f].key
      /\ Apart(acc.merged, X)
      /\ a <= Len(fresh) => Apart(met, X)
  BY DEF MergeOk
<1> HIDE DEF p, new, met, card, a
<1>5. CASE p = 0 /\ Waits(acc, card, new)
  <2> DEFINE n == Len(met) + 1
  <2>1. /\ new.next = a /\ new.merged = acc.merged /\ Met(new) = Append(met, card)
    BY <1>5 DEF Waits, met, a
  <2>2. /\ DOMAIN Met(new) = 1..n /\ Met(new)[n] = card
        /\ \A i \in 1..n : i = n \/ (i \in DOMAIN met /\ Met(new)[i] = met[i])
    BY <1>1, <2>1
  <2>3. ASSUME NEW i \in DOMAIN Met(new)
        PROVE  \/ \E o \in 1..(k + 1) : Met(new)[i] = saved[o]
               \/ \E f \in 1..(new.next - 1) : Met(new)[i] = fresh[f]
    <3>1. CASE i = n
      BY <1>1, <2>2, <3>1 DEF card
    <3>2. CASE i \in DOMAIN met /\ Met(new)[i] = met[i]
      <4>1. 1..k \subseteq 1..(k + 1)
        BY <1>1
      <4>2. QED BY <1>4, <2>1, <3>2, <4>1
    <3>3. QED BY <2>2, <2>3, <3>1, <3>2
  <2>4. new.next # 1 => \E o \in 1..(k + 1) : StandsFor(saved[o], fresh[new.next - 1])
    <3>1. 1..k \subseteq 1..(k + 1)
      BY <1>1
    <3>2. QED BY <1>4, <2>1, <3>1
  <2>5. ASSUME NEW i \in DOMAIN Met(new), NEW f \in new.next..Len(fresh)
        PROVE  Met(new)[i].key # fresh[f].key
    BY <1>3, <1>4, <1>5, <2>1, <2>2, <2>5
  <2>6. ASSUME new.next <= Len(fresh), NEW i \in DOMAIN met, met[i].key = card.key
        PROVE  card.key \in X
    <3>1. CASE \E o \in 1..k : met[i] = saved[o]
      <4>1. PICK o \in 1..k : met[i] = saved[o]
        BY <3>1
      <4>2. o \in DOMAIN saved /\ o < k + 1 /\ saved[o].key = saved[k + 1].key
        BY <1>1, <2>6, <4>1 DEF card
      <4>3. saved[o].key \in X
        BY <1>1, <4>2 DEF Excused, Apart
      <4>4. QED BY <4>2, <4>3 DEF card
    <3>2. CASE \E f \in 1..(a - 1) : met[i] = fresh[f]
      <4>1. PICK f \in 1..(a - 1) : met[i] = fresh[f]
        BY <3>2
      <4>2. /\ f \in DOMAIN fresh /\ fresh[f].key = saved[k + 1].key /\ f # Len(fresh)
            /\ a # 1 /\ a - 1 \in DOMAIN fresh /\ f <= a - 1
        <5>1. fresh[f].key = saved[k + 1].key
          BY <2>6, <4>1 DEF card
        <5>2. a <= Len(fresh) /\ f \in 1..(a - 1)
          BY <2>1, <2>6, <4>1
        <5>3. QED BY <1>1, <5>1, <5>2
      <4>3. PICK o \in 1..k : StandsFor(saved[o], fresh[a - 1])
        BY <1>4, <4>2
      <4>4. o \in DOMAIN saved /\ o < k + 1
        BY <1>1
      <4>5. \/ saved[k + 1].key \in X
            \/ \A r \in DOMAIN saved, g \in DOMAIN fresh :
                 r < k + 1 /\ StandsFor(saved[r], fresh[g]) => g < f
        BY <1>1, <4>2 DEF Excused
      <4>6. saved[k + 1].key \in X
        <5>1. ~ (a - 1 < f)
          BY <1>1, <4>1, <4>2
        <5>2. QED BY <4>2, <4>3, <4>4, <4>5, <5>1
      <4>7. QED BY <4>6 DEF card
    <3>3. QED BY <1>4, <2>6, <3>1, <3>2
  <2>7. ASSUME new.next <= Len(fresh) PROVE Apart(Met(new), X)
    <3>1. ASSUME NEW i \in DOMAIN Met(new), NEW j \in DOMAIN Met(new), i < j,
                 Met(new)[i].key = Met(new)[j].key
          PROVE  Met(new)[i].key \in X
      <4>1. i \in DOMAIN met /\ Met(new)[i] = met[i]
        BY <1>1, <2>2, <3>1
      <4>2. CASE j = n
        BY <2>2, <2>6, <2>7, <3>1, <4>1, <4>2
      <4>3. CASE j \in DOMAIN met /\ Met(new)[j] = met[j]
        BY <1>4, <2>1, <2>7, <3>1, <4>1, <4>3 DEF Apart
      <4>4. QED BY <2>2, <3>1, <4>2, <4>3
    <3>2. QED BY <3>1 DEF Apart
  <2>8. Apart(new.merged, X)
    BY <1>4, <2>1
  <2>9. MergeOk(fresh, saved, X, new, k + 1)
    BY <1>2, <2>3, <2>4, <2>5, <2>7, <2>8 DEF MergeOk
  <2>10. QED BY <2>9 DEF new, card
<1>6. CASE Matches(fresh, acc, p, new)
  <2> DEFINE v == SubSeq(fresh, a, p)
  <2>1. /\ p \in a..Len(fresh) /\ new.next = p + 1 /\ new.merged = met \o v
        /\ Met(new) = new.merged
    BY <1>6 DEF Matches, met, a
  <2>2. /\ v \in Seq(SoundCard) /\ DOMAIN v = 1..(p + 1 - a) /\ Len(v) = p + 1 - a
        /\ \A i \in DOMAIN v : a - 1 + i \in a..p /\ v[i] = fresh[a - 1 + i]
    <3>1. p \in (a - 1)..Len(fresh)
      BY <1>1, <2>1
    <3>2. a \in 1..(Len(fresh) + 1)
      BY <1>1
    <3>3. QED BY <3>1, <3>2, PartOf
  <2> HIDE DEF v
  <2>3. Apart(v, X)
    <3>1. ASSUME NEW i \in DOMAIN v, NEW j \in DOMAIN v, i < j, v[i].key = v[j].key
          PROVE  FALSE
      <4>1. /\ a - 1 + i \in DOMAIN fresh /\ a - 1 + j \in DOMAIN fresh
            /\ a - 1 + i < a - 1 + j
        <5>1. i \in Int /\ j \in Int /\ a \in Int
          BY <1>1, <2>1, <2>2, <3>1
        <5>2. a - 1 + i \in a..p /\ a - 1 + j \in a..p
          BY <2>2, <3>1
        <5>3. QED BY <1>1, <2>1, <3>1, <5>1, <5>2
      <4>2. QED BY <2>2, <3>1, <4>1 DEF Apart
    <3>2. QED BY <3>1 DEF Apart
  <2>4. Apart(met, X)
    BY <1>1, <1>4, <2>1
  <2>5. Apart(new.merged, X)
    <3>0. a..p \subseteq a..Len(fresh)
      BY <1>1, <2>1
    <3>1. \A i \in DOMAIN v : v[i] = fresh[a - 1 + i] /\ a - 1 + i \in a..Len(fresh)
      BY <2>2, <3>0
    <3>2. \A i \in DOMAIN met, j \in DOMAIN v : met[i].key # v[j].key
      BY <1>4, <3>1
    <3>3. QED BY <1>1, <2>1, <2>2, <2>3, <2>4, <3>2, JoinApart
  <2>6. /\ DOMAIN Met(new) = 1..(Len(met) + Len(v))
        /\ \A i \in DOMAIN Met(new) :
             \/ i \in DOMAIN met /\ Met(new)[i] = met[i]
             \/ \E f \in a..p : Met(new)[i] = fresh[f]
    <3>1. DOMAIN Met(new) = 1..(Len(met) + Len(v))
      <4>1. met \in Seq(SoundCard) /\ v \in Seq(SoundCard) /\ Met(new) = met \o v
        BY <1>1, <2>1, <2>2
      <4>2. DOMAIN (met \o v) = 1..(Len(met) + Len(v))
        BY <4>1, JoinIs, Zenon
      <4>3. QED BY <4>1, <4>2, Zenon
    <3>2. \A i \in DOMAIN Met(new) :
            \/ i \in DOMAIN met /\ Met(new)[i] = met[i]
            \/ i - Len(met) \in DOMAIN v /\ Met(new)[i] = v[i - Len(met)]
      BY <1>1, <2>1, <2>2, JoinIs
    <3>3. QED BY <2>2, <3>1, <3>2
  <2>7. ASSUME NEW i \in DOMAIN Met(new)
        PROVE  \/ \E o \in 1..(k + 1) : Met(new)[i] = saved[o]
               \/ \E f \in 1..(new.next - 1) : Met(new)[i] = fresh[f]
    <3>1. 1..k \subseteq 1..(k + 1) /\ new.next - 1 = p /\ a..p \subseteq 1..p
          /\ 1..(a - 1) \subseteq 1..p
      BY <1>1, <2>1
    <3>2. CASE i \in DOMAIN met /\ Met(new)[i] = met[i]
      BY <1>4, <3>1, <3>2
    <3>3. CASE \E f \in a..p : Met(new)[i] = fresh[f]
      BY <3>1, <3>3
    <3>4. QED BY <2>6, <2>7, <3>2, <3>3
  <2>8. new.next # 1 => \E o \in 1..(k + 1) : StandsFor(saved[o], fresh[new.next - 1])
    <3>1. p # 0 /\ new.next - 1 = p /\ k + 1 \in 1..(k + 1)
      BY <1>1, <2>1
    <3>2. QED BY <1>3, <3>1 DEF card
  <2>9. ASSUME NEW i \in DOMAIN Met(new), NEW f \in new.next..Len(fresh)
        PROVE  Met(new)[i].key # fresh[f].key
    <3>1. f \in a..Len(fresh) /\ f \in DOMAIN fresh /\ f > p
      BY <1>1, <2>1, <2>9
    <3>2. CASE i \in DOMAIN met /\ Met(new)[i] = met[i]
      BY <1>4, <3>1, <3>2
    <3>3. CASE \E g \in a..p : Met(new)[i] = fresh[g]
      <4>1. PICK g \in a..p : Met(new)[i] = fresh[g]
        BY <3>3
      <4>2. g \in DOMAIN fresh /\ g < f
        BY <1>1, <2>1, <3>1
      <4>3. QED BY <3>1, <4>1, <4>2 DEF Apart
    <3>4. QED BY <2>6, <2>9, <3>2, <3>3
  <2>10. MergeOk(fresh, saved, X, new, k + 1)
    BY <1>2, <2>1, <2>5, <2>7, <2>8, <2>9 DEF MergeOk
  <2>11. QED BY <2>10 DEF new, card
<1>7. QED BY <1>2, <1>5, <1>6

LEMMA MergeOkAll ==
  ASSUME NEW fresh \in Seq(SoundCard), NEW saved \in Seq(SoundCard), NEW X, Apart(fresh, {}),
         Excused(fresh, saved, X),
         NEW part \in [0..Len(saved) -> Merging(fresh)],
         MergePartsOf(part, fresh, [next |-> 1, waiting |-> <<>>, merged |-> <<>>], saved),
         NEW k \in 0..Len(saved)
  PROVE  MergeOk(fresh, saved, X, part[k], k)
<1> DEFINE start == [next |-> 1, waiting |-> <<>>, merged |-> <<>>]
           T == {j \in 0..k : MergeOk(fresh, saved, X, part[j], j)}
<1>1. Len(saved) \in Nat /\ k \in Nat /\ 0 \in 0..Len(saved) /\ k <= Len(saved)
  OBVIOUS
<1>2. 0 \in T
  <2>1. part[0] = start /\ part[0] \in Merging(fresh)
    BY <1>1 DEF MergePartsOf
  <2>2. Met(start) = <<>> /\ DOMAIN Met(start) = {} /\ start.next = 1 /\ DOMAIN start.merged = {}
    BY DEF Met
  <2> HIDE DEF start
  <2>3. MergeOk(fresh, saved, X, start, 0)
    BY <2>1, <2>2 DEF MergeOk, Apart
  <2>4. QED BY <1>1, <2>1, <2>3
<1>3. ASSUME NEW j \in 0..(k - 1), j \in T PROVE j + 1 \in T
  <2>1. MergeOk(fresh, saved, X, part[j], j) /\ j \in 0..(Len(saved) - 1) /\ j + 1 \in 0..k
    BY <1>1, <1>3
  <2>2. part[j + 1] = MergeSaved(fresh, part[j], saved[j + 1])
    BY <2>1 DEF MergePartsOf
  <2>3. MergeOk(fresh, saved, X, part[j + 1], j + 1)
    BY <2>1, <2>2, MergeOkStep
  <2>4. QED BY <2>1, <2>3
<1> HIDE DEF T
<1>4. k \in T
  BY <1>1, <1>2, <1>3, BoundedInduction
<1>5. QED BY <1>4 DEF T

\* The results of a merge after each saved card.
LEMMA MergeRuns ==
  ASSUME NEW fresh \in Seq(SoundCard), NEW saved \in Seq(SoundCard)
  PROVE  \E part \in [0..Len(saved) -> Merging(fresh)] :
           /\ MergePartsOf(part, fresh, [next |-> 1, waiting |-> <<>>, merged |-> <<>>], saved)
           /\ merge_snapshot_items(fresh, saved)
                = part[Len(saved)].merged \o SubSeq(fresh, part[Len(saved)].next, Len(fresh))
<1> DEFINE start == [next |-> 1, waiting |-> <<>>, merged |-> <<>>]
<1>1. \A acc \in Merging(fresh), card \in SoundCard : MergeSaved(fresh, acc, card) \in Merging(fresh)
  BY MergeStep
<1>2. start \in Merging(fresh)
  <2>1. 1 \in 1..(Len(fresh) + 1) /\ <<>> \in Seq(SoundCard)
    OBVIOUS
  <2>2. QED BY <2>1 DEF Merging
<1> HIDE DEF start
<1>3. PICK part \in [0..Len(saved) -> Merging(fresh)] : MergePartsOf(part, fresh, start, saved)
  BY <1>1, <1>2, MergeParts
<1>4. merge_snapshot_items(fresh, saved)
        = part[Len(saved)].merged \o SubSeq(fresh, part[Len(saved)].next, Len(fresh))
  <2>1. SavedMerged(fresh, start, saved) = part[Len(saved)]
    BY <1>3 DEF MergePartsOf
  <2>2. QED BY <2>1 DEF merge_snapshot_items, start
<1>5. QED BY <1>3, <1>4 DEF start

\* The end of a merge.
LEMMA RestOf ==
  ASSUME NEW fresh \in Seq(SoundCard), NEW acc \in Merging(fresh)
  PROVE  LET v == SubSeq(fresh, acc.next, Len(fresh))
         IN  /\ v \in Seq(SoundCard)
             /\ \A i \in DOMAIN v :
                  acc.next - 1 + i \in acc.next..Len(fresh) /\ v[i] = fresh[acc.next - 1 + i]
             /\ acc.next \in Nat \ {0} /\ DOMAIN v \subseteq Nat
<1>1. acc.next \in 1..(Len(fresh) + 1) /\ Len(fresh) \in Nat
  BY DEF Merging
<1> DEFINE a == acc.next
           v == SubSeq(fresh, a, Len(fresh))
<1> HIDE DEF a
<1>2. a \in 1..(Len(fresh) + 1) /\ Len(fresh) \in (a - 1)..Len(fresh)
  BY <1>1 DEF a
<1>3. /\ v \in Seq(SoundCard) /\ DOMAIN v = 1..(Len(fresh) + 1 - a)
      /\ \A i \in DOMAIN v : a - 1 + i \in a..Len(fresh) /\ v[i] = fresh[a - 1 + i]
  BY <1>2, PartOf
<1> HIDE DEF v
<1>4. DOMAIN v \subseteq Nat
  BY <1>3
<1>5. QED BY <1>1, <1>3, <1>4 DEF v, a

LEMMA RestApart ==
  ASSUME NEW fresh \in Seq(SoundCard), NEW acc \in Merging(fresh), NEW X, Apart(fresh, {})
  PROVE  Apart(SubSeq(fresh, acc.next, Len(fresh)), X)
<1> DEFINE a == acc.next
           v == SubSeq(fresh, a, Len(fresh))
<1>1. /\ v \in Seq(SoundCard) /\ a \in Nat \ {0} /\ DOMAIN v \subseteq Nat
      /\ \A i \in DOMAIN v : a - 1 + i \in a..Len(fresh) /\ v[i] = fresh[a - 1 + i]
  BY RestOf
<1> HIDE DEF a, v
<1>2. ASSUME NEW i \in DOMAIN v, NEW j \in DOMAIN v, i < j, v[i].key = v[j].key PROVE FALSE
  <2>1. a - 1 + i \in a..Len(fresh) /\ a - 1 + j \in a..Len(fresh) /\ i \in Nat /\ j \in Nat
    BY <1>1
  <2>2. a - 1 + i \in DOMAIN fresh /\ a - 1 + j \in DOMAIN fresh /\ a - 1 + i < a - 1 + j
    BY <1>1, <1>2, <2>1
  <2>3. QED BY <1>1, <1>2, <2>2 DEF Apart
<1>3. QED BY <1>2 DEF Apart, v, a

\* Two cards that a merge leaves with one key have one of X.
LEMMA MergeApart ==
  ASSUME NEW fresh \in Seq(SoundCard), NEW saved \in Seq(SoundCard), NEW X, Apart(fresh, {}),
         Excused(fresh, saved, X)
  PROVE  Apart(merge_snapshot_items(fresh, saved), X)
<1>1. PICK part \in [0..Len(saved) -> Merging(fresh)] :
        /\ MergePartsOf(part, fresh, [next |-> 1, waiting |-> <<>>, merged |-> <<>>], saved)
        /\ merge_snapshot_items(fresh, saved)
             = part[Len(saved)].merged \o SubSeq(fresh, part[Len(saved)].next, Len(fresh))
  BY MergeRuns
<1> DEFINE end == part[Len(saved)]
           v == SubSeq(fresh, end.next, Len(fresh))
<1>2. Len(saved) \in 0..Len(saved)
  OBVIOUS
<1>3. MergeOk(fresh, saved, X, end, Len(saved)) /\ end \in Merging(fresh)
  BY <1>1, <1>2, MergeOkAll
<1> HIDE DEF end
<1>4. /\ v \in Seq(SoundCard)
      /\ \A i \in DOMAIN v :
           end.next - 1 + i \in end.next..Len(fresh) /\ v[i] = fresh[end.next - 1 + i]
  BY <1>3, RestOf
<1>5. Apart(v, X)
  BY <1>3, RestApart
<1>6. end.merged \in Seq(SoundCard) /\ end.waiting \in Seq(SoundCard)
  BY <1>3 DEF Merging
<1>7. \A i \in DOMAIN end.merged : i \in DOMAIN Met(end) /\ Met(end)[i] = end.merged[i]
  <2>1. Joined(SoundCard, end.merged, end.waiting, Met(end))
    BY <1>6, Concatenated DEF Met
  <2>2. DOMAIN end.merged = 1..Len(end.merged)
    BY <1>6
  <2>3. QED BY <2>1, <2>2 DEF Joined
<1>8. /\ Apart(end.merged, X)
      /\ \A i \in DOMAIN Met(end), f \in end.next..Len(fresh) : Met(end)[i].key # fresh[f].key
  BY <1>3 DEF MergeOk
<1> HIDE DEF v
<1>9. \A i \in DOMAIN end.merged, j \in DOMAIN v : end.merged[i].key # v[j].key
  BY <1>4, <1>7, <1>8
<1>10. Apart(end.merged \o v, X)
  BY <1>4, <1>5, <1>6, <1>8, <1>9, JoinApart
<1>11. QED BY <1>1, <1>10 DEF end, v

\* The cards of a thread are of items: none is a plan or has the key of one.
OfItems(fresh) ==
  \A f \in DOMAIN fresh : fresh[f].kind \in ItemKinds /\ fresh[f].key[1] \notin Generated

\* Every plan among the first k saved cards has been met, and it is merged before the fresh card
\* that has the key of a card saved after it.
PlansBack(fresh, saved, acc, k) ==
  /\ \A p \in 1..k : saved[p].kind = "plan" => \E m \in DOMAIN Met(acc) : Met(acc)[m] = saved[p]
  /\ \A p, q \in 1..k, f \in DOMAIN fresh :
       p < q /\ saved[p].kind = "plan" /\ fresh[f].key = saved[q].key =>
         \E m, n \in DOMAIN acc.merged :
           m < n /\ acc.merged[m] = saved[p] /\ acc.merged[n] = fresh[f]

Extends(u, t) == \A i \in DOMAIN u : i \in DOMAIN t /\ t[i] = u[i]

LEMMA JoinExtends ==
  ASSUME NEW u \in Seq(SoundCard), NEW v \in Seq(SoundCard)
  PROVE  Extends(u, u \o v)
<1>1. Joined(SoundCard, u, v, u \o v)
  BY Concatenated
<1>2. DOMAIN u = 1..Len(u)
  OBVIOUS
<1>3. QED BY <1>1, <1>2 DEF Joined, Extends

\* Cards that have been met or merged stay where they are.
LEMMA MergeExtends ==
  ASSUME NEW fresh \in Seq(SoundCard), NEW acc \in Merging(fresh), NEW card \in SoundCard
  PROVE  LET new == MergeSaved(fresh, acc, card)
         IN  Extends(Met(acc), Met(new)) /\ Extends(acc.merged, new.merged)
<1> DEFINE new == MergeSaved(fresh, acc, card)
           p   == SnapshotMatch(fresh, acc.next, card)
<1>1. /\ new \in Merging(fresh)
      /\ (p = 0 /\ Waits(acc, card, new)) \/ Matches(fresh, acc, p, new)
  BY MergeStep
<1>2. /\ acc.merged \in Seq(SoundCard) /\ acc.waiting \in Seq(SoundCard)
      /\ acc.next \in 1..(Len(fresh) + 1) /\ Len(fresh) \in Nat
  BY DEF Merging
<1>3. Met(acc) \in Seq(SoundCard) /\ Extends(acc.merged, Met(acc))
  BY <1>2, JoinExtends DEF Met
<1> HIDE DEF new, p
<1>4. CASE p = 0 /\ Waits(acc, card, new)
  <2>1. Met(new) = Append(Met(acc), card) /\ new.merged = acc.merged
    BY <1>4 DEF Waits
  <2> DEFINE met == Met(acc)
  <2> HIDE DEF met
  <2>2. Extends(met, Append(met, card))
    BY <1>3 DEF Extends, met
  <2>3. Extends(acc.merged, new.merged)
    BY <2>1 DEF Extends
  <2>4. QED BY <2>1, <2>2, <2>3 DEF met, new
<1>5. CASE Matches(fresh, acc, p, new)
  <2> DEFINE v == SubSeq(fresh, acc.next, p)
  <2>1. /\ p \in acc.next..Len(fresh) /\ new.merged = Met(acc) \o v /\ Met(new) = new.merged
    BY <1>5 DEF Matches
  <2>2. v \in Seq(SoundCard)
    <3>1. p \in (acc.next - 1)..Len(fresh)
      BY <1>2, <2>1
    <3>2. QED BY <1>2, <3>1, PartOf
  <2> HIDE DEF v
  <2>3. Extends(Met(acc), Met(new))
    BY <1>3, <2>1, <2>2, JoinExtends
  <2>4. Extends(acc.merged, new.merged)
    BY <1>3, <2>1, <2>3 DEF Extends
  <2>5. QED BY <2>3, <2>4 DEF new
<1>6. QED BY <1>1, <1>4, <1>5

LEMMA PlansStep ==
  ASSUME NEW fresh \in Seq(SoundCard), NEW saved \in Seq(SoundCard), NEW X, Apart(fresh, {}),
         OfItems(fresh), InOrder(saved, fresh), NEW k \in 0..(Len(saved) - 1), NEW acc,
         MergeOk(fresh, saved, X, acc, k), PlansBack(fresh, saved, acc, k)
  PROVE  PlansBack(fresh, saved, MergeSaved(fresh, acc, saved[k + 1]), k + 1)
<1> DEFINE card == saved[k + 1]
           new  == MergeSaved(fresh, acc, card)
           a    == acc.next
           p    == SnapshotMatch(fresh, a, card)
           met  == Met(acc)
<1>1. /\ acc \in Merging(fresh) /\ a \in 1..(Len(fresh) + 1) /\ a \in Nat \ {0}
      /\ met \in Seq(SoundCard) /\ card \in SoundCard /\ Len(fresh) \in Nat /\ k \in Nat
      /\ k + 1 \in DOMAIN saved /\ DOMAIN saved = 1..Len(saved) /\ DOMAIN fresh = 1..Len(fresh)
      /\ DOMAIN met = 1..Len(met) /\ Len(met) \in Nat
      /\ \A i \in DOMAIN saved : saved[i] \in SoundCard
  <2>1. acc \in Merging(fresh)
    BY DEF MergeOk
  <2>2. acc.merged \in Seq(SoundCard) /\ acc.waiting \in Seq(SoundCard)
    BY <2>1 DEF Merging
  <2>3. met \in Seq(SoundCard)
    BY <2>2 DEF Met
  <2> HIDE DEF met
  <2>4. QED BY <2>1, <2>3 DEF Merging
<1>2. /\ new \in Merging(fresh)
      /\ (p = 0 /\ Waits(acc, card, new)) \/ Matches(fresh, acc, p, new)
  BY <1>1, MergeStep
<1>3. /\ p # 0 => StandsFor(card, fresh[p])
      /\ \A f \in a..Len(fresh) : fresh[f].key = card.key => p # 0 /\ fresh[p].key = card.key
      /\ p = 0 \/ p \in a..Len(fresh)
  BY <1>1, MatchIs
<1>4. Extends(met, Met(new)) /\ Extends(acc.merged, new.merged)
  BY <1>1, MergeExtends
<1>5. a # 1 => \E o \in 1..k : StandsFor(saved[o], fresh[a - 1])
  BY DEF MergeOk
<1>6. /\ \A i \in 1..k : saved[i].kind = "plan" => \E m \in DOMAIN met : met[m] = saved[i]
      /\ \A i, j \in 1..k, f \in DOMAIN fresh :
           i < j /\ saved[i].kind = "plan" /\ fresh[f].key = saved[j].key =>
             \E m, n \in DOMAIN acc.merged :
               m < n /\ acc.merged[m] = saved[i] /\ acc.merged[n] = fresh[f]
  BY DEF PlansBack
<1> HIDE DEF p, new, met, card, a
<1>7. ASSUME card.kind = "plan" PROVE p = 0 /\ Waits(acc, card, new)
  <2>1. card.key[1] \in Generated /\ "plan" \notin ItemKinds
    BY <1>1, <1>7 DEF SoundCard, ItemKinds
  <2>2. ASSUME p # 0 PROVE FALSE
    <3>1. p \in DOMAIN fresh /\ StandsFor(card, fresh[p])
      BY <1>1, <1>3, <2>2
    <3>2. fresh[p].kind \in ItemKinds /\ fresh[p].key[1] \notin Generated
      BY <3>1 DEF OfItems
    <3>3. card.key = fresh[p].key \/ card.kind = fresh[p].kind
      BY <3>1 DEF StandsFor, items_are_semantically_equal
    <3>4. QED BY <1>7, <2>1, <3>2, <3>3
  <2>3. ~ Matches(fresh, acc, p, new)
    <3>1. p = 0 => p \notin acc.next..Len(fresh)
      BY <1>1 DEF a
    <3>2. QED BY <2>2, <3>1 DEF Matches
  <2>4. QED BY <1>2, <2>2, <2>3
<1>8. ASSUME NEW i \in 1..(k + 1), saved[i].kind = "plan"
      PROVE  \E m \in DOMAIN Met(new) : Met(new)[m] = saved[i]
  <2>1. CASE i = k + 1
    <3>1. Met(new) = Append(met, card)
      BY <1>7, <1>8, <2>1 DEF Waits, met, card
    <3>2. Len(met) + 1 \in DOMAIN Met(new) /\ Met(new)[Len(met) + 1] = card
      BY <1>1, <3>1
    <3>3. QED BY <2>1, <3>2 DEF card
  <2>2. CASE i # k + 1
    <3>1. i \in 1..k
      BY <1>1, <2>2
    <3>2. PICK m \in DOMAIN met : met[m] = saved[i]
      BY <1>6, <1>8, <3>1
    <3>3. QED BY <1>4, <3>2 DEF Extends
  <2>3. QED BY <2>1, <2>2
<1>9. ASSUME NEW i \in 1..(k + 1), NEW j \in 1..(k + 1), NEW f \in DOMAIN fresh, i < j,
             saved[i].kind = "plan", fresh[f].key = saved[j].key
      PROVE  \E m, n \in DOMAIN new.merged :
               m < n /\ new.merged[m] = saved[i] /\ new.merged[n] = fresh[f]
  <2>1. i \in 1..k
    BY <1>1, <1>9
  <2>2. CASE j \in 1..k
    <3>1. PICK m \in DOMAIN acc.merged, n \in DOMAIN acc.merged :
            m < n /\ acc.merged[m] = saved[i] /\ acc.merged[n] = fresh[f]
      BY <1>6, <1>9, <2>1, <2>2
    <3>2. QED BY <1>4, <3>1 DEF Extends
  <2>3. CASE j = k + 1
    <3>1. fresh[f].key = card.key /\ StandsFor(card, fresh[f])
      BY <1>9, <2>3 DEF card, StandsFor
    <3>2. f >= a
      <4>1. SUFFICES ASSUME f < a PROVE FALSE
        BY <1>1
      <4>2. a # 1 /\ a - 1 \in DOMAIN fresh
        BY <1>1, <4>1
      <4>3. PICK o \in 1..k : StandsFor(saved[o], fresh[a - 1])
        BY <1>5, <4>2
      <4>4. o \in DOMAIN saved /\ o < k + 1
        BY <1>1
      <4>5. a - 1 < f
        BY <1>1, <3>1, <4>2, <4>3, <4>4 DEF InOrder, card
      <4>6. QED BY <1>1, <4>1, <4>5
    <3>3. f \in a..Len(fresh)
      BY <1>1, <3>2
    <3>4. p # 0 /\ fresh[p].key = card.key /\ p \in a..Len(fresh) /\ p \in DOMAIN fresh
      BY <1>1, <1>3, <3>1, <3>3
    <3>5. p = f
      <4>1. ~ (p < f) /\ ~ (f < p)
        BY <3>1, <3>4 DEF Apart
      <4>2. QED BY <1>1, <3>4, <4>1
    <3> DEFINE v == SubSeq(fresh, a, p)
    <3>6. new.merged = met \o v
      BY <1>2, <3>4 DEF Matches, a, met
    <3>7. /\ v \in Seq(SoundCard) /\ DOMAIN v = 1..(p + 1 - a) /\ Len(v) = p + 1 - a
          /\ \A n \in DOMAIN v : v[n] = fresh[a - 1 + n]
      <4>1. p \in (a - 1)..Len(fresh) /\ a \in 1..(Len(fresh) + 1)
        BY <1>1, <3>4
      <4>2. QED BY <4>1, PartOf
    <3> HIDE DEF v
    <3> DEFINE n == p + 1 - a
    <3>8. n \in DOMAIN v /\ a - 1 + n = p /\ n \in Nat /\ n > 0
      BY <1>1, <3>4, <3>7
    <3>9. v[n] = fresh[f]
      BY <3>5, <3>7, <3>8
    <3> HIDE DEF n
    <3>10. Joined(SoundCard, met, v, met \o v)
      BY <1>1, <3>7, Concatenated
    <3>11. Len(met) + n \in DOMAIN new.merged /\ new.merged[Len(met) + n] = fresh[f]
      BY <3>6, <3>7, <3>8, <3>9, <3>10 DEF Joined
    <3>12. PICK m \in DOMAIN met : met[m] = saved[i]
      BY <1>6, <1>9, <2>1
    <3>13. m \in DOMAIN new.merged /\ new.merged[m] = saved[i]
      BY <1>1, <3>6, <3>10, <3>12 DEF Joined
    <3>14. m < Len(met) + n
      BY <1>1, <3>8, <3>12
    <3>15. QED BY <3>11, <3>13, <3>14
  <2>4. QED BY <1>1, <2>2, <2>3
<1>10. PlansBack(fresh, saved, new, k + 1)
  BY <1>8, <1>9 DEF PlansBack
<1>11. QED BY <1>10 DEF new, card

LEMMA PlansAll ==
  ASSUME NEW fresh \in Seq(SoundCard), NEW saved \in Seq(SoundCard), Apart(fresh, {}),
         OfItems(fresh), InOrder(saved, fresh),
         NEW part \in [0..Len(saved) -> Merging(fresh)],
         MergePartsOf(part, fresh, [next |-> 1, waiting |-> <<>>, merged |-> <<>>], saved)
  PROVE  PlansBack(fresh, saved, part[Len(saved)], Len(saved))
<1> DEFINE start == [next |-> 1, waiting |-> <<>>, merged |-> <<>>]
           T == {j \in 0..Len(saved) : PlansBack(fresh, saved, part[j], j)}
<1>1. Len(saved) \in Nat /\ DOMAIN saved = 1..Len(saved) /\ 0 \in 0..Len(saved)
  OBVIOUS
<1>2. Excused(fresh, saved, Keys)
  <2>1. \A q \in DOMAIN saved : saved[q].key \in Keys
    BY <1>1 DEF SoundCard
  <2>2. QED BY <2>1 DEF Excused, Apart
<1>3. \A j \in 0..Len(saved) : MergeOk(fresh, saved, Keys, part[j], j)
  BY <1>2, MergeOkAll
<1>4. 0 \in T
  <2>1. 1..0 = {}
    OBVIOUS
  <2>2. PlansBack(fresh, saved, part[0], 0)
    BY <2>1 DEF PlansBack
  <2>3. QED BY <1>1, <2>2
<1>5. ASSUME NEW j \in 0..(Len(saved) - 1), j \in T PROVE j + 1 \in T
  <2>1. PlansBack(fresh, saved, part[j], j) /\ j \in 0..Len(saved) /\ j + 1 \in 0..Len(saved)
    BY <1>1, <1>5
  <2>2. part[j + 1] = MergeSaved(fresh, part[j], saved[j + 1])
    BY <1>5 DEF MergePartsOf
  <2>3. MergeOk(fresh, saved, Keys, part[j], j)
    BY <1>3, <2>1
  <2>4. PlansBack(fresh, saved, part[j + 1], j + 1)
    BY <1>5, <2>1, <2>2, <2>3, PlansStep
  <2>5. QED BY <2>1, <2>4
<1> HIDE DEF T
<1>6. Len(saved) \in T
  BY <1>1, <1>4, <1>5, BoundedInduction
<1>7. QED BY <1>6 DEF T

\* A plan that was saved is before every fresh card that has the key of a card saved after it.
LEMMA MergePlans ==
  ASSUME NEW fresh \in Seq(SoundCard), NEW saved \in Seq(SoundCard), Apart(fresh, {}),
         OfItems(fresh), InOrder(saved, fresh),
         NEW p \in DOMAIN saved, NEW q \in DOMAIN saved, NEW f \in DOMAIN fresh,
         p < q, saved[p].kind = "plan", fresh[f].key = saved[q].key
  PROVE  LET s == merge_snapshot_items(fresh, saved)
         IN  \E m, n \in DOMAIN s : m < n /\ s[m] = saved[p] /\ s[n] = fresh[f]
<1>1. PICK part \in [0..Len(saved) -> Merging(fresh)] :
        /\ MergePartsOf(part, fresh, [next |-> 1, waiting |-> <<>>, merged |-> <<>>], saved)
        /\ merge_snapshot_items(fresh, saved)
             = part[Len(saved)].merged \o SubSeq(fresh, part[Len(saved)].next, Len(fresh))
  BY MergeRuns
<1> DEFINE end == part[Len(saved)]
           v == SubSeq(fresh, end.next, Len(fresh))
           s == merge_snapshot_items(fresh, saved)
<1>2. end \in Merging(fresh) /\ DOMAIN saved = 1..Len(saved)
  <2>1. Len(saved) \in 0..Len(saved)
    OBVIOUS
  <2>2. QED BY <2>1
<1>3. PlansBack(fresh, saved, end, Len(saved))
  BY <1>1, PlansAll
<1> HIDE DEF end
<1>4. PICK m \in DOMAIN end.merged, n \in DOMAIN end.merged :
        m < n /\ end.merged[m] = saved[p] /\ end.merged[n] = fresh[f]
  BY <1>2, <1>3 DEF PlansBack
<1>5. v \in Seq(SoundCard) /\ end.merged \in Seq(SoundCard)
  BY <1>2, RestOf DEF Merging
<1> HIDE DEF v
<1>6. Extends(end.merged, end.merged \o v)
  BY <1>5, JoinExtends
<1>7. s = end.merged \o v
  BY <1>1 DEF end, v
<1> HIDE DEF s
<1>8. m \in DOMAIN s /\ n \in DOMAIN s /\ s[m] = saved[p] /\ s[n] = fresh[f]
  BY <1>4, <1>6, <1>7 DEF Extends
<1>9. QED BY <1>4, <1>8 DEF s

-----------------------------------------------------------------------------
(* The cards of a thread.                                                  *)

LEMMA NameFacts ==
  ASSUME NEW al, NEW item \in SoundItem(al)
  PROVE  /\ NameOf(item) \in Keys /\ NameOf(item)[1] # "local-user"
         /\ NameOf(item)[1] \notin Generated
<1>1. item.id \in Items /\ item.turn \in Users
  BY DEF SoundItem
<1>2. QED BY <1>1, KeyFacts DEF NameOf, Generated

\* The first k items of a thread have a card each, and the others come from them; but the last
\* card, they come from the first k - 1.
FreshCards(thread, items, k) ==
  /\ \A f \in DOMAIN items : \E j \in 1..k :
       items[f].key = NameOf(thread[j]) /\ (f < Len(items) => j < k)
  /\ \A j \in 1..k : \E f \in DOMAIN items : items[f].key = NameOf(thread[j])

\* An item updates its card or gets a new one at the end.
LEMMA UpsertKeys ==
  ASSUME NEW al, NEW m \in SoundModel(al), NEW item \in SoundItem(al), NEW n,
         Upserted(al, m, item, n), \A p \in DOMAIN m.items : m.items[p].key[1] # "local-user"
  PROVE  /\ \/ Len(n.items) = Len(m.items)
            \/ Len(n.items) = Len(m.items) + 1 /\ n.items[Len(n.items)].key = NameOf(item)
         /\ \A p \in 1..Len(m.items) : n.items[p].key = m.items[p].key
         /\ \E f \in DOMAIN n.items : n.items[f].key = NameOf(item)
<1>1. /\ n \in SoundModel(al) /\ KeyStep(m, n) /\ Len(m.items) \in Nat
      /\ DOMAIN m.items = 1..Len(m.items)
  BY ModelFacts DEF Upserted, Step
<1>2. ~ Echoed(m, n)
  BY <1>1 DEF Echoed
<1>3. /\ \A p \in 1..Len(m.items) : n.items[p].key = m.items[p].key
      /\ Len(n.items) = Len(m.items) \/ Len(n.items) = Len(m.items) + 1
  BY <1>1, <1>2 DEF KeyStep, SameKeys, NewCard
<1>4. Len(n.items) = Len(m.items) + 1 => n.items[Len(n.items)].key = NameOf(item)
  BY <1>1 DEF Upserted
<1>5. \E f \in DOMAIN n.items : n.items[f].key = NameOf(item)
  <2>1. CASE item.kind = "reasoning"
    BY <2>1 DEF Upserted, NameOf
  <2>2. CASE item.kind # "reasoning"
    <3>1. PICK f \in DOMAIN n.items : n.items[f].pid = ItemKey(item.id)
      BY <2>2 DEF Upserted
    <3>2. item.id \in Items /\ item.kind = KindOf(item.id)
      BY DEF SoundItem
    <3>3. item.id \notin Reasonings
      BY <2>2, <3>2, SessionAssumption DEF KindOf, Items
    <3>4. n.items[f] \in SoundCard
      BY <1>1, <3>1, ModelFacts
    <3>5. n.items[f].key = ItemKey(item.id)
      BY <3>1, <3>2, <3>3, <3>4, ShownKey
    <3>6. QED BY <2>2, <3>5 DEF NameOf
  <2>3. QED BY <2>1, <2>2
<1>6. QED BY <1>3, <1>4, <1>5

LEMMA FreshStep ==
  ASSUME NEW al, NEW thread \in Seq(SoundItem(al)), NEW k \in 0..(Len(thread) - 1),
         NEW m \in SoundModel(al), FreshCards(thread, m.items, k), NEW n,
         Upserted(al, m, thread[k + 1], n)
  PROVE  FreshCards(thread, n.items, k + 1)
<1> DEFINE item == thread[k + 1]
<1>1. /\ Len(thread) \in Nat /\ k \in Nat /\ DOMAIN thread = 1..Len(thread)
      /\ \A j \in 1..(k + 1) : j \in DOMAIN thread /\ thread[j] \in SoundItem(al)
      /\ n \in SoundModel(al) /\ item \in SoundItem(al)
  BY DEF Upserted, Step
<1>2. /\ DOMAIN m.items = 1..Len(m.items) /\ Len(m.items) \in Nat
      /\ DOMAIN n.items = 1..Len(n.items)
  BY <1>1, ModelFacts
<1>3. \A p \in DOMAIN m.items : m.items[p].key[1] # "local-user"
  <2>1. ASSUME NEW p \in DOMAIN m.items PROVE m.items[p].key[1] # "local-user"
    <3>1. PICK j \in 1..k : m.items[p].key = NameOf(thread[j])
      BY DEF FreshCards
    <3>2. thread[j] \in SoundItem(al)
      BY <1>1
    <3>3. QED BY <3>1, <3>2, NameFacts
  <2>2. QED BY <2>1
<1>4. /\ \/ Len(n.items) = Len(m.items)
         \/ Len(n.items) = Len(m.items) + 1 /\ n.items[Len(n.items)].key = NameOf(item)
      /\ \A p \in 1..Len(m.items) : n.items[p].key = m.items[p].key
      /\ \E f \in DOMAIN n.items : n.items[f].key = NameOf(item)
  BY <1>1, <1>3, UpsertKeys
<1>5. \A p \in DOMAIN m.items : p \in DOMAIN n.items /\ n.items[p].key = m.items[p].key
  BY <1>2, <1>4
<1>6. /\ \A f \in DOMAIN m.items : \E j \in 1..k : m.items[f].key = NameOf(thread[j])
      /\ \A j \in 1..k : \E f \in DOMAIN m.items : m.items[f].key = NameOf(thread[j])
  BY DEF FreshCards
<1>7. ASSUME NEW f \in DOMAIN n.items
      PROVE  \E j \in 1..(k + 1) :
               n.items[f].key = NameOf(thread[j]) /\ (f < Len(n.items) => j < k + 1)
  <2>1. CASE f \in DOMAIN m.items
    <3>1. PICK j \in 1..k : m.items[f].key = NameOf(thread[j])
      BY <1>6, <2>1
    <3>2. j \in 1..(k + 1) /\ j < k + 1
      BY <1>1
    <3>3. n.items[f].key = NameOf(thread[j])
      BY <1>5, <2>1, <3>1
    <3>4. QED BY <3>2, <3>3
  <2>2. CASE f \notin DOMAIN m.items
    <3>1. f = Len(n.items) /\ n.items[f].key = NameOf(item)
      BY <1>2, <1>4, <2>2
    <3>2. k + 1 \in 1..(k + 1) /\ ~ (f < Len(n.items))
      BY <1>1, <1>2, <3>1
    <3>3. QED BY <3>1, <3>2
  <2>3. QED BY <2>1, <2>2
<1>8. ASSUME NEW j \in 1..(k + 1)
      PROVE  \E f \in DOMAIN n.items : n.items[f].key = NameOf(thread[j])
  <2>1. CASE j = k + 1
    BY <1>4, <2>1
  <2>2. CASE j # k + 1
    <3>1. j \in 1..k
      BY <1>1, <2>2
    <3>2. QED BY <1>5, <1>6, <3>1
  <2>3. QED BY <2>1, <2>2
<1>9. QED BY <1>7, <1>8 DEF FreshCards

\* A thread that is loaded has one card of each key, all of its items.
LEMMA FreshAll ==
  ASSUME NEW al, al \subseteq Reasonings \X Users, NEW m \in SoundModel(al), m.items = <<>>,
         NEW thread \in Seq(SoundItem(al))
  PROVE  LET n == UpsertAll(m, thread)
         IN  /\ n \in SoundModel(al) /\ Apart(n.items, {}) /\ OfItems(n.items)
             /\ FreshCards(thread, n.items, Len(thread))
<1> DEFINE A == SoundModel(al)
           E == SoundItem(al)
           N == UpsertAll(m, thread)
<1>1. \A n \in A, i \in E : upsert_protocol_item(n, i, TRUE) \in A
  BY UpsertSound DEF Upserted, Step
<1>2. PICK part \in [0..Len(thread) -> A] : UpsertPartsOf(part, m, thread)
  <2>1. m \in A /\ thread \in Seq(E)
    OBVIOUS
  <2> HIDE DEF A, E
  <2>2. QED BY <1>1, <2>1, UpsertParts
<1>3. Len(thread) \in Nat /\ DOMAIN thread = 1..Len(thread) /\ Len(thread) \in 0..Len(thread)
      /\ 0 \in 0..Len(thread)
  OBVIOUS
<1> DEFINE T == {k \in 0..Len(thread) : FreshCards(thread, part[k].items, k)}
<1>4. 0 \in T
  <2>1. part[0] = m /\ DOMAIN m.items = {} /\ 1..0 = {}
    BY <1>2 DEF UpsertPartsOf
  <2>2. FreshCards(thread, part[0].items, 0)
    BY <2>1 DEF FreshCards
  <2>3. QED BY <1>3, <2>2
<1>5. ASSUME NEW k \in 0..(Len(thread) - 1), k \in T PROVE k + 1 \in T
  <2>1. k \in 0..Len(thread) /\ k + 1 \in 0..Len(thread) /\ k + 1 \in DOMAIN thread
    BY <1>3
  <2>2. part[k] \in SoundModel(al) /\ thread[k + 1] \in SoundItem(al)
    BY <2>1
  <2>3. part[k + 1] = upsert_protocol_item(part[k], thread[k + 1], TRUE)
    BY <1>2 DEF UpsertPartsOf
  <2>4. Upserted(al, part[k], thread[k + 1], part[k + 1])
    BY <2>2, <2>3, UpsertSound
  <2>5. FreshCards(thread, part[k + 1].items, k + 1)
    BY <1>5, <2>2, <2>4, FreshStep
  <2>6. QED BY <2>1, <2>5
<1> HIDE DEF T
<1>6. Len(thread) \in T
  BY <1>3, <1>4, <1>5, BoundedInduction
<1>7. N = part[Len(thread)]
  BY <1>2 DEF UpsertPartsOf
<1>8. N \in SoundModel(al) /\ FreshCards(thread, N.items, Len(thread))
  BY <1>3, <1>6, <1>7 DEF T
<1>9. Apart(N.items, {})
  <2>1. m \in GrownModel(al, m)
    BY GrownSame
  <2>2. N \in GrownModel(al, m)
    BY <2>1, TurnGrown
  <2> HIDE DEF N
  <2>3. DOMAIN N.items = 1..Len(N.items) /\ Len(m.items) = 0 /\ 1..0 = {}
    BY <1>8, ModelFacts
  <2>4. QED BY <2>2, <2>3 DEF GrownModel, Grown, Apart
<1> HIDE DEF N
<1>10. OfItems(N.items)
  <2>1. ASSUME NEW f \in DOMAIN N.items
        PROVE  N.items[f].kind \in ItemKinds /\ N.items[f].key[1] \notin Generated
    <3>1. PICK j \in 1..Len(thread) : N.items[f].key = NameOf(thread[j])
      BY <1>8 DEF FreshCards
    <3>2. thread[j] \in SoundItem(al) /\ N.items[f] \in SoundCard
      BY <1>3, <1>8, ModelFacts
    <3>3. N.items[f].key[1] \notin Generated
      BY <3>1, <3>2, NameFacts
    <3>4. QED BY <3>2, <3>3 DEF SoundCard
  <2>2. QED BY <2>1 DEF OfItems
<1>11. QED BY <1>8, <1>9, <1>10 DEF N

-----------------------------------------------------------------------------
(* No card is there twice but of what was completed, or typed here.        *)

\* The key of the card of an item.
NameNow(i) == IF i \in Reasonings THEN ReasoningKey(TurnOf(i)) ELSE ItemKey(i)

\* The keys of the cards of what the server completed.
Settled == {NameNow(i) : i \in {j \in Items : Completed(j)}}

Locals == {k \in Keys : k[1] = "local-user"}

Named(thread) == {NameOf(thread[j]) : j \in DOMAIN thread}

\* Only the last item may be under way, and only in a turn that runs.
OneUnderWay ==
  /\ \A p \in DOMAIN log : p < Len(log) => Completed(log[p])
  /\ turn = NoTurn => \A p \in DOMAIN log : Completed(log[p])

\* The cards of the transcript, and those on disk, have each key once, but that of a message
\* typed here or of a card whose item was completed: the load of a thread that does not have the
\* cards in the order of the disk keeps both.  An awaited answer has every item but its last
\* completed, and it has the items of the cards that are on disk twice.
CardsApart ==
  /\ Apart(model.items, Settled \cup Locals)
  /\ Apart(disk, Settled \cup Locals)
  /\ reply # NoReply =>
       /\ \A j \in DOMAIN reply.thread : j < Len(reply.thread) => NameOf(reply.thread[j]) \in Settled
       /\ Apart(disk, Named(reply.thread) \cup Locals)

MergeInv == OneUnderWay /\ CardsApart

\* What is completed stays so, in its turn.
CompletedStay == \A i \in Items : Completed(i) => Completed(i)' /\ TurnOf(i)' = TurnOf(i)

LEMMA SettledStay ==
  ASSUME CompletedStay
  PROVE  Settled \subseteq Settled'
<1>1. ASSUME NEW i \in Items, Completed(i) PROVE NameNow(i) \in Settled'
  <2>1. Completed(i)' /\ TurnOf(i)' = TurnOf(i)
    BY <1>1 DEF CompletedStay
  <2>2. NameNow(i)' = NameNow(i)
    BY <2>1 DEF NameNow
  <2>3. NameNow(i)' \in Settled'
    BY <2>1 DEF Settled
  <2>4. QED BY <2>2, <2>3
<1>2. QED BY <1>1 DEF Settled

LEMMA ApartMore ==
  ASSUME NEW s, NEW X, NEW Y, X \subseteq Y, Apart(s, X)
  PROVE  Apart(s, Y)
  BY DEF Apart

\* An item of a thread has the name that it has in the log.
LEMMA NameIs ==
  ASSUME NEW item \in SoundItem(aliases)
  PROVE  NameOf(item) = NameNow(item.id)
<1>1. /\ item.id \in Items /\ item.kind = KindOf(item.id)
      /\ item.kind = "reasoning" => <<item.id, item.turn>> \in aliases
  BY DEF SoundItem
<1>2. item.kind = "reasoning" <=> item.id \in Reasonings
  BY <1>1, SessionAssumption DEF KindOf, Items
<1>3. item.kind = "reasoning" => item.turn = TurnOf(item.id)
  BY <1>1 DEF aliases, AliasesOf, TurnOf
<1>4. QED BY <1>2, <1>3 DEF NameOf, NameNow

\* An item is appended when all others are completed.
LEMMA LogAppends ==
  ASSUME SessionInv, ShowInv, NEW i \in Items, i \notin ToSet(log), log' = Append(log, i),
         log = <<>> => i \in Users, \A j \in ToSet(log) : Completed(j) /\ words'[j] = words[j],
         turn' # NoTurn
  PROVE  OneUnderWay' /\ CompletedStay
<1>1. /\ \A j \in Items : Started(j) => Started(j)' /\ TurnOf(j)' = TurnOf(j)
      /\ log \in Seq(Items) /\ Len(log) \in Nat
  BY LogShows DEF SessionInv, ServerInv, WellLog
<1>2. ASSUME NEW j \in Items, j \in ToSet(log) PROVE Completed(j)' /\ TurnOf(j)' = TurnOf(j)
  BY <1>1, <1>2 DEF Completed, Started
<1>3. CompletedStay
  BY <1>2 DEF CompletedStay, Completed, Started
<1>4. ASSUME NEW p \in DOMAIN log', p < Len(log') PROVE Completed(log[p])' /\ p \in DOMAIN log
  <2>1. p \in DOMAIN log /\ log'[p] = log[p] /\ log[p] \in Items /\ log[p] \in ToSet(log)
    BY <1>1, <1>4 DEF ToSet
  <2>2. ASSUME NEW j, j = log[p] PROVE Completed(j)'
    BY <1>2, <2>1, <2>2
  <2>3. QED BY <2>1, <2>2
<1>5. OneUnderWay'
  BY <1>4 DEF OneUnderWay
<1>6. QED BY <1>3, <1>5

\* The log stays.
LEMMA LogRests ==
  ASSUME SessionInv, OneUnderWay, UNCHANGED <<log, said>>,
         \A j \in Items : Completed(j) => words'[j] = Words + 1,
         turn' = turn \/ \A j \in ToSet(log) : Completed(j)
  PROVE  OneUnderWay' /\ CompletedStay
<1>1. \A j : (Started(j)' <=> Started(j)) /\ TurnOf(j)' = TurnOf(j)
  BY LogStays
<1>2. CompletedStay
  BY <1>1 DEF CompletedStay, Completed
<1>3. log \in Seq(Items) /\ \A p \in DOMAIN log : log[p] \in Items /\ log[p] \in ToSet(log)
  BY DEF SessionInv, ServerInv, WellLog, ToSet
<1>4. ASSUME NEW p \in DOMAIN log, Completed(log[p]) PROVE Completed(log[p])'
  <2>1. ASSUME NEW j, j = log[p] PROVE Completed(j)'
    BY <1>2, <1>3, <1>4, <2>1 DEF CompletedStay
  <2>2. Completed(log[p])'
    BY <2>1
  <2>3. QED BY <2>2
<1>5. OneUnderWay'
  BY <1>3, <1>4 DEF OneUnderWay
<1>6. QED BY <1>2, <1>5

LEMMA ServerStays ==
  ASSUME SessionInv, ShowInv, OneUnderWay, ServerNext
  PROVE  OneUnderWay' /\ CompletedStay
<1>1. /\ words \in [Items -> 0..(Words + 1)] /\ Words \in Nat /\ turn \in Users \cup {NoTurn}
      /\ log \in Seq(Items) /\ Users \subseteq Items
  BY SessionAssumption DEF SessionInv, ServerInv, WellLog, Items
<1>2. ASSUME NEW u \in Users, NEW text, BeginTurn(u, text) PROVE OneUnderWay' /\ CompletedStay
  <2>1. /\ turn = NoTurn /\ u \notin ToSet(log) /\ turn' = u /\ log' = Append(log, u)
        /\ words' = [words EXCEPT ![u] = Words + 1]
    BY <1>2 DEF BeginTurn, Started
  <2>2. \A j \in ToSet(log) : Completed(j)
    BY <2>1 DEF OneUnderWay, ToSet
  <2>3. \A j \in ToSet(log) : words'[j] = words[j]
    BY <1>1, <2>1
  <2>4. u \in Items /\ turn' # NoTurn
    BY <1>1, <2>1, SessionAssumption
  <2>5. QED BY <2>1, <2>2, <2>3, <2>4, LogAppends
<1>3. ASSUME NEW i \in Agents \cup Reasonings, ServerStarts(i) PROVE OneUnderWay' /\ CompletedStay
  <2>1. /\ turn # NoTurn /\ i \notin ToSet(log) /\ \A j \in ToSet(log) : Completed(j)
        /\ log' = Append(log, i) /\ UNCHANGED <<turn, words>>
    BY <1>3 DEF ServerStarts, Started
  <2>2. i \in Items /\ log # <<>>
    BY <2>1 DEF Items, SessionInv, ServerInv
  <2>3. QED BY <2>1, <2>2, LogAppends
<1>4. ASSUME NEW i \in Agents \cup Reasonings, NEW summary, ServerStreams(i, summary)
      PROVE  OneUnderWay' /\ CompletedStay
  <2>1. /\ words[i] < Words /\ words' = [words EXCEPT ![i] = @ + 1] /\ UNCHANGED <<turn, log, said>>
    BY <1>4 DEF ServerStreams
  <2>2. words[i] # Words + 1
    <3>1. i \in Items
      BY DEF Items
    <3>2. words[i] \in Nat
      BY <1>1, <3>1
    <3>3. QED BY <1>1, <2>1, <3>2
  <2>3. \A j \in Items : Completed(j) => words'[j] = Words + 1
    BY <1>1, <2>1, <2>2 DEF Completed
  <2>4. QED BY <2>1, <2>3, LogRests
<1>5. ASSUME NEW i \in Agents \cup Reasonings, ServerCompletes(i)
      PROVE  OneUnderWay' /\ CompletedStay
  <2>1. words' = [words EXCEPT ![i] = Words + 1] /\ UNCHANGED <<turn, log, said>>
    BY <1>5 DEF ServerCompletes
  <2>2. \A j \in Items : Completed(j) => words'[j] = Words + 1
    BY <1>1, <2>1 DEF Completed
  <2>3. QED BY <2>1, <2>2, LogRests
<1>6. ASSUME NEW full, NEW failed, ServerEndsTurn(full, failed) PROVE OneUnderWay' /\ CompletedStay
  <2>1. UNCHANGED <<log, words, said>> /\ \A j \in ToSet(log) : Completed(j)
    BY <1>6 DEF ServerEndsTurn
  <2>2. \A j \in Items : Completed(j) => words'[j] = Words + 1
    BY <2>1 DEF Completed
  <2>3. QED BY <2>1, <2>2, LogRests
<1>7. ASSUME UNCHANGED serverVars PROVE OneUnderWay' /\ CompletedStay
  <2>1. UNCHANGED <<turn, log, words, said>>
    BY <1>7 DEF serverVars
  <2>2. \A j \in Items : Completed(j) => words'[j] = Words + 1
    BY <2>1 DEF Completed
  <2>3. QED BY <2>1, <2>2, LogRests
<1>8. CASE \E u \in Users : ForeignTurn(u)
  BY <1>2, <1>8 DEF ForeignTurn
<1>9. CASE \E c \in calls : ServerRefuses(c) \/ \E u \in Users : ServerAccepts(c, u)
  BY <1>2, <1>7, <1>9 DEF ServerRefuses, ServerAccepts
<1>10. CASE \E i \in Agents \cup Reasonings :
              \/ ServerStarts(i)
              \/ \E summary \in BOOLEAN : ServerStreams(i, summary)
              \/ ServerCompletes(i)
  BY <1>3, <1>4, <1>5, <1>10
<1>11. CASE \E full, failed \in BOOLEAN : ServerEndsTurn(full, failed)
  BY <1>6, <1>11
<1>12. CASE ServerPlans
  BY <1>7, <1>12 DEF ServerPlans
<1>13. CASE \E partial, owned \in BOOLEAN : ServerResumes(partial, owned)
  BY <1>7, <1>13 DEF ServerResumes
<1>14. QED BY <1>8, <1>9, <1>10, <1>11, <1>12, <1>13 DEF ServerNext

\* What the server does to the transcript is in an answer; it has every item that is completed,
\* and all of its items but the last one are.
LEMMA ServerApart ==
  ASSUME SessionInv, ShowInv, MergeInv, ServerNext
  PROVE  MergeInv'
<1>1. OneUnderWay' /\ CompletedStay
  BY ServerStays DEF MergeInv
<1>2. Settled \subseteq Settled'
  BY <1>1, SettledStay
<1>3. /\ Apart(model.items, Settled' \cup Locals) /\ Apart(disk, Settled' \cup Locals)
      /\ UNCHANGED <<model, disk>>
  <2>1. Apart(model.items, Settled \cup Locals) /\ Apart(disk, Settled \cup Locals)
    BY DEF MergeInv, CardsApart
  <2>2. UNCHANGED <<model, disk>>
    BY DEF ServerNext, ForeignTurn, ServerRefuses, ServerAccepts, ServerStarts, ServerStreams,
           ServerCompletes, ServerEndsTurn, ServerPlans, ServerResumes, appVars
  <2>3. Settled \cup Locals \subseteq Settled' \cup Locals
    BY <1>2
  <2>4. QED BY <2>1, <2>2, <2>3, ApartMore
<1>4. CASE UNCHANGED reply
  <2>1. ASSUME reply # NoReply
        PROVE  /\ \A j \in DOMAIN reply.thread :
                    j < Len(reply.thread) => NameOf(reply.thread[j]) \in Settled'
               /\ Apart(disk, Named(reply.thread) \cup Locals)
    BY <1>2, <2>1 DEF MergeInv, CardsApart
  <2>2. CardsApart'
    BY <1>3, <1>4, <2>1 DEF CardsApart, NoReply, Locals
  <2>3. QED BY <1>1, <2>2 DEF MergeInv
<1>5. CASE \E partial, owned \in BOOLEAN : ServerResumes(partial, owned)
  <2>1. PICK partial \in BOOLEAN, owned \in BOOLEAN : ServerResumes(partial, owned)
    BY <1>5
  <2> DEFINE thread == ThreadNow(partial)
  <2>2. reply'.thread = thread
    BY <2>1 DEF ServerResumes
  <2>3. /\ thread \in Seq(SoundItem(aliases))
        /\ \A i \in Items : Completed(i) => Carries(thread, i, TextOf(i))
        /\ Len(thread) <= Len(log)
        /\ \A p \in DOMAIN thread : thread[p].id = log[p]
    BY ThreadFacts DEF SessionInv
  <2> HIDE DEF thread
  <2>4. \A j \in DOMAIN thread : thread[j] \in SoundItem(aliases) /\ thread[j].id \in Items
    BY <2>3 DEF SoundItem
  <2>5. ASSUME NEW j \in DOMAIN thread, j < Len(thread) PROVE NameOf(thread[j]) \in Settled
    <3>1. j \in DOMAIN log /\ j < Len(log)
      <4>1. log \in Seq(Items) /\ Len(log) \in Nat /\ Len(thread) \in Nat /\ j \in 1..Len(thread)
        BY <2>3 DEF SessionInv, ServerInv, WellLog
      <4>2. QED BY <2>3, <2>5, <4>1
    <3>2. Completed(thread[j].id)
      BY <2>3, <3>1 DEF MergeInv, OneUnderWay
    <3>3. NameOf(thread[j]) = NameNow(thread[j].id)
      BY <2>4, NameIs
    <3>4. QED BY <2>4, <3>2, <3>3 DEF Settled
  <2>6. Settled \subseteq Named(thread)
    <3>1. ASSUME NEW i \in Items, Completed(i) PROVE NameNow(i) \in Named(thread)
      <4>1. PICK p \in DOMAIN thread : thread[p].id = i
        BY <2>3, <3>1 DEF Carries
      <4>2. NameOf(thread[p]) = NameNow(i)
        BY <2>4, <4>1, NameIs
      <4>3. QED BY <4>2 DEF Named
    <3>2. QED BY <3>1 DEF Settled
  <2>7. Apart(disk, Named(thread) \cup Locals)
    <3>1. Apart(disk, Settled \cup Locals)
      BY DEF MergeInv, CardsApart
    <3>2. Settled \cup Locals \subseteq Named(thread) \cup Locals
      BY <2>6
    <3>3. QED BY <3>1, <3>2, ApartMore
  <2>8. CardsApart'
    BY <1>2, <1>3, <2>2, <2>5, <2>7 DEF CardsApart, Locals
  <2>9. QED BY <1>1, <2>8 DEF MergeInv
<1>6. UNCHANGED reply \/ \E partial, owned \in BOOLEAN : ServerResumes(partial, owned)
  BY DEF ServerNext, ForeignTurn, ServerRefuses, ServerAccepts, ServerStarts, ServerStreams,
         ServerCompletes, ServerEndsTurn, ServerPlans, appVars
<1>7. QED BY <1>4, <1>5, <1>6

\* A step that leaves the server alone.
LEMMA QuietApart ==
  ASSUME SessionInv, MergeInv, UNCHANGED serverVars,
         Apart(model'.items, Settled \cup Locals), Apart(disk', Settled \cup Locals),
         reply' = NoReply \/ (reply' = reply /\ disk' = disk)
  PROVE  MergeInv'
<1>1. UNCHANGED <<turn, log, words, said>>
  BY DEF serverVars
<1>2. \A j : (Completed(j)' <=> Completed(j)) /\ TurnOf(j)' = TurnOf(j)
  BY <1>1, LogStays
<1>3. OneUnderWay'
  BY <1>1, <1>2 DEF MergeInv, OneUnderWay, Completed, Started
<1>4. Settled' = Settled
  BY <1>2 DEF Settled, NameNow
<1>5. CardsApart'
  BY <1>4 DEF MergeInv, CardsApart, NoReply, Locals
<1>6. QED BY <1>3, <1>5 DEF MergeInv

\* The fresh cards of a load, and the transcript that it leaves.
LEMMA LoadFresh ==
  ASSUME SessionInv, reply # NoReply
  PROVE  LET fresh == load_thread(model, reply.thread).items
         IN  /\ fresh \in Seq(SoundCard) /\ Apart(fresh, {}) /\ OfItems(fresh)
             /\ FreshCards(reply.thread, fresh, Len(reply.thread))
             /\ merge_persisted_transcript(load_thread(model, reply.thread), disk).items
                  = merge_snapshot_items(fresh, disk)
<1> DEFINE o == load_thread(model, reply.thread)
           s == merge_snapshot_items(o.items, disk)
<1>1. /\ model \in SoundModel(aliases) /\ reply.thread \in Seq(SoundItem(aliases)) /\ ServerInv
      /\ model.local \in Nat
  BY DEF SessionInv, AppInv, ReplyInv, SoundReply, SoundModel
<1>2. clear(model) \in SoundModel(aliases) /\ clear(model).items = <<>>
  BY <1>1, ClearSound
<1>3. o = UpsertAll(clear(model), reply.thread)
  BY DEF load_thread
<1> HIDE DEF o
<1>4. /\ o \in SoundModel(aliases) /\ Apart(o.items, {}) /\ OfItems(o.items)
      /\ FreshCards(reply.thread, o.items, Len(reply.thread))
  BY <1>1, <1>2, <1>3, AliasFacts, FreshAll
<1>5. o.items \in Seq(SoundCard) /\ disk \in Seq(SoundCard)
  BY <1>4 DEF SoundModel, SessionInv, AppInv
<1>6. merge_persisted_transcript(o, disk).items = s
  BY <1>4, <1>5, MergedModel
<1>7. QED BY <1>4, <1>5, <1>6 DEF o, s

LEMMA LoadApart ==
  ASSUME SessionInv, ShowInv, MergeInv, LoadThread
  PROVE  MergeInv'
<1> DEFINE thread == reply.thread
           fresh == load_thread(model, thread).items
           X == Settled \cup Locals
<1>1. /\ reply # NoReply /\ reply' = NoReply /\ UNCHANGED serverVars /\ UNCHANGED disk
      /\ model' = merge_persisted_transcript(load_thread(model, thread), disk)
  BY DEF LoadThread
<1>2. /\ fresh \in Seq(SoundCard) /\ Apart(fresh, {}) /\ FreshCards(thread, fresh, Len(thread))
      /\ model'.items = merge_snapshot_items(fresh, disk)
  BY <1>1, LoadFresh
<1> HIDE DEF fresh
<1>3. /\ disk \in Seq(SoundCard) /\ Apart(disk, X) /\ thread \in Seq(SoundItem(aliases))
      /\ \A j \in DOMAIN thread : j < Len(thread) => NameOf(thread[j]) \in Settled
  BY <1>1 DEF SessionInv, AppInv, ReplyInv, SoundReply, MergeInv, CardsApart
<1>4. Excused(fresh, disk, X)
  <2>1. ASSUME NEW q \in DOMAIN disk, NEW f \in DOMAIN fresh, fresh[f].key = disk[q].key,
               f # Len(fresh)
        PROVE  disk[q].key \in X
    <3>1. f < Len(fresh)
      <4>1. f \in 1..Len(fresh) /\ Len(fresh) \in Nat
        BY <1>2
      <4>2. QED BY <2>1, <4>1
    <3>2. PICK j \in 1..Len(thread) : fresh[f].key = NameOf(thread[j]) /\ j < Len(thread)
      BY <1>2, <3>1 DEF FreshCards
    <3>3. j \in DOMAIN thread
      BY <1>3
    <3>4. QED BY <1>3, <2>1, <3>2, <3>3
  <2>2. QED BY <1>3, <2>1 DEF Excused
<1> HIDE DEF X
<1>5. Apart(model'.items, X)
  BY <1>2, <1>3, <1>4, MergeApart
<1>6. QED BY <1>1, <1>3, <1>5, QuietApart DEF X

\* A batch gives no key twice.
LEMMA BatchApart ==
  ASSUME SessionInv, MergeInv, ApplyBatch
  PROVE  MergeInv'
<1> DEFINE X == Settled \cup Locals
<1>1. Apart(model.items, X) /\ Apart(disk, X)
  BY DEF MergeInv, CardsApart
<1>2. /\ UNCHANGED serverVars
      /\ view = "closed" => UNCHANGED <<model, reply, disk>>
      /\ view # "closed" => /\ disk' \in {model'.items, disk}
                            /\ reply' = NoReply \/ (reply' = reply /\ disk' = disk)
  BY DEF ApplyBatch
<1> HIDE DEF X
<1>3. CASE view = "closed"
  BY <1>1, <1>2, <1>3, QuietApart DEF X
<1>4. CASE view # "closed"
  <2>1. model' \in GrownModel(aliases, model)
    BY <1>4, BatchStepSound
  <2>2. DOMAIN model'.items = 1..Len(model'.items)
    <3>1. model'.items \in Seq(SoundCard)
      BY <2>1 DEF GrownModel, SoundModel
    <3>2. QED BY <3>1
  <2>3. /\ DOMAIN model.items = 1..Len(model.items) /\ Len(model.items) \in Nat
        /\ Len(model'.items) \in Nat
    <3>1. model.items \in Seq(SoundCard) /\ model'.items \in Seq(SoundCard)
      BY <2>1 DEF GrownModel, SoundModel, SessionInv, AppInv
    <3>2. QED BY <3>1
  <2>4. ASSUME NEW p \in DOMAIN model'.items, NEW q \in DOMAIN model'.items, p < q,
               model'.items[p].key = model'.items[q].key
        PROVE  model'.items[p].key \in X
    <3>1. /\ q \in 1..Len(model.items)
          /\ model.items[p].key = model'.items[p].key /\ model.items[q].key = model'.items[q].key
      BY <2>1, <2>2, <2>4 DEF GrownModel, Grown
    <3>2. p \in DOMAIN model.items /\ q \in DOMAIN model.items
      BY <2>2, <2>3, <2>4, <3>1
    <3>3. QED BY <1>1, <2>4, <3>1, <3>2 DEF Apart
  <2>5. Apart(model'.items, X)
    BY <2>4 DEF Apart
  <2>6. Apart(disk', X)
    BY <1>1, <1>2, <1>4, <2>5
  <2>7. QED BY <1>2, <1>4, <2>5, <2>6, QuietApart DEF X
<1>5. QED BY <1>3, <1>4

\* A message typed here has a key of its own kind, and keeps it when its call is answered.
LEMMA SendApart ==
  ASSUME SessionInv, MergeInv,
         (\E text \in Texts : Send(text)) \/ (\E c \in calls : SendAnswered(c))
  PROVE  MergeInv'
<1> DEFINE X == Settled \cup Locals
<1>1. /\ UNCHANGED serverVars /\ UNCHANGED <<reply, disk>>
      /\ Apart(model.items, X) /\ Apart(disk, X) /\ model \in SoundModel(aliases)
  BY DEF Send, SendAnswered, MergeInv, CardsApart, SessionInv, AppInv
<1>2. model.items \in Seq(SoundCard) /\ model.local \in Nat
      /\ model \in [items : Seq(SoundCard), index : Index, local : Nat]
  BY <1>1 DEF SoundModel
<1>3. ASSUME NEW text, Send(text) PROVE Apart(model'.items, X)
  <2> DEFINE card == Card(LocalKey(model.local + 1), NoKey, "user", "sending", <<<<text>>>>)
  <2>1. model' = push_without_splice([model EXCEPT !.local = @ + 1], card)
    BY <1>3 DEF Send, push_local_user
  <2>2. card.key \in Locals
    <3>1. LocalKey(model.local + 1) \in Keys /\ LocalKey(model.local + 1)[1] = "local-user"
      BY <1>2, KeyFacts
    <3>2. QED BY <3>1 DEF Card, Locals
  <2> DEFINE m == [model EXCEPT !.local = @ + 1]
  <2>3. m = [items |-> model.items, index |-> model.index, local |-> model.local + 1]
    BY <1>2
  <2> HIDE DEF card, m
  <2>4. model'.items = Append(model.items, card)
    BY <2>1, <2>3 DEF push_without_splice, m
  <2> DEFINE s == model.items
             t == Append(s, card)
  <2> HIDE DEF s
  <2>5. s \in Seq(SoundCard) /\ Apart(s, X) /\ card.key \in X
    BY <1>1, <1>2, <2>2 DEF s
  <2> HIDE DEF X
  <2>6. /\ DOMAIN t = 1..(Len(s) + 1) /\ Len(s) \in Nat /\ DOMAIN s = 1..Len(s)
        /\ t[Len(s) + 1] = card /\ \A p \in 1..Len(s) : t[p] = s[p]
    BY <2>5
  <2> HIDE DEF t
  <2>7. ASSUME NEW p \in DOMAIN t, NEW q \in DOMAIN t, p < q, t[p].key = t[q].key
        PROVE  t[p].key \in X
    <3>1. CASE q = Len(s) + 1
      BY <2>5, <2>6, <2>7, <3>1
    <3>2. CASE q # Len(s) + 1
      <4>1. p \in DOMAIN s /\ q \in DOMAIN s
        BY <2>6, <2>7, <3>2
      <4>2. QED BY <2>5, <2>6, <2>7, <4>1 DEF Apart
    <3>3. QED BY <3>1, <3>2
  <2>8. QED BY <2>4, <2>7 DEF Apart, t, s
<1>4. ASSUME NEW c \in calls, SendAnswered(c) PROVE Apart(model'.items, X)
  <2>1. model' = set_status_for_key(model, c.key, c.phase) /\ c.phase # "asked"
    BY <1>4 DEF SendAnswered
  <2>2. c.phase \in Statuses
    BY <2>1 DEF SessionInv, AppInv, Statuses
  <2>3. SameKeys(model, model') /\ DOMAIN model'.items = DOMAIN model.items
    <3>1. CASE ~ Found(model, c.key)
      <4>1. model' = model
        BY <2>1, <3>1 DEF set_status_for_key
      <4>2. QED BY <4>1 DEF SameKeys
    <3>2. CASE Found(model, c.key)
      <4> DEFINE p == model.index[c.key]
      <4>1. model' = [model EXCEPT !.items[p].status = c.phase]
        BY <2>1, <3>2 DEF set_status_for_key
      <4>2. p \in DOMAIN model.items
        BY <1>1, <3>2, ModelFacts DEF Found
      <4> HIDE DEF p
      <4>3. Edited(aliases, model, p, model')
        BY <1>1, <2>2, <4>1, <4>2, FieldSound
      <4>4. model' \in SoundModel(aliases) /\ SameKeys(model, model')
        BY <4>3 DEF Edited
      <4>5. model'.items \in Seq(SoundCard)
        BY <4>4 DEF SoundModel
      <4>6. QED BY <1>2, <4>4, <4>5 DEF SameKeys
    <3>3. QED BY <3>1, <3>2
  <2>4. \A p \in DOMAIN model.items : model'.items[p].key = model.items[p].key
    BY <1>2, <2>3 DEF SameKeys
  <2> HIDE DEF X
  <2>5. QED BY <1>1, <2>3, <2>4 DEF Apart
<1>5. Apart(model'.items, X)
  BY <1>3, <1>4
<1>6. QED BY <1>1, <1>5, QuietApart

\* The cards of a thread that is read again are those of its items, each once.
LEMMA RefreshApart ==
  ASSUME SessionInv, MergeInv, RefreshNext
  PROVE  MergeInv'
<1> DEFINE X == Settled \cup Locals
<1>1. /\ UNCHANGED serverVars /\ UNCHANGED <<reply, disk>>
      /\ Apart(model.items, X) /\ Apart(disk, X) /\ model \in SoundModel(aliases) /\ ServerInv
  BY DEF RefreshNext, RefreshTimer, RefreshLists, RefreshReads, RefreshFails, RefreshRest,
         MergeInv, CardsApart, SessionInv, AppInv
<1>2. CASE UNCHANGED model
  BY <1>1, <1>2, QuietApart
<1>3. ASSUME NEW partial \in BOOLEAN, RefreshReads(partial) PROVE Apart(model'.items, X)
  <2> DEFINE thread == ThreadNow(partial)
             o == load_thread(NewModel, thread)
             fresh == o.items
  <2>1. model' = refresh_thread(model, thread)
    BY <1>3 DEF RefreshReads
  <2>2. thread \in Seq(SoundItem(aliases))
    BY <1>1, ThreadFacts
  <2> HIDE DEF thread
  <2>3. NewModel.local \in Nat
    BY DEF NewModel
  <2>4. clear(NewModel) \in SoundModel(aliases) /\ clear(NewModel).items = <<>>
    BY <2>3, ClearSound
  <2>5. o = UpsertAll(clear(NewModel), thread)
    BY DEF load_thread
  <2>6. model' = [model EXCEPT !.items = fresh, !.index = rebuild_item_indices(fresh)]
    BY <2>1 DEF refresh_thread
  <2> HIDE DEF o
  <2>7. Apart(fresh, {})
    BY <1>1, <2>2, <2>4, <2>5, AliasFacts, FreshAll
  <2> HIDE DEF fresh
  <2>8. model \in [items : Seq(SoundCard), index : Index, local : Nat]
    BY <1>1 DEF SoundModel
  <2>9. model'.items = fresh
    BY <2>6, <2>8, NewParts
  <2>10. QED BY <2>7, <2>9, ApartMore
<1>4. UNCHANGED model \/ \E partial \in BOOLEAN : RefreshReads(partial)
  BY DEF RefreshNext, RefreshTimer, RefreshLists, RefreshFails
<1>5. QED BY <1>1, <1>2, <1>3, <1>4, QuietApart

LEMMA OpenApart ==
  ASSUME SessionInv, MergeInv, OpenThread \/ LeaveThread \/ Restart \/ LoadFails
  PROVE  MergeInv'
<1> DEFINE X == Settled \cup Locals
<1>1. /\ UNCHANGED serverVars /\ disk' = disk /\ reply' = NoReply
      /\ model' \in {model, clear(model), NewModel}
      /\ Apart(model.items, X) /\ Apart(disk, X)
  BY DEF OpenThread, LeaveThread, Restart, LoadFails, MergeInv, CardsApart
<1>2. clear(model).items = <<>> /\ NewModel.items = <<>>
  <2>1. model.local \in Nat
    BY DEF SessionInv, AppInv, SoundModel
  <2>2. QED BY <2>1, ClearSound DEF NewModel
<1>3. Apart(<<>>, X)
  BY DEF Apart
<1>4. Apart(model'.items, X)
  BY <1>1, <1>2, <1>3
<1>5. QED BY <1>1, <1>4, QuietApart

LEMMA MergeInit == Init => MergeInv
<1> SUFFICES ASSUME Init PROVE MergeInv
  OBVIOUS
<1>1. log = <<>> /\ model.items = <<>> /\ disk = <<>> /\ reply = NoReply
  BY DEF Init, NewModel
<1>2. DOMAIN <<>> = {}
  OBVIOUS
<1>3. QED BY <1>1, <1>2 DEF MergeInv, OneUnderWay, CardsApart, Apart

LEMMA MergeInvStep == SessionInv /\ ShowInv /\ MergeInv /\ [Next]_vars => MergeInv'
<1> SUFFICES ASSUME SessionInv, ShowInv, MergeInv, [Next]_vars PROVE MergeInv'
  OBVIOUS
<1>1. CASE ServerNext
  BY <1>1, ServerApart
<1>2. CASE OpenThread \/ LeaveThread \/ Restart \/ LoadFails
  BY <1>2, OpenApart
<1>3. CASE LoadThread
  BY <1>3, LoadApart
<1>4. CASE ApplyBatch
  BY <1>4, BatchApart
<1>5. CASE (\E text \in Texts : Send(text)) \/ (\E c \in calls : SendAnswered(c))
  BY <1>5, SendApart
<1>6. CASE RefreshNext
  BY <1>6, RefreshApart
<1>7. CASE UNCHANGED vars
  <2>1. UNCHANGED serverVars /\ UNCHANGED <<model, disk, reply>>
    BY <1>7 DEF vars, appVars
  <2>2. Apart(model.items, Settled \cup Locals) /\ Apart(disk, Settled \cup Locals)
    BY DEF MergeInv, CardsApart
  <2>3. QED BY <2>1, <2>2, QuietApart
<1>8. QED BY <1>1, <1>2, <1>3, <1>4, <1>5, <1>6, <1>7 DEF Next, AppNext

\* What a load leaves of cards on disk that are in the order of the thread.
LEMMA OrderedLoad ==
  ASSUME SessionInv, MergeInv, LoadThread, NEW fresh, fresh = load_thread(model, reply.thread).items,
         InOrder(disk, fresh)
  PROVE  /\ \A p, q \in DOMAIN model'.items :
              model'.items[p].key = model'.items[q].key
                => p = q \/ model'.items[p].key[1] = "local-user"
         /\ \A p, q \in DOMAIN disk, f \in DOMAIN fresh :
              p < q /\ disk[p].kind = "plan" /\ fresh[f].key = disk[q].key =>
                \E m, n \in DOMAIN model'.items :
                  m < n /\ model'.items[m] = disk[p] /\ model'.items[n] = fresh[f]
<1> DEFINE thread == reply.thread
<1>1. /\ reply # NoReply
      /\ model' = merge_persisted_transcript(load_thread(model, thread), disk)
  BY DEF LoadThread
<1>2. /\ fresh \in Seq(SoundCard) /\ Apart(fresh, {}) /\ OfItems(fresh)
      /\ FreshCards(thread, fresh, Len(thread))
      /\ model'.items = merge_snapshot_items(fresh, disk)
  BY <1>1, LoadFresh
<1>3. /\ disk \in Seq(SoundCard) /\ Apart(disk, Named(thread) \cup Locals)
      /\ thread \in Seq(SoundItem(aliases))
  BY <1>1 DEF SessionInv, AppInv, ReplyInv, SoundReply, MergeInv, CardsApart
<1>4. Apart(disk, Locals)
  <2>1. ASSUME NEW p \in DOMAIN disk, NEW q \in DOMAIN disk, p < q, disk[p].key = disk[q].key,
               disk[p].key \in Named(thread)
        PROVE  FALSE
    <3>1. PICK j \in DOMAIN thread : disk[p].key = NameOf(thread[j])
      BY <2>1 DEF Named
    <3>2. j \in 1..Len(thread)
      BY <1>3
    <3>3. PICK f \in DOMAIN fresh : fresh[f].key = disk[p].key
      BY <1>2, <3>1, <3>2 DEF FreshCards
    <3>4. StandsFor(disk[p], fresh[f]) /\ StandsFor(disk[q], fresh[f])
      BY <2>1, <3>3 DEF StandsFor
    <3>5. f < f
      BY <2>1, <3>4 DEF InOrder
    <3>6. f \in Nat
      BY <1>2
    <3>7. QED BY <3>5, <3>6
  <2>2. QED BY <1>3, <2>1 DEF Apart
<1>5. Excused(fresh, disk, Locals)
  <2>1. ASSUME NEW q \in DOMAIN disk, NEW f \in DOMAIN fresh, fresh[f].key = disk[q].key,
               NEW o \in DOMAIN disk, NEW g \in DOMAIN fresh, o < q, StandsFor(disk[o], fresh[g])
        PROVE  g < f
    BY <2>1 DEF InOrder, StandsFor
  <2>2. QED BY <1>4, <2>1 DEF Excused
<1> DEFINE s == model'.items
<1>6. Apart(s, Locals)
  BY <1>2, <1>3, <1>5, MergeApart
<1>7. s \in Seq(SoundCard) /\ DOMAIN s \subseteq Nat
  <2>1. s \in Seq(SoundCard)
    BY <1>2, <1>3, MergeSound
  <2> HIDE DEF s
  <2>2. QED BY <2>1
<1> HIDE DEF s
<1>8. ASSUME NEW p \in DOMAIN s, NEW q \in DOMAIN s, s[p].key = s[q].key
      PROVE  p = q \/ s[p].key[1] = "local-user"
  <2>1. p \in Nat /\ q \in Nat
    BY <1>7
  <2>2. p = q \/ p < q \/ q < p
    BY <2>1
  <2>3. p # q => s[p].key \in Locals
    BY <1>6, <1>8, <2>2 DEF Apart
  <2>4. QED BY <2>3 DEF Locals
<1>9. ASSUME NEW p \in DOMAIN disk, NEW q \in DOMAIN disk, NEW f \in DOMAIN fresh, p < q,
             disk[p].kind = "plan", fresh[f].key = disk[q].key
      PROVE  \E m, n \in DOMAIN s : m < n /\ s[m] = disk[p] /\ s[n] = fresh[f]
  BY <1>2, <1>3, <1>9, MergePlans DEF s
<1>10. QED BY <1>8, <1>9 DEF s
-----------------------------------------------------------------------------
(* The card of a turn is known by an item of the turn.                     *)

TiedCards(al) == {c \in SoundCard : Tied(al, c)}

KnownInv == Known(aliases, model) /\ disk \in Seq(TiedCards(aliases))

LEMMA AliasesGrow ==
  ASSUME SessionInv, ServerNext
  PROVE  aliases \subseteq aliases'
<1>1. WellLog(log) /\ (turn # NoTurn => log # <<>>)
  BY DEF SessionInv, ServerInv
<1>2. \/ log' = log
      \/ \E i \in Items : i \notin ToSet(log) /\ log' = Append(log, i) /\ (log = <<>> => i \in Users)
  <2>1. ASSUME NEW u \in Users, NEW text, BeginTurn(u, text)
        PROVE  u \in Items /\ u \notin ToSet(log) /\ log' = Append(log, u)
    BY <2>1 DEF BeginTurn, Started, Items
  <2>2. ASSUME NEW i \in Agents \cup Reasonings, ServerStarts(i)
        PROVE  i \in Items /\ i \notin ToSet(log) /\ log' = Append(log, i) /\ log # <<>>
    BY <1>1, <2>2 DEF ServerStarts, Started, Items
  <2>3. CASE \E u \in Users : ForeignTurn(u)
    BY <2>1, <2>3 DEF ForeignTurn
  <2>4. CASE \E c \in calls : ServerRefuses(c) \/ \E u \in Users : ServerAccepts(c, u)
    BY <2>1, <2>4 DEF ServerRefuses, ServerAccepts, serverVars
  <2>5. CASE \E i \in Agents \cup Reasonings :
               \/ ServerStarts(i)
               \/ \E summary \in BOOLEAN : ServerStreams(i, summary)
               \/ ServerCompletes(i)
    BY <2>2, <2>5 DEF ServerStreams, ServerCompletes
  <2>6. CASE \E full, failed \in BOOLEAN : ServerEndsTurn(full, failed)
    BY <2>6 DEF ServerEndsTurn
  <2>7. CASE ServerPlans \/ \E partial, owned \in BOOLEAN : ServerResumes(partial, owned)
    BY <2>7 DEF ServerPlans, ServerResumes, serverVars
  <2>8. QED BY <2>3, <2>4, <2>5, <2>6, <2>7 DEF ServerNext
<1>3. QED BY <1>1, <1>2, LogGrows DEF aliases

\* What is known stays known when the log grows.
LEMMA KnownMore ==
  ASSUME NEW al, NEW be, al \subseteq be
  PROVE  /\ \A m : Known(al, m) => Known(be, m)
         /\ \A s \in Seq(TiedCards(al)) : s \in Seq(TiedCards(be))
<1>1. \A c : Tied(al, c) => Tied(be, c)
  BY DEF Tied
<1>2. \A m : Known(al, m) => Known(be, m)
  BY <1>1 DEF Known
<1>3. ASSUME NEW s \in Seq(TiedCards(al)) PROVE s \in Seq(TiedCards(be))
  <2>1. \A p \in DOMAIN s : s[p] \in TiedCards(al)
    OBVIOUS
  <2>2. \A p \in DOMAIN s : s[p] \in TiedCards(be)
    BY <1>1, <2>1 DEF TiedCards
  <2>3. QED BY <2>2
<1>4. QED BY <1>2, <1>3

\* The cards of a sound transcript that is known.
LEMMA KnownCards ==
  ASSUME NEW al, NEW m \in SoundModel(al), Known(al, m)
  PROVE  m.items \in Seq(TiedCards(al))
<1>1. /\ m.items \in Seq(SoundCard)
      /\ \A p \in 1..Len(m.items) : m.items[p] \in SoundCard /\ Tied(al, m.items[p])
  BY ModelFacts DEF Known
<1>2. \A p \in 1..Len(m.items) : m.items[p] \in TiedCards(al)
  BY <1>1 DEF TiedCards
<1>3. QED BY <1>1, <1>2

\* A transcript whose index is rebuilt.
LEMMA RebuiltKnown ==
  ASSUME NEW al, NEW n, n.items \in Seq(TiedCards(al)), n.index = rebuild_item_indices(n.items)
  PROVE  Known(al, n)
<1> DEFINE s == n.items
<1>1. DOMAIN s = 1..Len(s) /\ \A p \in 1..Len(s) : Tied(al, s[p])
  BY DEF TiedCards
<1>2. DOMAIN n.index = UNION {KeysOf(s[p]) : p \in DOMAIN s}
  BY DEF rebuild_item_indices
<1>3. \A p \in 1..Len(s) : s[p].pid # NoKey => s[p].pid \in KeysOf(s[p])
  BY DEF KeysOf
<1>4. QED BY <1>1, <1>2, <1>3 DEF Known

\* The cards of a thread are known, and so are those of a load and of a refresh.
LEMMA LoadKnown ==
  ASSUME NEW al, al \subseteq Reasonings \X Users, NEW m \in SoundModel(al),
         NEW thread \in Seq(SoundItem(al)), NEW saved \in Seq(TiedCards(al)),
         NEW n \in {merge_persisted_transcript(load_thread(m, thread), saved),
                    refresh_thread(m, thread)}
  PROVE  Known(al, n)
<1>1. ASSUME NEW l, l.local \in Nat
      PROVE  load_thread(l, thread) \in SoundModel(al) /\ Known(al, load_thread(l, thread))
  <2> DEFINE c == clear(l)
  <2>1. c \in SoundModel(al) /\ c.items = <<>>
    BY <1>1, ClearSound
  <2>2. load_thread(l, thread) = UpsertAll(c, thread)
    BY DEF load_thread
  <2> HIDE DEF c
  <2>3. UpsertAll(c, thread) \in GrownModel(al, c)
    BY <2>1, GrownSame, TurnGrown
  <2>4. Known(al, c)
    BY <2>1 DEF Known
  <2>5. QED BY <2>2, <2>3, <2>4 DEF GrownModel
<1>2. CASE n = merge_persisted_transcript(load_thread(m, thread), saved)
  <2> DEFINE o == load_thread(m, thread)
  <2>1. m.local \in Nat
    BY ModelFacts
  <2>2. o \in SoundModel(al) /\ Known(al, o)
    BY <1>1, <2>1
  <2> HIDE DEF o
  <2>3. saved \in Seq(SoundCard)
    <3>1. \A p \in DOMAIN saved : saved[p] \in SoundCard
      BY DEF TiedCards
    <3>2. QED BY <3>1
  <2>4. /\ n.items = merge_snapshot_items(o.items, saved)
        /\ saved # <<>> => n.index = rebuild_item_indices(n.items)
        /\ saved = <<>> => n = o
    BY <1>2, <2>2, <2>3, MergedModel DEF o
  <2>5. n.items \in Seq(TiedCards(al))
    BY <2>2, <2>4, KnownCards, MergeSound
  <2>6. QED BY <2>2, <2>4, <2>5, RebuiltKnown
<1>3. CASE n = refresh_thread(m, thread)
  <2> DEFINE o == load_thread(NewModel, thread)
             s == o.items
  <2>1. NewModel.local \in Nat
    BY DEF NewModel
  <2>2. o \in SoundModel(al) /\ Known(al, o)
    BY <1>1, <2>1
  <2>3. n = [m EXCEPT !.items = s, !.index = rebuild_item_indices(s)]
    BY <1>3 DEF refresh_thread
  <2> HIDE DEF o
  <2>4. s \in Seq(TiedCards(al))
    BY <2>2, KnownCards
  <2> HIDE DEF s
  <2>5. n = [items |-> s, index |-> rebuild_item_indices(s), local |-> m.local]
    <3>1. m \in [items : Seq(SoundCard), index : Index, local : Nat]
      BY DEF SoundModel
    <3>2. QED BY <2>3, <3>1, NewParts
  <2>6. n.items = s /\ n.index = rebuild_item_indices(s)
    BY <2>5
  <2>7. QED BY <2>4, <2>6, RebuiltKnown
<1>4. QED BY <1>2, <1>3

LEMMA SendKnown ==
  ASSUME SessionInv, KnownInv,
         (\E text \in Texts : Send(text)) \/ (\E c \in calls : SendAnswered(c))
  PROVE  Known(aliases, model')
<1>1. /\ model \in SoundModel(aliases) /\ Known(aliases, model)
      /\ model.items \in Seq(SoundCard) /\ model.local \in Nat
      /\ model \in [items : Seq(SoundCard), index : Index, local : Nat]
  BY DEF SessionInv, AppInv, KnownInv, SoundModel
<1>2. ASSUME NEW text, Send(text) PROVE Known(aliases, model')
  <2> DEFINE m == [model EXCEPT !.local = @ + 1]
             card == Card(LocalKey(model.local + 1), NoKey, "user", "sending", <<<<text>>>>)
  <2>1. model' = push_without_splice(m, card)
    BY <1>2 DEF Send, push_local_user
  <2>2. card.key[1] = "local-user" /\ card.pid = NoKey
    BY DEF Card, LocalKey
  <2>3. m.items = model.items /\ m.index = model.index
    BY <1>1
  <2>4. /\ model'.items = Append(model.items, card)
        /\ model'.index = Put(model.index, card.key, Len(model.items) + 1)
    <3>1. m = [items |-> model.items, index |-> model.index, local |-> model.local + 1]
      BY <1>1
    <3> HIDE DEF m, card
    <3> DEFINE s == Append(model.items, card)
               x == Put(model.index, card.key, Len(model.items) + 1)
    <3>2. model' = [m EXCEPT !.items = s, !.index = x]
      BY <2>1, <2>3 DEF push_without_splice
    <3> HIDE DEF s, x
    <3>3. model' = [items |-> s, index |-> x, local |-> model.local + 1]
      BY <3>1, <3>2
    <3>4. QED BY <3>3 DEF s, x
  <2> HIDE DEF card
  <2>5. /\ Len(model'.items) = Len(model.items) + 1 /\ Len(model.items) \in Nat
        /\ model'.items[Len(model.items) + 1] = card
        /\ \A p \in 1..Len(model.items) : model'.items[p] = model.items[p]
    BY <1>1, <2>4
  <2>6. \A k \in DOMAIN model.index : k \in DOMAIN model'.index
    BY <2>4 DEF Put
  <2>7. \A p \in 1..Len(model'.items) : p \in 1..Len(model.items) \/ model'.items[p] = card
    BY <2>5
  <2>8. QED BY <1>1, <2>2, <2>5, <2>6, <2>7 DEF Known, Tied
<1>3. ASSUME NEW c \in calls, SendAnswered(c) PROVE Known(aliases, model')
  <2>1. model' = set_status_for_key(model, c.key, c.phase) /\ c.phase \in Statuses
    BY <1>3 DEF SendAnswered, SessionInv, AppInv, Statuses
  <2>2. CASE ~ Found(model, c.key)
    BY <1>1, <2>1, <2>2 DEF set_status_for_key
  <2>3. CASE Found(model, c.key)
    <3> DEFINE p == model.index[c.key]
    <3>1. model' = [model EXCEPT !.items[p].status = c.phase]
      BY <2>1, <2>3 DEF set_status_for_key
    <3>2. p \in DOMAIN model.items
      BY <1>1, <2>3, ModelFacts DEF Found
    <3> HIDE DEF p
    <3>3. model \in SoundModel(aliases) /\ c.phase \in Statuses
      BY <1>1, <2>1
    <3>4. Edited(aliases, model, p, model')
      BY <3>1, <3>2, <3>3, FieldSound
    <3>5. QED BY <1>1, <3>4 DEF Edited, SameKeys, Known, Tied
  <2>4. QED BY <2>2, <2>3
<1>4. QED BY <1>2, <1>3

LEMMA KnownInvStep == SessionInv /\ KnownInv /\ [Next]_vars => KnownInv'
<1> SUFFICES ASSUME SessionInv, KnownInv, [Next]_vars PROVE KnownInv'
  OBVIOUS
<1>1. /\ model \in SoundModel(aliases) /\ Known(aliases, model)
      /\ disk \in Seq(TiedCards(aliases)) /\ ServerInv /\ aliases \subseteq Reasonings \X Users
  BY AliasFacts DEF SessionInv, AppInv, KnownInv
<1>2. ASSUME UNCHANGED serverVars, Known(aliases, model'), disk' \in Seq(TiedCards(aliases))
      PROVE  KnownInv'
  BY <1>2 DEF KnownInv, aliases, serverVars
<1>3. CASE ServerNext
  <2>1. UNCHANGED <<model, disk>>
    BY <1>3 DEF ServerNext, ForeignTurn, ServerRefuses, ServerAccepts, ServerStarts, ServerStreams,
                ServerCompletes, ServerEndsTurn, ServerPlans, ServerResumes, appVars
  <2>2. QED BY <1>1, <1>3, <2>1, AliasesGrow, KnownMore DEF KnownInv
<1>4. CASE OpenThread \/ LeaveThread \/ Restart
  <2>1. UNCHANGED serverVars /\ disk' = disk /\ model' \in {clear(model), NewModel}
    BY <1>4 DEF OpenThread, LeaveThread, Restart
  <2>2. clear(model).items = <<>> /\ NewModel.items = <<>>
    <3>1. model.local \in Nat
      BY <1>1, ModelFacts
    <3>2. QED BY <3>1, ClearSound DEF NewModel
  <2>3. Known(aliases, model')
    BY <2>1, <2>2 DEF Known
  <2>4. QED BY <1>1, <1>2, <2>1, <2>3
<1>5. CASE LoadThread
  <2>1. /\ UNCHANGED serverVars /\ disk' = disk /\ reply # NoReply
        /\ model' = merge_persisted_transcript(load_thread(model, reply.thread), disk)
    BY <1>5 DEF LoadThread
  <2>2. reply.thread \in Seq(SoundItem(aliases))
    BY <2>1 DEF SessionInv, ReplyInv, SoundReply
  <2>3. Known(aliases, model')
    BY <1>1, <2>1, <2>2, LoadKnown
  <2>4. QED BY <1>1, <1>2, <2>1, <2>3
<1>6. CASE LoadFails
  BY <1>1, <1>2, <1>6 DEF LoadFails
<1>7. CASE ApplyBatch
  <2>1. UNCHANGED serverVars /\ (view # "closed" => model' \in GrownModel(aliases, model))
    BY <1>7, BatchStepSound DEF ApplyBatch
  <2>2. Known(aliases, model') /\ model' \in SoundModel(aliases)
    BY <1>1, <1>7, <2>1 DEF ApplyBatch, GrownModel
  <2>3. disk' \in {model'.items, disk}
    BY <1>7 DEF ApplyBatch
  <2>4. disk' \in Seq(TiedCards(aliases))
    BY <1>1, <2>2, <2>3, KnownCards
  <2>5. QED BY <1>2, <2>1, <2>2, <2>4
<1>8. CASE (\E text \in Texts : Send(text)) \/ (\E c \in calls : SendAnswered(c))
  <2>1. UNCHANGED serverVars /\ disk' = disk
    BY <1>8 DEF Send, SendAnswered
  <2>2. QED BY <1>1, <1>2, <1>8, <2>1, SendKnown
<1>9. CASE RefreshNext
  <2>1. UNCHANGED serverVars /\ disk' = disk
    BY <1>9 DEF RefreshNext, RefreshTimer, RefreshLists, RefreshReads, RefreshFails, RefreshRest
  <2>2. model' = model \/ \E partial \in BOOLEAN : model' = refresh_thread(model, ThreadNow(partial))
    BY <1>9 DEF RefreshNext, RefreshTimer, RefreshLists, RefreshReads, RefreshFails
  <2>3. \A partial \in BOOLEAN : ThreadNow(partial) \in Seq(SoundItem(aliases))
    BY <1>1, ThreadFacts
  <2>4. Known(aliases, model')
    BY <1>1, <2>2, <2>3, LoadKnown
  <2>5. QED BY <1>1, <1>2, <2>1, <2>4
<1>10. CASE UNCHANGED vars
  BY <1>1, <1>2, <1>10 DEF vars, appVars
<1>11. QED BY <1>3, <1>4, <1>5, <1>6, <1>7, <1>8, <1>9, <1>10 DEF Next, AppNext

LEMMA KnownInit == Init => KnownInv
<1> SUFFICES ASSUME Init PROVE KnownInv
  OBVIOUS
<1>1. model.items = <<>> /\ disk = <<>>
  BY DEF Init, NewModel
<1>2. QED BY <1>1 DEF KnownInv, Known

\* Two cards of one item, the second one new: the first one has the key of the item, the second
\* one that of the reasoning of its turn.
LEMMA TwinIs ==
  ASSUME SessionInv, NEW al, al = aliases, NEW p \in SoundCard, NEW q \in SoundCard,
         Tied(al, p), Tied(al, q), p.key # q.key, p.pid = q.pid, q.key[1] = "turn-reasoning"
  PROVE  \E r \in Reasonings : p.key = ItemKey(r) /\ q.key = ReasoningKey(TurnOf(r))
<1>1. PICK z \in al : q.pid = ItemKey(z[1]) /\ q.key = ReasoningKey(z[2])
  BY DEF Tied
<1>2. PICK r \in Reasonings \cap ToSet(log) : z = <<r, TurnIn(log, r)>>
  BY <1>1 DEF aliases, AliasesOf
<1>3. q.pid = ItemKey(r) /\ q.key = ReasoningKey(TurnOf(r)) /\ p.pid = ItemKey(r) /\ p.pid # NoKey
  <2>1. ItemKey(r) # NoKey
    BY KeyFacts
  <2>2. QED BY <1>1, <1>2, <2>1 DEF TurnOf
<1>4. p.key[1] # "turn-reasoning"
  <2> SUFFICES ASSUME p.key[1] = "turn-reasoning" PROVE FALSE
    OBVIOUS
  <2>1. PICK y \in al : p.pid = ItemKey(y[1]) /\ p.key = ReasoningKey(y[2])
    BY DEF Tied
  <2>2. PICK s \in Reasonings \cap ToSet(log) : y = <<s, TurnIn(log, s)>>
    BY <2>1 DEF aliases, AliasesOf
  <2>3. s = r
    <3>1. y[1] = s
      BY <2>2
    <3>2. ItemKey(s) = ItemKey(r)
      BY <1>3, <2>1, <3>1
    <3>3. QED BY <3>2 DEF ItemKey
  <2>4. QED BY <1>3, <2>1, <2>2, <2>3 DEF TurnOf
<1>5. p.key = p.pid
  BY <1>3, <1>4 DEF SoundCard
<1>6. QED BY <1>3, <1>5

-----------------------------------------------------------------------------
(* The theorems.                                                           *)

\* The inductive invariant of the session: what the server has and has sent, what is in the
\* cards, in the index and on disk, and what a read-only thread shows.
THEOREM SessionTheorem == Spec => []SessionInv
<1>1. Init => SessionInv
  BY InitSound
<1>2. SessionInv /\ [Next]_vars => SessionInv'
  BY StepSound
<1>3. QED BY <1>1, <1>2, PTL DEF Spec

\* item_indices: however long the session, whatever streams, echoes, merges, refreshes and
\* restarts it has, the entry of a key is a card with that key or protocol id, or the
\* reasoning card of the turn of that item.
THEOREM IndexTheorem == Spec => []IndexSound
<1>1. SessionInv => IndexSound
  <2> SUFFICES ASSUME SessionInv PROVE IndexSound
    OBVIOUS
  <2>1. model \in SoundModel(aliases)
    BY DEF SessionInv, AppInv
  <2>2. /\ \A k \in DOMAIN model.index :
             /\ model.index[k] \in DOMAIN model.items
             /\ Stands(aliases, k, model.items[model.index[k]])
        /\ model.index \in Index
    BY <2>1, ModelFacts
  <2>3. model.index \in [DOMAIN model.index -> DOMAIN cards]
    BY <2>2 DEF Index, cards
  <2>4. ASSUME NEW k \in DOMAIN model.index
        PROVE  LET card == cards[model.index[k]]
               IN  \/ k \in KeysOf(card)
                   \/ \E r \in Reasonings : /\ Started(r) /\ k = ItemKey(r)
                                           /\ card.key = ReasoningKey(TurnOf(r))
    <3> DEFINE card == cards[model.index[k]]
    <3>1. Stands(aliases, k, card)
      BY <2>2 DEF cards
    <3> HIDE DEF card
    <3>2. CASE \E z \in aliases : k = ItemKey(z[1]) /\ card.key = ReasoningKey(z[2])
      <4>1. PICK z \in aliases : k = ItemKey(z[1]) /\ card.key = ReasoningKey(z[2])
        BY <3>2
      <4>2. PICK r \in Reasonings \cap ToSet(log) : z = <<r, TurnIn(log, r)>>
        BY <4>1 DEF aliases, AliasesOf
      <4>3. Started(r) /\ k = ItemKey(r) /\ card.key = ReasoningKey(TurnOf(r))
        BY <4>1, <4>2 DEF Started, TurnOf
      <4>4. QED BY <4>3 DEF card
    <3>3. CASE k \in KeysOf(card)
      BY <3>3 DEF card
    <3>4. QED BY <3>1, <3>2, <3>3 DEF Stands
  <2>5. QED BY <2>3, <2>4 DEF IndexSound
<1>2. QED BY <1>1, SessionTheorem, PTL

\* schedule_read_only_refresh: a thread that is shown read-only always has its refresher, no
\* other thread has one, and when nothing changed since the version that was loaded, every
\* answer of the agent is there in full.
THEOREM WatchedTheorem == Spec => []ReadOnlyIsWatched
<1>1. SessionInv => ReadOnlyIsWatched
  <2> SUFFICES ASSUME SessionInv PROVE ReadOnlyIsWatched
    OBVIOUS
  <2>1. refresher.at # "off" <=> readOnly /\ view = "open"
    BY DEF SessionInv, AppInv
  <2>2. ASSUME readOnly, view = "open", UpdatedAt = loadedAt, NEW i \in Agents, Completed(i)
        PROVE  \E p \in CardsOf(i) : cards[p].content = TextOf(i)
    <3>1. CardsShow(UpdatedAt, model.items) /\ ServerInv
      BY <2>2 DEF SessionInv, AppInv
    <3>2. i \in ToSet(log) /\ words[i] = Words + 1 /\ UpdatedAt.log = log /\ UpdatedAt.words = words
      BY <2>2 DEF Completed, Started, UpdatedAt
    <3>3. PICK p \in DOMAIN model.items :
            model.items[p].pid = ItemKey(i) /\ model.items[p].content = FullText(i)
      BY <3>1, <3>2 DEF CardsShow
    <3>4. i \notin Users /\ i \in Items
      BY SessionAssumption DEF Items
    <3>5. TextOf(i) = FullText(i)
      BY <3>1, <3>2, <3>4, TextFacts
    <3>6. QED BY <3>3, <3>5 DEF CardsOf, cards
  <2>3. QED BY <2>1, <2>2 DEF ReadOnlyIsWatched
<1>2. QED BY <1>1, SessionTheorem, PTL

\* The cards, here and on disk: that of the reasoning of a turn is known by an item of the turn,
\* and the index has an entry for the protocol id of every card.
THEOREM KnownTheorem == Spec => []KnownInv
<1>1. Init => KnownInv
  BY KnownInit
<1>2. SessionInv /\ KnownInv /\ [Next]_vars => KnownInv'
  BY KnownInvStep
<1>3. QED BY <1>1, <1>2, SessionTheorem, PTL DEF Spec

\* apply_event_batch: however many notifications a batch has, in whatever state the transcript
\* is, it moves and drops no card, changes the key only of a message typed here, makes no card
\* with the key of another one, and a second card of an item only when the item is reasoning
\* whose entry a load has lost: the first card has the key of the item, and the batch makes
\* that of the reasoning of its turn.
THEOREM InPlaceTheorem == Spec => InPlace
<1> DEFINE Kept == /\ \A p \in DOMAIN cards :
                        /\ p \in DOMAIN cards'
                        /\ cards'[p].key = cards[p].key \/ cards[p].key[1] = "local-user"
                   /\ \A p, q \in DOMAIN cards' : p < q /\ q \notin DOMAIN cards =>
                        /\ cards'[p].key # cards'[q].key
                        /\ cards'[p].pid = cards'[q].pid /\ cards'[q].pid # NoKey =>
                             \E r \in Reasonings : /\ cards'[p].key = ItemKey(r)
                                                   /\ cards'[q].key = ReasoningKey(TurnOf(r))
<1>1. SessionInv /\ KnownInv /\ [Next]_vars => [ApplyBatch /\ view # "closed" => Kept]_vars
  <2> SUFFICES ASSUME SessionInv, KnownInv, ApplyBatch, view # "closed" PROVE Kept
    OBVIOUS
  <2>1. model' \in GrownModel(aliases, model)
    BY BatchStepSound
  <2>2. /\ Grown(model, model') /\ model' \in SoundModel(aliases) /\ model \in SoundModel(aliases)
        /\ Known(aliases, model') /\ NoTwin(model, model')
    BY <2>1 DEF GrownModel, SessionInv, AppInv, KnownInv
  <2>3. /\ DOMAIN model.items = 1..Len(model.items) /\ Len(model.items) \in Nat
        /\ DOMAIN model'.items = 1..Len(model'.items) /\ Len(model'.items) \in Nat
        /\ \A p \in DOMAIN model'.items : model'.items[p] \in SoundCard
    BY <2>2, ModelFacts
  <2>4. \A p \in DOMAIN cards : /\ p \in DOMAIN cards'
                                /\ cards'[p].key = cards[p].key \/ cards[p].key[1] = "local-user"
    BY <2>2, <2>3 DEF Grown, cards
  <2>5. ASSUME NEW p \in DOMAIN cards', NEW q \in DOMAIN cards', p < q, q \notin DOMAIN cards
        PROVE  /\ cards'[p].key # cards'[q].key
               /\ cards'[p].pid = cards'[q].pid /\ cards'[q].pid # NoKey =>
                    \E r \in Reasonings : /\ cards'[p].key = ItemKey(r)
                                          /\ cards'[q].key = ReasoningKey(TurnOf(r))
    <3>1. cards'[p].key # cards'[q].key
      BY <2>2, <2>3, <2>5 DEF Grown, cards
    <3>2. ASSUME cards'[p].pid = cards'[q].pid, cards'[q].pid # NoKey
          PROVE  cards'[q].key[1] = "turn-reasoning"
      BY <2>2, <2>3, <2>5, <3>2 DEF NoTwin, cards
    <3>3. Tied(aliases, cards'[p]) /\ Tied(aliases, cards'[q])
      BY <2>2, <2>3 DEF Known, cards
    <3>4. cards'[p] \in SoundCard /\ cards'[q] \in SoundCard
      BY <2>3 DEF cards
    <3>5. QED BY <3>1, <3>2, <3>3, <3>4, TwinIs
  <2>6. QED BY <2>4, <2>5
<1>2. QED BY <1>1, SessionTheorem, KnownTheorem, PTL DEF Spec, InPlace

\* The way of what the server completed: the snapshot that is awaited, the channel and the
\* cards of an open thread; what a delta or an item that is under way puts in its place is
\* followed in the channel by the completed item.
THEOREM ShowTheorem == Spec => []ShowInv
<1>1. SessionInv /\ Init => ShowInv
  <2> SUFFICES ASSUME Init PROVE ShowInv
    OBVIOUS
  <2>1. /\ \A i \in Items : words[i] = 0
        /\ reply = NoReply /\ view = "closed" /\ log = <<>>
    BY DEF Init
  <2>2. \A i : ~ Completed(i)
    BY <2>1 DEF Completed, Started, ToSet
  <2>3. QED BY <2>1, <2>2 DEF ShowInv
<1>2. SessionInv /\ ShowInv /\ [Next]_vars => ShowInv'
  BY ShowStep
<1>3. QED BY <1>1, <1>2, SessionTheorem, PTL DEF Spec

\* load_thread, merge_persisted_transcript and apply_event_batch: an open transcript whose
\* channel is empty has everything the server completed, in full, in whatever order the
\* snapshot and the notifications were queued, unless a notification was applied ahead of
\* the snapshot; of reasoning the text is in a section of the card of its turn.
THEOREM AllShownTheorem == Spec => []AllShown
<1>1. SessionInv /\ ShowInv => AllShown
  <2> SUFFICES ASSUME SessionInv, ShowInv, view = "open", ~readOnly, wire = <<>>, ~overtaken,
                      NEW i \in Items, Completed(i)
               PROVE  IF i \in Reasonings
                      THEN \E p \in DOMAIN cards :
                             /\ cards[p].key = ReasoningKey(TurnOf(i))
                             /\ \E section \in ToSet(cards[p].content) :
                                  FullText(i)[1] \in SubSeqs(section)
                      ELSE \E p \in CardsOf(i) : cards[p].content = TextOf(i)
    BY DEF AllShown
  <2>1. Reaches(i, TurnOf(i), TextOf(i)) /\ ~ Due(wire, i, TextOf(i))
    BY DEF ShowInv, Due
  <2>2. ShownAs(model.items, i, TurnOf(i), TextOf(i))
    BY <2>1 DEF Reaches
  <2>3. CASE i \in Reasonings
    <3>1. TextOf(i) = FullText(i)
      BY <2>3, TextFacts, SessionAssumption DEF SessionInv, Completed
    <3>2. PICK p \in DOMAIN model.items :
            model.items[p].key = ReasoningKey(TurnOf(i)) /\ Says(model.items[p].content, TextOf(i)[1])
      BY <2>2, <2>3 DEF ShownAs
    <3>3. QED BY <2>3, <3>1, <3>2 DEF Says, cards
  <2>4. CASE i \notin Reasonings
    BY <2>2, <2>4 DEF ShownAs, ShownIn, CardsOf, cards
  <2>5. QED BY <2>3, <2>4
<1>2. QED BY <1>1, SessionTheorem, ShowTheorem, PTL

\* load_thread, merge_persisted_transcript and apply_event_batch: what may be there twice, in the
\* cards or on disk, is a message typed here or a card whose item the server completed, for a
\* load that finds the saved cards in another order keeps both.  An awaited answer has the items of
\* all the cards that are on disk twice.
THEOREM MergeTheorem == Spec => []MergeInv
<1>1. Init => MergeInv
  BY MergeInit
<1>2. SessionInv /\ ShowInv /\ MergeInv /\ [Next]_vars => MergeInv'
  BY MergeInvStep
<1>3. QED BY <1>1, <1>2, SessionTheorem, ShowTheorem, PTL DEF Spec

\* merge_snapshot_items: a load that finds the saved cards in the order of the thread leaves no
\* card twice, but messages typed before and after a restart, and every plan that was saved is
\* back, before every item that it was saved before.
THEOREM MergeInOrderTheorem == Spec => MergeInOrder
<1> DEFINE fresh == load_thread(model, reply.thread).items
           Merged == LoadThread /\ InOrder(disk, fresh) =>
             /\ \A p, q \in DOMAIN cards' :
                  cards'[p].key = cards'[q].key => p = q \/ cards'[p].key[1] = "local-user"
             /\ \A p, q \in DOMAIN disk, f \in DOMAIN fresh :
                  p < q /\ disk[p].kind = "plan" /\ fresh[f].key = disk[q].key =>
                    \E m, n \in DOMAIN cards' :
                      m < n /\ cards'[m] = disk[p] /\ cards'[n] = fresh[f]
<1>1. SessionInv /\ MergeInv /\ [Next]_vars => [Merged]_vars
  <2> SUFFICES ASSUME SessionInv, MergeInv PROVE Merged
    OBVIOUS
  <2>1. cards' = model'.items
    BY DEF cards
  <2> HIDE DEF fresh
  <2>2. QED BY <2>1, OrderedLoad DEF fresh
<1>2. QED BY <1>1, SessionTheorem, MergeTheorem, PTL DEF Spec, MergeInOrder
=============================================================================
